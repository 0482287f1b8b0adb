------------------------------- MODULE Buckets -------------------------------
(***************************************************************************)
(* The account-wide spending bucket of one mint and the debit every outflow *)
(* goes through (buckets.rs, debit).                                        *)
(*                                                                         *)
(* debit works on a copy of the bucket, rolls its UTC day and its ring of    *)
(* RING_DAYS day totals forward to `now`, checks the three caps, and only    *)
(* then writes the copy back. Here a debit is a guard (DebitAllowed) and the *)
(* bucket it leaves (Debited); where the guard is false the program returns  *)
(* an error and the bucket is as it was.                                    *)
(***************************************************************************)
EXTENDS Caps, Functions

CONSTANTS
  DAY_SECS,   \* seconds of a UTC day (86400)
  RING_DAYS   \* days the ring remembers (30)

ASSUME BucketsAssumption ==
  /\ DAY_SECS \in Nat \ {0}
  /\ RING_DAYS \in Nat \ {0}

RingSlots == 0 .. RING_DAYS - 1

\* A slot of the ring is a u64 too; that it never leaves that range is no matter of
\* typing, it follows from the sum of the ring being checked.
MintBuckets ==
  [day_start: Nat, spent_today: U64, ring_day_index: Nat, ring: [RingSlots -> Nat]]

EmptyBuckets ==
  [day_start |-> 0, spent_today |-> 0, ring_day_index |-> 0,
   ring |-> [s \in RingSlots |-> 0]]

DayNumber(now) == now \div DAY_SECS

RingSlot(day) == day % RING_DAYS

-----------------------------------------------------------------------------
(* Rolling forward. *)

\* Mutant: the new day starts at the first debit instead of at UTC midnight.
RollDayUnsnapped(b, now) ==
  IF now >= b.day_start + DAY_SECS
    THEN [b EXCEPT !.spent_today = 0, !.day_start = now]
    ELSE b

\* Mutant: in its first second, a day still counts what was spent the day before.
RollDayAfterMidnight(b, now) ==
  IF now > b.day_start + DAY_SECS
    THEN [b EXCEPT !.spent_today = 0, !.day_start = now - (now % DAY_SECS)]
    ELSE b

RollDay(b, now) ==
  IF now >= b.day_start + DAY_SECS
    THEN [b EXCEPT !.spent_today = 0, !.day_start = now - (now % DAY_SECS)]
    ELSE b

\* The days whose slots the ring gives up when it rolls to `day`: the last
\* min(RING_DAYS, gap) of the days it skips over, `day` itself included.
SkippedDays(b, day) ==
  {d \in (b.ring_day_index + 1) .. day : d > day - RING_DAYS}

\* Mutant: only the slot of the new day is given up, not those skipped over.
RollRingOnlyToday(b, day) ==
  IF day > b.ring_day_index
    THEN [b EXCEPT !.ring_day_index = day, !.ring[RingSlot(day)] = 0]
    ELSE b

RollRing(b, day) ==
  IF day > b.ring_day_index
    THEN [b EXCEPT
            !.ring_day_index = day,
            !.ring = [s \in RingSlots |->
                        IF \E d \in SkippedDays(b, day) : s = RingSlot(d)
                          THEN 0 ELSE b.ring[s]]]
    ELSE b

Rolled(b, now) == RollRing(RollDay(b, now), DayNumber(now))

-----------------------------------------------------------------------------
(* Debiting. *)

RingSum(b) == SumFunctionOnSet(b.ring, RingSlots)

\* Mutant: the sums wrap at 2^64 instead of failing.
DebitAllowedWrapping(b, cap, amount, now) ==
  LET cand == Rolled(b, now)
  IN  /\ cap.mint # NoMint
      /\ amount <= cap.per_tx
      /\ (cand.spent_today + amount) % (U64_MAX + 1) <= cap.per_day
      /\ (RingSum(cand) + amount) % (U64_MAX + 1) <= cap.per_30d

\* Mutant: the caps are checked before the debit is added.
DebitAllowedLate(b, cap, amount, now) ==
  LET cand == Rolled(b, now)
  IN  /\ cap.mint # NoMint
      /\ amount <= cap.per_tx
      /\ cand.spent_today <= cap.per_day
      /\ RingSum(cand) <= cap.per_30d

\* Mutant: the caps are compared strictly, so a cap can never be used up.
DebitAllowedStrictly(b, cap, amount, now) ==
  LET cand == Rolled(b, now)
  IN  /\ cap.mint # NoMint
      /\ amount <= cap.per_tx
      /\ cand.spent_today + amount < cap.per_day
      /\ RingSum(cand) + amount < cap.per_30d

DebitAllowed(b, cap, amount, now) ==
  LET cand == Rolled(b, now)
  IN  /\ now >= 0
      /\ cap.mint # NoMint
      /\ amount <= cap.per_tx
      /\ Fits(cand.spent_today + amount)
      /\ cand.spent_today + amount <= cap.per_day
      /\ Fits(RingSum(cand) + amount)
      /\ RingSum(cand) + amount <= cap.per_30d

\* Mutant: the debit is written to the bucket as it was stored, not as rolled.
DebitedUnrolled(b, amount, now) ==
  [b EXCEPT !.spent_today = @ + amount,
            !.ring[RingSlot(DayNumber(now))] = @ + amount]

Debited(b, amount, now) ==
  [Rolled(b, now) EXCEPT
     !.spent_today = @ + amount,
     !.ring[RingSlot(DayNumber(now))] = @ + amount]

=============================================================================
