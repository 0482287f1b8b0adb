---------------------------- MODULE MCRollingWindow ----------------------------
(* BucketLedger with the second of every payment kept, to compare the ring of  *)
(* UTC days with a window that slides by the second.                           *)
EXTENDS BucketLedger

CONSTANT M1

VARIABLE paidAt  \* history: second -> total debited at it

MCCapChoices == { [mint |-> M1, per_tx |-> 2, per_day |-> 2, per_30d |-> 3] }

InitPaidAt == Init /\ paidAt = [t \in 0 .. MaxTime |-> 0]

NextPaidAt ==
  \/ Tick /\ UNCHANGED paidAt
  \/ \E amount \in Amounts :
       Debit(amount) /\ paidAt' = [paidAt EXCEPT ![now] = @ + amount]
  \/ \E amount \in Amounts : DebitRefused(amount) /\ UNCHANGED paidAt

SpecPaidAt == InitPaidAt /\ [][NextPaidAt]_<<vars, paidAt>>

\* The design asks for an account-wide rolling 30-day cap, as opposed to a
\* periodic bucket: no window of RING_DAYS * DAY_SECS seconds pays out more than
\* per_30d (design spec, Policy; buckets.rs debit).
RollingThirtyDayCap ==
  \A t \in 0 .. MaxTime :
    SumFunctionOnSet(paidAt, {u \in 0 .. MaxTime : t - RING_DAYS * DAY_SECS < u /\ u <= t})
      <= cap.per_30d

=============================================================================
