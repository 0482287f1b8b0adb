---------------------------- MODULE MCBucketLedger ----------------------------
(* BucketLedger with days of two seconds, a ring of three days and 3-bit      *)
(* amounts, so that a run reuses every slot and reaches U64_MAX.             *)
EXTENDS BucketLedger

CONSTANT M1

MCCapChoices ==
  { [mint |-> M1, per_tx |-> 2, per_day |-> 3, per_30d |-> 4],
    [mint |-> M1, per_tx |-> 2, per_day |-> 2, per_30d |-> 5],
    [mint |-> M1, per_tx |-> 0, per_day |-> 0, per_30d |-> 0],
    [mint |-> M1, per_tx |-> 7, per_day |-> 7, per_30d |-> 7] }

=============================================================================
