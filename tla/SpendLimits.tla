----------------------------- MODULE SpendLimits -----------------------------
(***************************************************************************)
(* What the account-wide bucket of one mint promises, with no bucket in      *)
(* sight: the whole history of what was paid on each UTC day is kept, and a  *)
(* payment goes through exactly when it is within the per-transaction cap    *)
(* and leaves the day's total and the total of the RING_DAYS days ending     *)
(* today within theirs.                                                     *)
(***************************************************************************)
EXTENDS Integers, Functions

CONSTANTS
  DAY_SECS,
  RING_DAYS,
  Limits,     \* the caps considered: records with per_tx, per_day, per_30d
  Amounts,    \* the amounts that are requested
  MaxTime     \* bound: the last second of the run

VARIABLES
  now,        \* unix time
  limit,      \* the caps in force
  spent,      \* UTC day -> total paid on it
  verdict     \* how the last request ended: "none" since the clock moved

vars == <<now, limit, spent, verdict>>

Days == 0 .. (MaxTime \div DAY_SECS)

WindowOf(day) == {d \in Days : day - RING_DAYS < d /\ d <= day}

WindowSpent(day) == SumFunctionOnSet(spent, WindowOf(day))

Init ==
  /\ now \in 0 .. MaxTime
  /\ limit \in Limits
  /\ spent = [d \in Days |-> 0]
  /\ verdict = "none"

Tick ==
  /\ now' \in (now + 1) .. MaxTime
  /\ verdict' = "none"
  /\ UNCHANGED <<limit, spent>>

Within(amount) ==
  LET today == now \div DAY_SECS
  IN  /\ amount <= limit.per_tx
      /\ spent[today] + amount <= limit.per_day
      /\ WindowSpent(today) + amount <= limit.per_30d

Pay(amount) ==
  /\ Within(amount)
  /\ spent' = [spent EXCEPT ![now \div DAY_SECS] = @ + amount]
  /\ verdict' = "paid"
  /\ UNCHANGED <<now, limit>>

Refuse(amount) ==
  /\ ~ Within(amount)
  /\ verdict' = "refused"
  /\ UNCHANGED <<now, limit, spent>>

Next == Tick \/ \E amount \in Amounts : Pay(amount) \/ Refuse(amount)

Spec == Init /\ [][Next]_vars

=============================================================================
