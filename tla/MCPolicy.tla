------------------------------- MODULE MCPolicy -------------------------------
(* AccountPolicy on small arguments: vectors of up to three entries in any order,   *)
(* and one scalar out of range at a time.                                        *)
EXTENDS AccountPolicy, SequencesExt

CONSTANTS WSOL, USDC

MCCap(mint, tx, day, month) ==
  [mint |-> mint, per_tx |-> tx, per_day |-> day, per_30d |-> month]

CapEntries ==
  {MCCap(WSOL, 2, 3, 3), MCCap(WSOL, 2, 1, 3), MCCap(WSOL, 1, 3, 2), MCCap(USDC, 1, 2, 3),
   MCCap(NoMint, 1, 1, 1)}
CeilingEntries ==
  {MCCap(WSOL, 2, 3, 2), MCCap(USDC, 2, 2, 3), MCCap(USDC, 1, 1, 0), MCCap(NoMint, 0, 0, 0)}
ThresholdEntries == {MCCap(WSOL, 9, 0, 0), MCCap(USDC, 1, 0, 0)}

UpTo2(S) == BoundedSeq(S, 2)

TooMany == <<MCCap(WSOL, 2, 3, 3), MCCap(USDC, 1, 2, 3), MCCap(WSOL, 2, 3, 3)>>

\* One field out of range at a time.
Scalars == {<<2, 2, 4, {"transfer"}>>, <<1, 2, 4, {"transfer"}>>, <<2, 1, 4, {}>>,
            <<2, 2, 0, {}>>, <<2, 2, 5, {}>>, <<2, 2, 1, {"unassigned"}>>}

ArgsFrom(caps, ceilings, thresholds, f) ==
  [caps |-> caps, session_ceiling |-> ceilings, large_threshold |-> thresholds,
   timelock_secs |-> f[1], recovery_delay_secs |-> f[2],
   max_session_life_secs |-> f[3], session_ops_ceiling |-> f[4]]

NoPolicy == outcome = "none" /\ policy = "none" /\ args = "none"

InitPolicy ==
  /\ outcome = "none" /\ policy = "none"
  /\ \E caps \in UpTo2(CapEntries) \cup {TooMany},
        ceilings \in UpTo2(CeilingEntries) \cup {TooMany},
        thresholds \in UpTo2(ThresholdEntries) \cup {TooMany}, f \in Scalars :
       args = ArgsFrom(caps, ceilings, thresholds, f)

=============================================================================
