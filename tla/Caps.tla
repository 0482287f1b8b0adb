-------------------------------- MODULE Caps --------------------------------
(***************************************************************************)
(* Mint caps: the record every limit of the program is written in, and the *)
(* fixed arrays of them that a policy and a session hold                    *)
(* (state/smart_account.rs, MintCap; buckets.rs, find_cap).                 *)
(*                                                                         *)
(* A Pubkey naming a mint is a member of Mints; Pubkey::default(), which    *)
(* marks an unused slot, is NoMint. An array of MAX_MINT_CAPS slots is a     *)
(* function on CapSlots. Amounts are u64: the program only adds them with    *)
(* checked_add, so a sum is either exact or an error, and Fits is that       *)
(* check.                                                                   *)
(***************************************************************************)
EXTENDS Integers

CONSTANTS
  Mints,          \* the mints a cap can name
  NoMint,         \* Pubkey::default(), the unused-slot sentinel
  MAX_MINT_CAPS,  \* slots of a caps array (8)
  U64_MAX         \* largest u64

ASSUME CapsAssumption ==
  /\ NoMint \notin Mints
  /\ MAX_MINT_CAPS \in Nat \ {0}
  /\ U64_MAX \in Nat

CapSlots == 1 .. MAX_MINT_CAPS

U64 == 0 .. U64_MAX

\* checked_add succeeded.
Fits(sum) == sum <= U64_MAX

MintCap == [mint: Mints \cup {NoMint}, per_tx: U64, per_day: U64, per_30d: U64]

EmptyCap == [mint |-> NoMint, per_tx |-> 0, per_day |-> 0, per_30d |-> 0]

\* find_cap returns Some: the unused-slot sentinel never matches.
HasCap(caps, mint) == mint # NoMint /\ \E i \in CapSlots : caps[i].mint = mint

\* The slot find_cap returns: the first match. Only used under HasCap.
FindCap(caps, mint) ==
  CHOOSE i \in CapSlots :
    caps[i].mint = mint /\ \A j \in CapSlots : caps[j].mint = mint => i <= j

\* merge_caps' search for room: the first unused slot, if there is one.
HasEmptySlot(caps) == \E i \in CapSlots : caps[i].mint = NoMint

FirstEmptySlot(caps) ==
  CHOOSE i \in CapSlots :
    caps[i].mint = NoMint /\ \A j \in CapSlots : caps[j].mint = NoMint => i <= j

=============================================================================
