----------------------------- MODULE CanFilter -----------------------------
(***************************************************************************)
(* The filters of src/CAN: matched in user space by CommonCanReceiver, or  *)
(* translated for the kernel by SocketCanReceiver.  A number is the set of *)
(* its bits that are one, so that & is intersection and | is union.        *)
(***************************************************************************)
CONSTANTS
  SffBits,  \* CAN_SFF_MASK: the bits of a standard identifier
  EffBits,  \* CAN_EFF_MASK: the bits of an extended identifier
  EFF_FLAG  \* CAN_EFF_FLAG: the bit that marks an extended frame

ASSUME BitsAssumption == SffBits \subseteq EffBits /\ EFF_FLAG \notin EffBits

Ids == SUBSET EffBits

CanFilters == [id : Ids, mask : Ids, std : BOOLEAN, ext : BOOLEAN]

\* User space: the format of the frame plays no part.
filter(filters, id) ==
  filters = {} \/ \E f \in filters : f.id \cap f.mask = id \cap f.mask

\* A translation that checks the format and forgets to say which one.
KernelFilterNoFlag(f) ==
  [can_id |-> f.id \cap EffBits, can_mask |-> (f.mask \cap EffBits) \cup {EFF_FLAG}]

(***************************************************************************)
(* What setFilters writes to the socket for one filter.                    *)
(***************************************************************************)
KernelFilter(f) ==
  LET anyFormat == f.std = f.ext
      id == f.id \cap EffBits
      mask == f.mask \cap EffBits
  IN [can_id   |-> IF ~anyFormat /\ f.ext THEN id \cup {EFF_FLAG} ELSE id,
      can_mask |-> IF anyFormat THEN mask \ {EFF_FLAG}
                   ELSE IF f.ext THEN mask \cup {EFF_FLAG}
                   ELSE (mask \cup {EFF_FLAG}) \cap SffBits]

\* CAN_RAW_FILTER: how the kernel uses it.
KernelAccepts(filters, id, ext) ==
  LET can_id == IF ext THEN id \cup {EFF_FLAG} ELSE id
  IN filters = {}
     \/ \E f \in filters : LET k == KernelFilter(f)
                           IN can_id \cap k.can_mask = k.can_id \cap k.can_mask

\* What a filter asks for: the bits under the mask, and the formats it names.
Wanted(filters, id, ext) ==
  filters = {}
  \/ \E f \in filters : /\ f.id \cap f.mask = id \cap f.mask
                        /\ f.std = f.ext \/ f.ext = ext
=============================================================================
