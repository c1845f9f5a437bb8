------------------------- MODULE AllocationLifecycle -------------------------
(***************************************************************************)
(* What the verified registry promises about an allocation ID, with        *)
(* everything else left out: an ID is given to one allocation, which is    *)
(* destroyed by being claimed (turned into the claim of the same ID) or    *)
(* by an expiration sweep; a claim is destroyed by an expiration sweep;    *)
(* and what is destroyed does not come back.  IDs are given in order.  A   *)
(* message of the registry moves any number of IDs, all the same way.      *)
(***************************************************************************)
EXTENDS Integers, FiniteSets

CONSTANT Ids  \* the allocation IDs, a set 1 .. n

VARIABLE stage  \* where each ID is in its life

Unused == "unused"
Allocated == "allocated"
Claimed == "claimed"
Removed == "removed"

Stages == {Unused, Allocated, Claimed, Removed}

TypeOK == stage \in [Ids -> Stages]

\* The IDs of `ids` move from one stage to another, the others stay.
Move(ids, from, to) ==
  /\ \A id \in ids : stage[id] = from
  /\ stage' = [id \in Ids |-> IF id \in ids THEN to ELSE stage[id]]

\* New allocations take the lowest IDs nobody had.
Allocate(ids) ==
  /\ \A id \in ids, lower \in Ids : lower < id /\ lower \notin ids => stage[lower] # Unused
  /\ Move(ids, Unused, Allocated)

Claim(ids) == Move(ids, Allocated, Claimed)

RemoveAllocations(ids) == Move(ids, Allocated, Removed)

RemoveClaims(ids) == Move(ids, Claimed, Removed)

Init == stage = [id \in Ids |-> Unused]

Next ==
  \E ids \in SUBSET Ids :
    Allocate(ids) \/ Claim(ids) \/ RemoveAllocations(ids) \/ RemoveClaims(ids)

Spec == Init /\ [][Next]_stage

=============================================================================
