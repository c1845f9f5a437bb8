---------------------------- MODULE MCInitActor -----------------------------
(***************************************************************************)
(* InitActor for TLC: one ID address, two stable and two delegated         *)
(* addresses, so that a state can have a duplicate of either kind next to  *)
(* an actor with an address of both.                                       *)
(***************************************************************************)
EXTENDS InitActor, TLC

CONSTANTS i1, s1, s2, d1, d2

MCIdAddresses == {i1}
MCStableAddresses == {s1, s2}
MCDelegatedAddresses == {d1, d2}

\* The two addresses of a kind are interchangeable.
AddressSymmetry == Permutations(MCStableAddresses) \cup Permutations(MCDelegatedAddresses)

=============================================================================
