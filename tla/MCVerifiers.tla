---------------------------- MODULE MCVerifiers ----------------------------
(***************************************************************************)
(* Verifiers for TLC: the root key, two accounts that can be verifier or   *)
(* client in turn, a key address for the root key, one for an account and  *)
(* one that does not resolve; allowances below the minimum, of the         *)
(* minimum and above; one provider that claims the first allocation.       *)
(***************************************************************************)
EXTENDS Verifiers

CONSTANTS a1, a2, k0, k1, kr, p1, d1

MCResolution == (kr :> Root) @@ (k1 :> a1)

\* An allocation of the minimum size that expires at epoch 1.
Request ==
  [provider |-> p1, data |-> d1, size |-> 1, term_min |-> 1, term_max |-> 2,
   expiration |-> 1]

MCAllocationRequests == {Request}

MCHookPayloads ==
  {[allocs |-> <<Request>>, extensions |-> <<>>, amount |-> 1],
   [allocs |-> <<Request>>, extensions |-> <<>>, amount |-> 2]}

\* A sector that claims allocation 1, as the allocation of either account.
MCClaimBatches ==
  {<<[sector |-> 1, expiry |-> 2,
      claims |-> <<[client |-> client, allocation_id |-> 1, data |-> d1, size |-> 1]>>]>> :
     client \in Accounts}

=============================================================================
