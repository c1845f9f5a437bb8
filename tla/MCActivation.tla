---------------------------- MODULE MCActivation ----------------------------
(***************************************************************************)
(* Activation for TLC: one miner with two sectors of capacity 2 that       *)
(* expire in different buckets of the expiration queue, one proven without *)
(* data and one precommitted; one client with allocations for the miner    *)
(* and for another provider; and the batches of the tests: sectors with    *)
(* and without allocations and deals, a manifest and a proof that are      *)
(* refused, a claim that fails, an allocation named by two sectors and     *)
(* twice by one.                                                           *)
(***************************************************************************)
EXTENDS Activation

CONSTANTS c1, p1, p2, d1, d2

MCSectorExpirations == (1 :> 2) @@ (2 :> 4)

\* Sector 2 was proven when the circulating supply was zero, and has no
\* fee; sector 1 is precommitted.
MCOnboardingFees == (2 :> 0)

AllocationRequest(provider, data, size, term_min, term_max, expiration) ==
  [provider |-> provider, data |-> data, size |-> size, term_min |-> term_min,
   term_max |-> term_max, expiration |-> expiration]

\* Half a sector and a whole one for the miner, with a term that sector 1
\* fits from epoch 0 and sector 2 from epoch 2; half a sector for another
\* provider.
Half == AllocationRequest(p1, d1, 1, 1, 2, 2)
Whole == AllocationRequest(p1, d2, 2, 1, 2, 2)
Other == AllocationRequest(p2, d1, 1, 1, 2, 2)

MCAllocationRequests == {Half, Whole, Other}

MCHookPayloads ==
  {[allocs |-> <<request>>, extensions |-> <<>>, amount |-> request.size] :
     request \in MCAllocationRequests}

Piece(size, allocation_id, data, notify) ==
  [size |-> size, client |-> c1, allocation_id |-> allocation_id, data |-> data,
   notify |-> notify]

\* A manifest of either method.
Update(sector, pieces) ==
  [sector |-> sector, pieces |-> pieces, valid |-> TRUE, proven |-> TRUE]

\* Sector 1 is proven without data, as in the tests, with a piece that
\* fills it, and with allocation 1; a batch names sector 2, which is
\* proven.
MCActivationBatches ==
  {<<Update(1, <<>>)>>,
   <<Update(1, <<Piece(2, NoAllocation, d1, <<7>>)>>)>>,
   <<Update(1, <<Piece(1, 1, d1, <<>>)>>)>>,
   <<Update(2, <<>>), Update(1, <<>>)>>}

\* Allocation 1 is claimed as half a sector of d1 and allocation 2 as the
\* same or as a whole sector of d2: whether a claim passes depends on what
\* the client allocated before, and on the epoch.
MCUpdateBatches ==
  {<<Update(1, <<Piece(2, NoAllocation, d1, <<7>>)>>)>>,
   <<Update(2, <<>>)>>,
   <<Update(1, <<Piece(1, 1, d1, <<7>>), Piece(1, NoAllocation, d2, <<>>)>>),
     Update(2, <<Piece(2, 2, d2, <<8, 9>>)>>)>>,
   <<Update(1, <<Piece(1, 1, d1, <<>>)>>), Update(2, <<Piece(1, 1, d1, <<7>>)>>)>>,
   <<Update(2, <<Piece(1, 1, d1, <<>>), Piece(1, 1, d1, <<>>)>>)>>,
   <<[Update(1, <<Piece(1, 1, d1, <<7>>)>>) EXCEPT !.valid = FALSE],
     Update(2, <<Piece(1, 2, d1, <<8>>)>>)>>,
   <<[Update(2, <<Piece(1, 1, d1, <<7>>)>>) EXCEPT !.proven = FALSE],
     Update(1, <<Piece(1, 2, d1, <<>>)>>)>>,
   <<Update(1, <<Piece(2, 1, d2, <<>>), Piece(1, NoAllocation, d1, <<>>)>>)>>}

=============================================================================
