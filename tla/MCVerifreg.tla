----------------------------- MODULE MCVerifreg -----------------------------
(***************************************************************************)
(* Verifreg for TLC.  The policy: sizes from 1, terms from 1 to 3, an      *)
(* allocation expires at most 2 epochs after it is made.  The requests     *)
(* are chosen so that every check has a request that passes it and one     *)
(* that fails it.                                                          *)
(***************************************************************************)
EXTENDS Verifreg

CONSTANTS c1, c2, p1, p2, d1, d2

AllocationRequest(provider, data, size, term_min, term_max, expiration) ==
  [provider |-> provider, data |-> data, size |-> size, term_min |-> term_min,
   term_max |-> term_max, expiration |-> expiration]

\* Two good requests of different sizes and providers, one below the
\* minimum size, one whose term_min exceeds its term_max, one that expires
\* too late for epochs 0 and 1, one whose provider is not a miner.
MCAllocationRequests ==
  {AllocationRequest(p1, d1, 1, 1, 2, 1),
   AllocationRequest(p2, d2, 2, 2, 3, 2),
   AllocationRequest(p1, d1, 0, 1, 2, 1),
   AllocationRequest(p1, d1, 1, 2, 1, 1),
   AllocationRequest(p1, d1, 1, 1, 2, 4),
   AllocationRequest(c2, d1, 1, 1, 2, 1)}

ClaimTerm(provider, claim_id, term_max) ==
  [provider |-> provider, claim_id |-> claim_id, term_max |-> term_max]

MCClaimTerms ==
  {ClaimTerm(p1, 1, 2), ClaimTerm(p1, 1, 3), ClaimTerm(p1, 1, 5),
   ClaimTerm(p2, 1, 3), ClaimTerm(p2, 2, 4), ClaimTerm(p1, 2, 1)}

SectorClaims(sector, expiry, sector_claims) ==
  [sector |-> sector, expiry |-> expiry, claims |-> sector_claims]

AllocationClaim(client, allocation_id, data, size) ==
  [client |-> client, allocation_id |-> allocation_id, data |-> data, size |-> size]

\* One group and two; a group of two claims; an allocation named twice in
\* a group and in two groups; a wrong client, wrong data, a sector that
\* expires too late.
MCClaimBatches ==
  {<<SectorClaims(1, 2, <<AllocationClaim(c1, 1, d1, 1)>>)>>,
   <<SectorClaims(1, 3, <<AllocationClaim(c1, 1, d1, 1), AllocationClaim(c1, 2, d1, 1)>>)>>,
   <<SectorClaims(1, 3, <<AllocationClaim(c1, 1, d1, 1), AllocationClaim(c1, 1, d1, 1)>>)>>,
   <<SectorClaims(1, 3, <<AllocationClaim(c1, 1, d1, 1)>>),
     SectorClaims(2, 3, <<AllocationClaim(c1, 1, d1, 1)>>)>>,
   <<SectorClaims(1, 3, <<AllocationClaim(c1, 1, d1, 1), AllocationClaim(c2, 2, d2, 2)>>),
     SectorClaims(2, 3, <<AllocationClaim(c1, 2, d1, 1)>>)>>,
   <<SectorClaims(1, 4, <<AllocationClaim(c2, 1, d2, 2)>>),
     SectorClaims(2, 3, <<AllocationClaim(c1, 2, d2, 2)>>)>>,
   <<SectorClaims(1, 3, <<AllocationClaim(c2, 1, d1, 1)>>)>>,
   <<SectorClaims(2, 6, <<AllocationClaim(c1, 1, d1, 1)>>)>>}

HookPayload(allocs, extensions, amount) ==
  [allocs |-> allocs, extensions |-> extensions, amount |-> amount]

Small == AllocationRequest(p1, d1, 1, 1, 2, 1)
Large == AllocationRequest(p2, d2, 2, 2, 3, 2)

\* Allocations alone and two at once, with the exact amount and with
\* another; each request the policy refuses; extensions alone and with an
\* allocation, paid and not paid.
MCHookPayloads ==
  {HookPayload(<<Small>>, <<>>, 1),
   HookPayload(<<Large>>, <<>>, 2),
   HookPayload(<<Small, Small>>, <<>>, 2),
   HookPayload(<<Small, Large>>, <<>>, 2),
   HookPayload(<<Small>>, <<>>, 2)}
  \cup {HookPayload(<<req>>, <<>>, req.size) : req \in MCAllocationRequests}
  \cup {HookPayload(<<>>, <<term>>, size) : term \in MCClaimTerms, size \in 1 .. 2}
  \cup {HookPayload(<<Small>>, <<ClaimTerm(p1, 1, 3)>>, 2),
        HookPayload(<<Small>>, <<ClaimTerm(p1, 1, 3)>>, 1)}
=============================================================================
