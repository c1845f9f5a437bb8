SPECIFICATION Spec
CONSTANTS
  c1 = c1
  c2 = c2
  p1 = p1
  p2 = p2
  d1 = d1
  d2 = d2
  Clients = {c1, c2}
  Providers = {p1, p2}
  Data = {d1, d2}
  MINIMUM_VERIFIED_ALLOCATION_SIZE = 1
  MINIMUM_VERIFIED_ALLOCATION_TERM = 1
  MAXIMUM_VERIFIED_ALLOCATION_TERM = 3
  MAXIMUM_VERIFIED_ALLOCATION_EXPIRATION = 2
  AllocationRequests <- MCAllocationRequests
  ClaimTerms <- MCClaimTerms
  ClaimBatches <- MCClaimBatches
  HookPayloads <- MCHookPayloads
  MaxBatch = 2
  MaxTerms = 2
  MaxId = 2
  MaxEpoch = 3
PROPERTY
  ExtensionIsStrict
