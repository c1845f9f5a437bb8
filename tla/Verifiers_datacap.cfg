SPECIFICATION Spec
CONSTANTS
  Root = Root
  a1 = a1
  a2 = a2
  k0 = k0
  k1 = k1
  kr = kr
  p1 = p1
  d1 = d1
  Accounts = {a1, a2}
  KeyAddresses = {k0, k1, kr}
  Resolution <- MCResolution
  Providers = {p1}
  Data = {d1}
  MINIMUM_VERIFIED_ALLOCATION_SIZE = 1
  MINIMUM_VERIFIED_ALLOCATION_TERM = 1
  MAXIMUM_VERIFIED_ALLOCATION_TERM = 2
  MAXIMUM_VERIFIED_ALLOCATION_EXPIRATION = 1
  AllocationRequests <- MCAllocationRequests
  HookPayloads <- MCHookPayloads
  ClaimBatches <- MCClaimBatches
  Allowances = {0, 1, 2}
  MaxGranted = 4
  MaxId = 2
  MaxEpoch = 2
INVARIANTS
  TypeOK
  DatacapIsGranted
  ClientSpaceIsMinted
  RootHoldsNoRole
PROPERTY
  VerifierDatacapIsRefund
