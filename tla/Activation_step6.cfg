SPECIFICATION Spec
CONSTANTS
  c1 = c1
  p1 = p1
  p2 = p2
  d1 = d1
  d2 = d2
  Miner = p1
  Clients = {c1}
  Providers = {p1, p2}
  Data = {d1, d2}
  MINIMUM_VERIFIED_ALLOCATION_SIZE = 1
  MINIMUM_VERIFIED_ALLOCATION_TERM = 1
  MAXIMUM_VERIFIED_ALLOCATION_TERM = 2
  MAXIMUM_VERIFIED_ALLOCATION_EXPIRATION = 2
  AllocationRequests <- MCAllocationRequests
  HookPayloads <- MCHookPayloads
  SectorExpirations <- MCSectorExpirations
  OnboardingFees <- MCOnboardingFees
  SECTOR_SIZE = 2
  ProofType = StackedDRG32GiB
  CONSENSUS_MINER_MIN_POWER = 4
  REFERENCE_FEE = 20
  QUANT = 2
  ActivationBatches <- MCActivationBatches
  UpdateBatches <- MCUpdateBatches
  MaxId = 2
  MaxEpoch = 3
PROPERTIES
  FailedClaimCountsAsUnverified
