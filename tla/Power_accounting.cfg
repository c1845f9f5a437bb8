SPECIFICATION Spec
CONSTANTS
  Miners = {m1, m2}
  ProofTypes = {StackedDRG32GiB}
  MinPower <- MCMinPower
  CONSENSUS_MINER_MIN_MINERS = 1
  Payloads = {x}
  PowerDeltas <- MCPowerDeltas
  PledgeDeltas <- MCPledgeDeltas
  MaxEpoch = 1
  MaxPower = 3
  MaxPledge = 1
SYMMETRY MCSymmetry
INVARIANTS
  TypeOK
  AggregatesMatchClaims
  EligiblePowerIsNetworkPower
PROPERTIES
  FrozenDuringEpoch
  FrozenPowerIsPowerAfterCron
