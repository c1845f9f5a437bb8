SPECIFICATION Spec
CONSTANTS
  Miners = {m1, m2}
  ProofTypes = {StackedDRG32GiB}
  MinPower <- MCMinPower
  CONSENSUS_MINER_MIN_MINERS = 1
  Payloads = {x, y}
  PowerDeltas <- MCCronPowerDeltas
  PledgeDeltas <- MCCronPledgeDeltas
  MaxEpoch = 2
  MaxPower = 2
  MaxPledge = 1
SYMMETRY MCSymmetry
INVARIANT
  MinerCountIsClaimCount
