SPECIFICATION Spec
CONSTANTS
  a1 = a1
  a2 = a2
  a3 = a3
  Addresses <- MCAddresses
  Values <- MCValues
  Deposits = {1, 3}
  StartEpochs = {0, 2}
  UnlockDurations = {0, 1, 3}
  LockedAmounts <- MCLockedAmounts
  MaxTxns = 2
  MaxBalance = 5
  MaxEpoch = 5
SYMMETRY AddressSymmetry
INVARIANTS
  TypeOK
  ApprovalsAreBySigners
  AmountLockedIsExact
PROPERTIES
  LockedFundsStay
