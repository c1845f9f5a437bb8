SPECIFICATION Spec

CONSTANTS
  i1 = i1
  s1 = s1
  s2 = s2
  d1 = d1
  d2 = d2
  IdAddresses <- MCIdAddresses
  StableAddresses <- MCStableAddresses
  DelegatedAddresses <- MCDelegatedAddresses
  FIRST_NON_SINGLETON_ADDR = 2
  MaxId = 3

SYMMETRY AddressSymmetry

INVARIANTS
  CheckerIsExact
  SummaryIsTheState
