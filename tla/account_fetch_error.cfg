\* One instance and a fetch error.
CONSTANTS
  a1 = a1
  a2 = a2
  ghost = ghost
  t1 = t1
  t2 = t2
  t3 = t3
  t4 = t4
  EUR = EUR
  USD = USD
  NoRow = NoRow
  Account = {a1, a2}
  Stranger = {ghost}
  Currency = {EUR}
  Instance = {i1}
  Transfer = {t1, t2}
  Order <- Crossing
  Deposit <- Deposits
  MaxRequested = 2
  MaxMishaps <- OneFetchError
  Scale = 1
  MaxNumeric = 3
SPECIFICATION Spec
INVARIANTS
  AtLeastOnce
CHECK_DEADLOCK FALSE
