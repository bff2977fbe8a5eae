\* Two instances and a rebalance; no statement fails.
CONSTANTS
  a1 = a1
  a2 = a2
  ghost = ghost
  t1 = t1
  t2 = t2
  t3 = t3
  t4 = t4
  EUR = EUR
  USD = USD
  NoRow = NoRow
  Account = {a1, a2}
  Stranger = {ghost}
  Currency = {EUR}
  Instance = {i1, i2}
  Transfer = {t1, t2}
  Order <- Crossing
  Deposit <- Deposits
  MaxRequested = 2
  MaxMishaps <- OneRebalance
  Scale = 1
  MaxNumeric = 9
SYMMETRY Instances
SPECIFICATION Spec
INVARIANTS
  AllOrNothing
CHECK_DEADLOCK FALSE
