\* Two instances, every kind of mishap once.
CONSTANTS
  a1 = a1
  a2 = a2
  ghost = ghost
  t1 = t1
  t2 = t2
  t3 = t3
  t4 = t4
  EUR = EUR
  USD = USD
  NoRow = NoRow
  Account = {a1, a2}
  Stranger = {ghost}
  Currency = {EUR}
  Instance = {i1, i2}
  Transfer = {t1, t2}
  Order <- Crossing
  Deposit <- Deposits
  MaxRequested = 2
  MaxMishaps <- EveryMishap
  Scale = 1
  MaxNumeric = 3
SYMMETRY Instances
SPECIFICATION Spec
INVARIANTS
  TypeOK
  BooksBalance
  TakenBeforeGiven
  CompletedMeansMoved
  CommittedMeansHandled
PROPERTIES
  ImplementsLedger
  ImplementsDelivery
  VersionNamesContent
CHECK_DEADLOCK FALSE
