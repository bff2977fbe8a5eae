\* One instance, nothing fails; two currencies, and orders to and from nobody.
CONSTANTS
  a1 = a1
  a2 = a2
  ghost = ghost
  t1 = t1
  t2 = t2
  t3 = t3
  t4 = t4
  EUR = EUR
  USD = USD
  NoRow = NoRow
  Account = {a1, a2}
  Stranger = {ghost}
  Currency = {EUR, USD}
  Instance = {i1}
  Transfer = {t1, t2, t3, t4}
  Order <- CrossingAndLost
  Deposit <- Deposits
  MaxRequested = 3
  MaxMishaps <- NoMishaps
  Scale = 1
  MaxNumeric = 9
SPECIFICATION LiveSpec
INVARIANTS
  OneAnswerEach
PROPERTIES
  EveryRequestAnswered
CHECK_DEADLOCK FALSE
