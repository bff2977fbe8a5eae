\* A request and its retry; two instances of each service.
CONSTANTS
  q1 = q1
  q2 = q2
  k1 = k1
  a1 = a1
  a2 = a2
  EUR = EUR
  None = None
  Refused = Refused
  Failed = Failed
  Gone = Gone
  NoRow = NoRow
  NoEvent = NoEvent
  Request = {q1, q2}
  Key = {k1}
  Account = {a1, a2}
  Currency = {EUR}
  Deposit <- Deposits
  Order <- Retried
  Teller = {i1, i2}
  Recorder = {r1, r2}
  RequestFault = {"dbError"}
  MaxDelivered = 1
  TellerMishaps <- BankMishaps
  RecorderMishaps <- OutcomeMishaps
  MaxMishaps = 1
  Scale = 2
  MaxNumeric = 14
SPECIFICATION LiveSpec
INVARIANTS
  StatusTellsTheTruth
  RetriesAreFree
  AmountsShownAreBooked
PROPERTIES
  EveryTransferSettles
CHECK_DEADLOCK FALSE
