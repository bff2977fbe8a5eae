\* The event of one request relayed twice; nothing fails.
CONSTANTS
  q1 = q1
  q2 = q2
  k1 = k1
  a1 = a1
  a2 = a2
  EUR = EUR
  None = None
  Refused = Refused
  Failed = Failed
  Gone = Gone
  NoRow = NoRow
  NoEvent = NoEvent
  Request = {q1, q2}
  Key = {k1}
  Account = {a1, a2}
  Currency = {EUR}
  Deposit <- Deposits
  Order <- Retried
  Teller = {i1}
  Recorder = {r1}
  RequestFault = {}
  MaxDelivered = 2
  TellerMishaps <- NoBankMishaps
  RecorderMishaps <- NoOutcomeMishaps
  MaxMishaps = 0
  Scale = 2
  MaxNumeric = 99
SPECIFICATION LiveSpec
PROPERTIES
  StatusIsFinal
CHECK_DEADLOCK FALSE
