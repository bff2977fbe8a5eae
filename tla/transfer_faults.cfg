\* Five requests with one key, every fault.
CONSTANTS
  q1 = q1
  q2 = q2
  q3 = q3
  q4 = q4
  q5 = q5
  k1 = k1
  k2 = k2
  alice = alice
  bob = bob
  None = None
  Refused = Refused
  Failed = Failed
  Gone = Gone
  Party = {alice, bob}
  Scale = 1
  Request = {q1, q2, q3, q4, q5}
  Key = {k1}
  Order <- Reuse
  Fault = {"dbError", "redisError", "abandon"}
  MaxNumeric = 3
SPECIFICATION LiveSpec
INVARIANTS
  TypeOK
  AnswersAgree
  OneRequestPerKey
  CachedMeansRequested
  OnlyFailuresStrand
PROPERTIES
  EveryRowRequested
  ImplementsRegister
CHECK_DEADLOCK FALSE
