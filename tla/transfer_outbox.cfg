\* Two attempts at one order and one at another; a statement may fail.
CONSTANTS
  q1 = q1
  q2 = q2
  q3 = q3
  q4 = q4
  q5 = q5
  k1 = k1
  k2 = k2
  alice = alice
  bob = bob
  None = None
  Refused = Refused
  Failed = Failed
  Gone = Gone
  Party = {alice, bob}
  Scale = 1
  Request = {q1, q2, q3}
  Key = {k1, k2}
  Order <- Attempts
  Fault = {"dbError"}
  MaxNumeric = 3
SPECIFICATION Spec
INVARIANTS
  AcceptedMeansRequested
CHECK_DEADLOCK FALSE
