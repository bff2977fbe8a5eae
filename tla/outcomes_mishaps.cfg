\* Two instances, three outcomes of two transfers, every kind of mishap once.
CONSTANTS
  t1 = t1
  t2 = t2
  NoEvent = NoEvent
  NoRow = NoRow
  Instance = {i1, i2}
  Transfer = {t1, t2}
  Event <- Contradicting
  MaxMishaps <- EveryMishap
SPECIFICATION LiveSpec
INVARIANTS
  TypeOK
  StatusWasAnnounced
PROPERTIES
  VersionNamesContent
  OutcomesRecorded
CHECK_DEADLOCK FALSE
