\* Two instances, two outcomes; two Saves fail, every other mishap once.
CONSTANTS
  NoEvent = NoEvent
  Instance = {i1, i2}
  Event = {e1, e2}
  MaxMishaps <- TwoErrors
SPECIFICATION LiveSpec
INVARIANTS
  TypeOK
  OneErrorOneNotification
  RepeatsHaveReasons
PROPERTIES
  EveryOutcomeTold
CHECK_DEADLOCK FALSE
