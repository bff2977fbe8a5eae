\* Two relays, three rows, two inserted at a time, read two at
\* a time, each mishap once, two in all.
CONSTANTS
  Relay = {r1, r2}
  Limit = 2
  MaxInserting = 2
  MaxRows = 3
  MaxMishaps <- Mishaps
  MaxTrouble = 2
SPECIFICATION LiveSpec
INVARIANTS
  TypeOK
  MarkedIsInLog
  FirstInOrder
PROPERTIES
  EverySavedMarked
CHECK_DEADLOCK FALSE
