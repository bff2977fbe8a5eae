\* One client, windows of two ticks, four requests each, two under way at a time.
CONSTANTS
  Client = {c1}
  Rpm = 4
  Window = 2
  MaxInFlight = 2
  MaxAsked = 8
  MaxTime = 4
SPECIFICATION Spec
INVARIANTS
  TypeOK
  WindowRespected
PROPERTIES
  QuietClientsPass
CHECK_DEADLOCK FALSE
