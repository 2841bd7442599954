SPECIFICATION Spec
CONSTANTS
  r1 = r1
  r2 = r2
  None = None
  Rooms <- OneRoom
  ReservationIds <- Upto2
  StayIds <- Upto2
  TaskIds <- Upto3
  IncidentIds <- Upto1
  Days <- Days3
  Desks <- EveryDesk
CHECK_DEADLOCK FALSE
INVARIANTS
  TypeOK
  CleaningRoomHasOpenTask
PROPERTIES
  ImplementsOccupancy
