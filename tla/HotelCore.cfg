SPECIFICATION Spec
CONSTANTS
  r1 = r1
  r2 = r2
  None = None
  Rooms <- TwoRooms
  ReservationIds <- Upto2
  StayIds <- Upto2
  TaskIds <- Upto2
  IncidentIds <- Upto2
  Days <- Days3
  Desks <- MaintenanceOnly
CHECK_DEADLOCK FALSE
SYMMETRY RoomSymmetry
INVARIANTS
  StatusTellsWhoHasTheRoom
  RoomOnSaleIsClean
  NoDoubleBooking
