CONSTANTS
  car = car
  r1 = r1
  r2 = r2
  Plates = {car}
  Cameras <- TwoRoads
  Timestamps <- Times
  MaxObservations = 4
SPECIFICATION Spec
INVARIANT TicketsInv
INVARIANT OneTicketPerDay
INVARIANT SpeedingTakesDays
