SPECIFICATION Spec
CONSTANTS
  Subs = {s1}
  Grants = {}
  Requests = {q1, q2}
  InnerChecked = {q1, q2}
  NoRow = NoRow
  Outputs = 2
  Periods = 0
  MaxEvents = 1
  MaxFaults = 0
PROPERTY ReservationHonoured
CHECK_DEADLOCK FALSE
