SPECIFICATION Spec
CONSTANTS
  Subs = {s1}
  Grants = {}
  Requests = {q1}
  InnerChecked = {}
  NoRow = NoRow
  Outputs = 1
  Periods = 0
  MaxEvents = 2
  MaxFaults = 0
INVARIANT RevocationFinal
CHECK_DEADLOCK FALSE
