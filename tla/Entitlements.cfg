SPECIFICATION FairSpec
CONSTANTS
  Subs = {s1}
  Grants = {g1}
  Requests = {q1, q2}
  InnerChecked = {q2}
  NoRow = NoRow
  Outputs = 1
  Periods = 1
  MaxEvents = 3
  MaxFaults = 1
INVARIANTS
  TypeOK
  NotOversold
  WithinPackage
  RevokedStaysOff
PROPERTY EventsSettle
CHECK_DEADLOCK FALSE
