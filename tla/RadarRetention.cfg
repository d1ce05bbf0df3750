SPECIFICATION Spec
CONSTANTS
  Events = {v1}
  Keepers = {k1}
  Analysts = {a1, a2}
  NoEvent = NoEvent
  NoRow = NoRow
  RetryLimit = 2
  ExhaustLimit = 3
  BatchLimit = 2
  BacklogMax = 1
  SinkEnabled = TRUE
  MaxMade = 2
SYMMETRY Symmetry
CONSTRAINT RetriesBounded
INVARIANTS
  TypeOK
  NothingLost
  ExportedIsSunk
  CompletedHasVerdict
CHECK_DEADLOCK FALSE
