SPECIFICATION Spec
CONSTANTS
  Events = {v1}
  Keepers = {k1}
  Analysts = {a1}
  NoEvent = NoEvent
  NoRow = NoRow
  RetryLimit = 2
  ExhaustLimit = 3
  BatchLimit = 2
  BacklogMax = 3
  SinkEnabled = FALSE
  MaxMade = 2
INVARIANT CascadeTakesNothing
CHECK_DEADLOCK FALSE
