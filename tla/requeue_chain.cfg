\* Two names; the timer's ratio of 1 to 2; no failing reconcile.
CONSTANTS
  n1 = n1
  n2 = n2
  n3 = n3
  NoName = NoName
  Name <- TwoNames
  Window = 2
  Delay = 4
  MaxLag = 1
  MaxBackoff = 1
  MaxErrors = 0
SPECIFICATION Spec
INVARIANT ScheduledAhead
