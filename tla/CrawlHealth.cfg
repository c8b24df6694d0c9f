\* Two sources, of which one fits a message, and two faults of any kind at any
\* point of a tick; the sources' reachability changes at any moment.
CONSTANTS
  Source = {s1, s2}
  Threshold = 3
  MaxCount = 4
  MaxAttempts = 3
  LinesThatFit = 1
  FaultKind = {"crash", "load", "save", "notify", "absent"}
  MaxFaults = 2
SPECIFICATION Spec
INVARIANTS
  LatchIsWhatOperatorKnows
PROPERTIES
  OneMessagePerOutage
  LatchFollowsSource
