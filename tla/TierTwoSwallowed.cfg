\* One notice that disappears once, and nothing else fails, under a strategy that
\* answers every error with no detail, as all the bundled ones do.
CONSTANTS
  Notice = {n1}
  SwallowsErrors = TRUE
  MassMin = 5
  BodyKinds = {"text"}
  GoneSets = {{n1}}
  MaxEdits = 1
  MaxGone = 1
  MaxFailures = 0
SPECIFICATION Spec
PROPERTIES
  GoneIsSoftDeleted
CHECK_DEADLOCK FALSE
