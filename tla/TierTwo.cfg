\* Two notices with one edit, two disappearances of one of them or of the whole
\* site and one failing fetch or aborted pass; and one notice with three edits
\* and no failure.  The strategy lets a 404 through.
CONSTANTS
  Notice = {n1, n2}
  n1 = n1
  SwallowsErrors = FALSE
  MassMin = 1
  BodyKinds = {"text", "blank", "huge"}
  GoneSets <- OneOrAll
  MaxEdits = 3
  MaxGone = 2
  MaxFailures = 1
SPECIFICATION ScenarioSpec
INVARIANTS
  TypeOK
  SoftDeleteNeedsThreeMisses
  OutageDeletesNothing
PROPERTIES
  VanishedBodyIsKept
  BodyConverges
CHECK_DEADLOCK FALSE
