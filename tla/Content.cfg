\* One edit between pages of every kind, one answer that fails or parses to
\* nothing, two passes of the repair commands.
CONSTANTS
  None = None
  Urls = {"a", "b"}
  Pages <- MCPages
  Boards = {"custom-php", "jsp-dorm"}
  MaxBytes = 2
  MaxEdits = 1
  MaxFailures = 1
  MaxRepairs = 2
SPECIFICATION Spec
INVARIANTS
  TypeOK
  FieldsAgree
PROPERTIES
  RepairRestores
  TierTwoKeepsSizes
CHECK_DEADLOCK FALSE
