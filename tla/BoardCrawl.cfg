\* Five articles on pages of two rows: runs of either mode, one fault of any
\* kind, one title edit, and one withdrawal, pin or unpin at any moment.
CONSTANTS
  Newest = 5
  Floor = 2
  PageSize = 2
  MaxPages = 3
  Modes = {"incremental", "full"}
  FaultKind = {"list", "item", "crash"}
  MaxFaults = 1
  MaxShift = 2
  MaxEdits = 1
  MaxMoves = 1
SPECIFICATION SafetySpec
INVARIANTS
  TypeOK
  IntactRunIsComplete
  FullSweepIsComplete
  FirstPageIsFresh
