\* Every environment and command line of MCDeployments, any of which may
\* replace another; a run that hangs may be of any module.
CONSTANTS
  Family <- MCFamily
  ModulesOf <- MCModulesOf
  Rank <- MCRank
  Requires <- MCRequires
  RunOnStart <- MCRunOnStart
  Unguarded <- MCUnguarded
  Marker <- MCMarker
  ShutdownTimeout = 1
  StopGrace = 2
  Deployments <- MCDeployments
  Hangs <- MCHangs
SPECIFICATION Spec
INVARIANTS
  TypeOK
  StartedMeansAsked
  OnlyStartUpOverlaps
PROPERTIES
  StopIsClean
  HangStarvesOnlyItself
  StopEnds
