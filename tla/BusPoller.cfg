\* Each of the three pollers in turn: two buses, four sightings, two faults.
CONSTANTS
  Pollers <- MCPollers
  Window = 3
  MaxBuses = 2
  MaxSightings = 4
  MaxFaults = 2
SPECIFICATION Spec
INVARIANTS
  TypeOK
  UpMeansAccountedFor
PROPERTIES
  DwellOutlivesOutages
  ServiceEndIsPublished
