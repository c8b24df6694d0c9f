\* Two sources of two pages each, one at a time and both at once: every
\* interleaving of their events and flushes.
CONSTANTS
  Source = {s1, s2}
  Article = {a1}
  SlotChoices = {1, 2}
  MaxPages = 2
  MaxEvents = 2
SPECIFICATION Spec
INVARIANTS
  NoStrandedTouch
PROPERTIES
  ImplementsDelivery
  RunSettles
CHECK_DEADLOCK FALSE
