\* Two notices and batches of one: two overlapping batches, three writes of
\* contents, backfilled hashes among them, and one failing operation or restart
\* at any point.
CONSTANTS
  Notice = {n1, n2}
  BatchSize = 1
  GiveUpAt = 3
  MaxVersion = 2
  MaxRewrites = 3
  MaxBreaks = 1
SPECIFICATION SummarySpec
INVARIANTS
  SummaryTypeOK
  FreshSummaryIsCurrent
PROPERTIES
  EveryNoticeSettles
