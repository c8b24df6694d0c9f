\* Any strategy alone on a board of two pages, and two sources side by side;
\* every request may time out, fail or be refused.
CONSTANTS
  t1 = t1
  t2 = t2
  Task = {t1, t2}
  Plans <- MCPlans
  Delay = 1
  Backoff = 2
  MaxRetries = 3
  MaxPages = 3
SPECIFICATION Spec
INVARIANTS
  TypeOK
  EmptyPageIsTheEnd
PROPERTIES
  RequestsAreSpaced
  WalkEnds
