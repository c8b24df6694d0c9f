---------------------------- MODULE TouchDelivery ----------------------------
(***************************************************************************)
(* What the touch buffer of the Mongo sink promises, with no sources, no   *)
(* pages and no flushes in sight: a view-counter update ("touch") that a   *)
(* crawl hands to the sink is pending until one bulk write settles it, is  *)
(* settled at most once, and is only ever dropped by a bulk write that     *)
(* failed.  CrawlRun is shown to implement this specification.             *)
(***************************************************************************)
EXTENDS Naturals

CONSTANT Touch          \* every touch a run can produce

VARIABLES
  pending,              \* handed to the sink, not settled by any bulk write
  delivered,            \* applied to the collection
  dropped,              \* part of a bulk write that failed before applying it
  failures              \* how many bulk writes or event handlers have raised

vars == <<pending, delivered, dropped, failures>>

Init ==
  /\ pending = {}
  /\ delivered = {}
  /\ dropped = {}
  /\ failures = 0

\* A crawl reports an unchanged notice whose counter is worth a write.
HandIn(t) ==
  /\ t \notin pending \cup delivered \cup dropped
  /\ pending' = pending \cup {t}
  /\ UNCHANGED <<delivered, dropped, failures>>

\* A bulk write succeeds: everything it carried is applied.
Deliver(batch) ==
  /\ batch \subseteq pending
  /\ pending' = pending \ batch
  /\ delivered' = delivered \cup batch
  /\ UNCHANGED <<dropped, failures>>

\* A bulk write fails part-way.  It is unordered, so any part of it may have
\* been applied; the rest is gone, and the failure is counted.
Fail(batch, applied) ==
  /\ batch \subseteq pending
  /\ applied \subseteq batch
  /\ pending' = pending \ batch
  /\ delivered' = delivered \cup applied
  /\ dropped' = dropped \cup (batch \ applied)
  /\ failures' = failures + 1

Next ==
  \/ \E t \in Touch : HandIn(t)
  \/ \E batch \in SUBSET pending :
        \/ Deliver(batch)
        \/ \E applied \in SUBSET batch : Fail(batch, applied)

Spec == Init /\ [][Next]_vars
=============================================================================
