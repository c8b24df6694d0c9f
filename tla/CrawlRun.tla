------------------------------- MODULE CrawlRun -------------------------------
(***************************************************************************)
(* One run of the notices crawl: run_crawl fans the sources out under a    *)
(* semaphore, each source drives its event stream through run_events, and  *)
(* all of them share ONE Mongo sink whose touch buffer is run-level.  Every*)
(* await of the code is a point where another source may run, so a source's*)
(* flush may carry touches its siblings buffered in the middle of a page.  *)
(*                                                                         *)
(* What a page holds and why a stream stops is modelled in BoardCrawl;     *)
(* here the stream is any sequence of events the generator can yield.      *)
(***************************************************************************)
EXTENDS Naturals, FiniteSets

CONSTANTS
  Source,      \* ids of the departments that pass the filter
  Article,     \* article numbers of one board
  SlotChoices, \* sizes of the semaphore; _run_crawl has 5
  MaxPages,    \* page limit of one source (100 incremental, 2500 full sweep)
  MaxEvents    \* bound: item events one source yields in the run

ASSUME SlotsAssumption == SlotChoices \subseteq Nat \ {0}
ASSUME BoundsAssumption == MaxPages \in Nat /\ MaxEvents \in Nat
ASSUME SourceAssumption == IsFiniteSet(Source)
ASSUME ArticleAssumption == IsFiniteSet(Article)

VARIABLES
  slots,       \* the size of the semaphore, fixed
  phase,       \* where the coroutine of a source is
  pages,       \* BatchCompleted events a source has had accepted
  stored,      \* notices of a source that are in the collection
  known,       \* notices of a source that were there when the run began
  buffer,      \* MongoSink._touches: shared by every source
  inflight,    \* the list a source's flush has swapped out and is writing
  written,     \* touches applied to the collection
  lost,        \* touches of a bulk write that failed before applying them
  result,      \* the SourceResult each source's run_events mutates
  touched,     \* touches a source has handed to the sink
  raised,      \* exceptions that ended a source
  gathered,    \* gather has settled and run_crawl has returned
  results      \* the sources whose SourceResult it returned

vars == <<slots, phase, pages, stored, known, buffer, inflight, written, lost,
          result, touched, raised, gathered, results>>

\* The touch variables, for the actions that move none of them.
touchVars == <<buffer, inflight, written, lost, touched>>

\* What only gather writes, and the size nobody does.
gatherVars == <<slots, gathered, results>>

\* Every touch the run can produce: the n-th one of source s.
Touch == Source \X (1 .. MaxEvents)

Phases == {"queued", "backfill", "listing", "page", "flushing", "paged",
           "finished", "closing", "done", "failed"}

Settled == {"done", "failed"}

EmptyResult ==
  [inserted |-> 0, updated |-> 0, skipped |-> 0, errors |-> 0, down |-> FALSE]

Events(s) ==
  result[s].inserted + result[s].updated + result[s].skipped + result[s].errors

TypeOK ==
  /\ slots \in SlotChoices
  /\ phase \in [Source -> Phases]
  /\ pages \in [Source -> Nat]
  /\ stored \in [Source -> SUBSET Article]
  /\ known \in [Source -> SUBSET Article]
  /\ buffer \subseteq Touch
  /\ inflight \in [Source -> SUBSET Touch]
  /\ written \subseteq Touch
  /\ lost \subseteq Touch
  /\ result \in [Source -> [inserted : Nat, updated : Nat, skipped : Nat,
                            errors : Nat, down : BOOLEAN]]
  /\ touched \in [Source -> 0 .. MaxEvents]
  /\ raised \in Nat
  /\ gathered \in BOOLEAN
  /\ results \subseteq Source

Init ==
  /\ slots \in SlotChoices
  /\ phase = [s \in Source |-> "queued"]
  /\ pages = [s \in Source |-> 0]
  /\ known \in [Source -> SUBSET Article]
  /\ stored = known
  /\ buffer = {}
  /\ inflight = [s \in Source |-> {}]
  /\ written = {}
  /\ lost = {}
  /\ result = [s \in Source |-> EmptyResult]
  /\ touched = [s \in Source |-> 0]
  /\ raised = 0
  /\ gathered = FALSE
  /\ results = {}

-----------------------------------------------------------------------------
(* The semaphore and the phases of a source's coroutine.                   *)

\* Mutation: a source that raised keeps its slot.
LeakedRunning == {s \in Source : phase[s] \notin {"queued", "done"}}

Running == {s \in Source : phase[s] \notin {"queued"} \cup Settled}

Goto(s, to) == phase' = [phase EXCEPT ![s] = to]

Count(s, field) == result' = [result EXCEPT ![s][field] = @ + 1]

\* A source takes a slot; prepare() has already run for every source.
Start(s) ==
  /\ phase[s] = "queued"
  /\ Cardinality(Running) < slots
  /\ Goto(s, "backfill")
  /\ UNCHANGED <<pages, stored, known, touchVars, result, raised, gatherVars>>

\* The null-content backfill rewrites a stored notice (ContentRefreshed).
Refresh(s) ==
  /\ phase[s] = "backfill"
  /\ stored[s] # {}
  /\ Events(s) < MaxEvents
  /\ Count(s, "updated")
  /\ UNCHANGED <<phase, pages, stored, known, touchVars, raised, gatherVars>>

BackfillDone(s) ==
  /\ phase[s] = "backfill"
  /\ Goto(s, "listing")
  /\ UNCHANGED <<pages, stored, known, touchVars, result, raised, gatherVars>>

\* crawl_list returned rows that are worth processing.
ListPage(s) ==
  /\ phase[s] = "listing"
  /\ pages[s] < MaxPages
  /\ Goto(s, "page")
  /\ UNCHANGED <<pages, stored, known, touchVars, result, raised, gatherVars>>

\* The page limit, an empty page, or a stop decided before processing.
ListStops(s) ==
  /\ phase[s] = "listing"
  /\ Goto(s, "finished")
  /\ UNCHANGED <<pages, stored, known, touchVars, result, raised, gatherVars>>

\* crawl_list raised: ListFetchFailed, then SourceFinished, whose source_down
\* is set for page 0 only.
ListFails(s) ==
  /\ phase[s] = "listing"
  /\ pages[s] < MaxPages
  /\ Goto(s, "finished")
  /\ result' = [result EXCEPT ![s].errors = @ + 1, ![s].down = (pages[s] = 0)]
  /\ UNCHANGED <<pages, stored, known, touchVars, raised, gatherVars>>

-----------------------------------------------------------------------------
(* One event of a page: accepted by the sink, then counted by the runner.  *)

OnPage(s) == phase[s] = "page" /\ Events(s) < MaxEvents

\* ItemCrawled with no change: an upsert, whose outcome is INSERTED only when
\* the document was not there.
CrawlNew(s, a) ==
  /\ OnPage(s)
  /\ stored' = [stored EXCEPT ![s] = @ \cup {a}]
  /\ Count(s, IF a \in stored[s] THEN "updated" ELSE "inserted")
  /\ UNCHANGED <<phase, pages, known, touchVars, raised, gatherVars>>

\* ItemCrawled with a change: update_with_history, which never inserts.
CrawlChanged(s, a) ==
  /\ OnPage(s)
  /\ a \in stored[s]
  /\ Count(s, "updated")
  /\ UNCHANGED <<phase, pages, stored, known, touchVars, raised, gatherVars>>

\* ItemUnchanged with fields: buffered, nothing is written yet.
TouchUnchanged(s) ==
  /\ OnPage(s)
  /\ stored[s] # {}
  /\ touched' = [touched EXCEPT ![s] = @ + 1]
  /\ buffer' = buffer \cup {<<s, touched[s] + 1>>}
  /\ Count(s, "skipped")
  /\ UNCHANGED <<phase, pages, stored, known, inflight, written, lost, raised,
                 gatherVars>>

\* ItemUnchanged without fields, or ItemSkipped: accepted, nothing stored.
SkipItem(s) ==
  /\ OnPage(s)
  /\ Count(s, "skipped")
  /\ UNCHANGED <<phase, pages, stored, known, touchVars, raised, gatherVars>>

\* The item's own processing raised: ItemFailed, and the page goes on.
FailItem(s) ==
  /\ OnPage(s)
  /\ Count(s, "errors")
  /\ UNCHANGED <<phase, pages, stored, known, touchVars, raised, gatherVars>>

-----------------------------------------------------------------------------
(* Flushing.  flush() swaps the buffer out before its first await, and an  *)
(* empty buffer needs no write at all.                                     *)

\* Mutation: the list is copied, not swapped.
DrainCopies(s) ==
  /\ inflight' = [inflight EXCEPT ![s] = buffer]
  /\ UNCHANGED buffer

\* Swap the shared list out; what is buffered from now on is not part of it.
Drain(s) ==
  /\ inflight' = [inflight EXCEPT ![s] = buffer]
  /\ buffer' = {}

\* Mutation: flush waits until the buffer holds two touches.
BeginFlushWhenFull(s, await, next) ==
  /\ IF \E t, u \in buffer : t # u
     THEN Drain(s) /\ Goto(s, await)
     ELSE Goto(s, next) /\ UNCHANGED <<inflight, buffer>>
  /\ UNCHANGED <<stored, known, written, lost, result, touched, raised, gatherVars>>

BeginFlush(s, await, next) ==
  /\ Drain(s)
  /\ Goto(s, IF buffer = {} THEN next ELSE await)
  /\ UNCHANGED <<stored, known, written, lost, result, touched, raised, gatherVars>>

\* BatchCompleted: run_events awaits flush, unguarded.
CompleteBatch(s) ==
  /\ phase[s] = "page"
  /\ pages' = [pages EXCEPT ![s] = @ + 1]
  /\ BeginFlush(s, "flushing", "paged")

\* The stream is over: _crawl_department flushes once more, for sinks that
\* buffer what the backfill sends; here it can only send a sibling's touches.
FinalFlush(s) ==
  /\ phase[s] = "finished"
  /\ BeginFlush(s, "closing", "done")
  /\ UNCHANGED pages

\* The bulk write of s succeeds.
FlushOk(s) ==
  /\ phase[s] \in {"flushing", "closing"}
  /\ written' = written \cup inflight[s]
  /\ inflight' = [inflight EXCEPT ![s] = {}]
  /\ Goto(s, IF phase[s] = "flushing" THEN "paged" ELSE "done")
  /\ UNCHANGED <<pages, stored, known, buffer, lost, result, touched, raised,
                 gatherVars>>

\* The bulk write of s raises.  It is unordered, so any part of it may have
\* been applied; the exception aborts s, whoever the touches belonged to.
FlushFails(s) ==
  /\ phase[s] \in {"flushing", "closing"}
  /\ \E applied \in SUBSET inflight[s] :
        /\ written' = written \cup applied
        /\ lost' = lost \cup (inflight[s] \ applied)
  /\ inflight' = [inflight EXCEPT ![s] = {}]
  /\ Goto(s, "failed")
  /\ raised' = raised + 1
  /\ UNCHANGED <<pages, stored, known, buffer, result, touched, gatherVars>>

\* After the page the generator decides to stop, or asks for the next page.
NextPage(s) ==
  /\ phase[s] = "paged"
  /\ Goto(s, "listing")
  /\ UNCHANGED <<pages, stored, known, touchVars, result, raised, gatherVars>>

StopAfterPage(s) ==
  /\ phase[s] = "paged"
  /\ Goto(s, "finished")
  /\ UNCHANGED <<pages, stored, known, touchVars, result, raised, gatherVars>>

\* accept() raises on a write, which the server may have applied all the same,
\* or the generator raises outside the per-item try (pending_refs, the backfill,
\* the seen lookup).  Nothing is counted and nothing is flushed.
Raise(s) ==
  /\ phase[s] \in {"backfill", "listing", "page"}
  /\ Goto(s, "failed")
  /\ raised' = raised + 1
  /\ \/ UNCHANGED stored
     \/ /\ phase[s] = "page"
        /\ \E a \in Article : stored' = [stored EXCEPT ![s] = @ \cup {a}]
  /\ UNCHANGED <<pages, known, touchVars, result, gatherVars>>

\* gather(return_exceptions=True): only sources that returned a SourceResult
\* are part of what run_crawl returns.
Gather ==
  /\ ~gathered
  /\ gathered' = TRUE
  /\ \A s \in Source : phase[s] \in Settled
  /\ results' = {s \in Source : phase[s] = "done"}
  /\ UNCHANGED <<slots, phase, pages, stored, known, touchVars, result, raised>>

-----------------------------------------------------------------------------

SourceStep(s) ==
  \/ Start(s) \/ Refresh(s) \/ BackfillDone(s)
  \/ ListPage(s) \/ ListStops(s) \/ ListFails(s)
  \/ \E a \in Article : CrawlNew(s, a) \/ CrawlChanged(s, a)
  \/ TouchUnchanged(s) \/ SkipItem(s) \/ FailItem(s)
  \/ CompleteBatch(s) \/ FinalFlush(s) \/ FlushOk(s) \/ FlushFails(s)
  \/ NextPage(s) \/ StopAfterPage(s) \/ Raise(s)

Next == (\E s \in Source : SourceStep(s)) \/ Gather

\* Every await of a source ends: httpx and Mongo calls carry timeouts, and the
\* loop runs a ready coroutine.
Fairness == (\A s \in Source : WF_vars(SourceStep(s))) /\ WF_vars(Gather)

Spec == Init /\ [][Next]_vars /\ Fairness

-----------------------------------------------------------------------------

Emitted == {t \in Touch : t[2] <= touched[t[1]]}

InFlight == UNION {inflight[s] : s \in Source}

\* Every touch handed to the sink is in exactly one place: still buffered, in
\* one source's bulk write, applied, or lost with a write that failed.  Swapping
\* the list after the await instead of before it would lose what a sibling
\* appends meanwhile.
TouchesConserved ==
  /\ Emitted = buffer \cup InFlight \cup written \cup lost
  /\ buffer \cap (InFlight \cup written \cup lost) = {}
  /\ InFlight \cap (written \cup lost) = {}
  /\ written \cap lost = {}
  /\ \A s, r \in Source : s # r => inflight[s] \cap inflight[r] = {}

\* A source that returned its result has left nothing behind in the buffer:
\* whatever page it stopped at, its touches have at least been sent.
NoStrandedTouch ==
  \A s \in Source : phase[s] = "done" => \A t \in buffer : t[1] # s

\* A touch is dropped, or left in the buffer for good, only in a run in which
\* some source raised: when every source returns its result, every touch of
\* the run is in the collection.
CleanRunWritesAll ==
  (gathered /\ results = Source) => written = Emitted

\* "inserted" is the number of notices the run added for that source: a row met
\* twice, or an upsert of a stored notice, is not counted again.  A source that
\* raised has no result to compare.
InsertedIsNewNotices ==
  \A s \in Source :
    phase[s] # "failed" => result[s].inserted = Cardinality(stored[s] \ known[s])

\* A source reported down delivered no page: a deeper list failure is an error
\* of a source that is up.
DownMeansNoPage ==
  \A s \in Source : result[s].down => pages[s] = 0

\* Every run settles, whichever sources raise and whatever the others have
\* buffered: a failing source gives its slot back.
RunSettles == <>gathered

Delivery == INSTANCE TouchDelivery
  WITH pending <- buffer \cup InFlight, delivered <- written, dropped <- lost,
       failures <- raised

\* The touch buffer, its swap and its bulk writes implement TouchDelivery:
\* a touch is settled by one bulk write, and dropped only by one that raised.
ImplementsDelivery == Delivery!Spec

=============================================================================
