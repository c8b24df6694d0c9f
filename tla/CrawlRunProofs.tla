---------------------------- MODULE CrawlRunProofs ----------------------------
(***************************************************************************)
(* Proofs about CrawlRun: with any number of sources, articles, pages and  *)
(* semaphore slots, the shared touch buffer loses and duplicates nothing,  *)
(* a clean run writes every touch, and the counters mean what they say.    *)
(***************************************************************************)
EXTENDS CrawlRun, FiniteSetTheorems, TLAPS

\* A source has swapped touches out only while it awaits their bulk write.
FlightIsAwaited ==
  \A s \in Source : inflight[s] # {} => phase[s] \in {"flushing", "closing"}

\* A source that is in its final flush, or past it, has nothing in the buffer.
ClosedLeaveNothing ==
  \A s \in Source : phase[s] \in {"closing", "done"} => \A t \in buffer : t[1] # s

\* A touch is lost only together with the source whose flush lost it.
LostMeansFailed == lost # {} => \E s \in Source : phase[s] = "failed"

\* run_crawl returns after every source has settled, with those that returned.
GatherIsLast ==
  gathered => /\ \A s \in Source : phase[s] \in Settled
              /\ results = {s \in Source : phase[s] = "done"}

\* The n-th touch of a source is the n-th of its skipped events at the latest.
TouchesAreCounted == \A s \in Source : touched[s] <= result[s].skipped

\* Nothing leaves the collection during a run.
KnownAreStored == \A s \in Source : known[s] \subseteq stored[s]

\* A source is reported down on its way out, before its first page.
DownEndsTheSource ==
  \A s \in Source : result[s].down =>
    /\ pages[s] = 0
    /\ phase[s] \in {"finished", "closing"} \cup Settled

\* The part of the invariant that is about touches.
TouchInv ==
  /\ TouchesConserved
  /\ FlightIsAwaited
  /\ ClosedLeaveNothing
  /\ LostMeansFailed
  /\ GatherIsLast

\* The part that is about counters.
CountInv ==
  /\ TouchesAreCounted
  /\ KnownAreStored
  /\ InsertedIsNewNotices
  /\ DownEndsTheSource

RunInv == TypeOK /\ TouchInv /\ CountInv

SourceResult == [inserted : Nat, updated : Nat, skipped : Nat, errors : Nat,
                 down : BOOLEAN]

-----------------------------------------------------------------------------

\* No touch has been handed in.
LEMMA RunInit == Init => RunInv
<1> SUFFICES ASSUME Init PROVE RunInv
  OBVIOUS
<1>1. TypeOK
  <2>1. EmptyResult \in SourceResult
    BY DEF EmptyResult, SourceResult
  <2>2. 0 \in 0 .. MaxEvents
    BY BoundsAssumption
  <2> QED BY <2>1, <2>2 DEF Init, TypeOK, Phases, SourceResult
<1>2. TouchInv
  <2>1. Emitted = {}
    BY DEF Init, Emitted, Touch
  <2>2. InFlight = {}
    BY DEF Init, InFlight
  <2> QED BY <2>1, <2>2 DEF Init, TouchInv, TouchesConserved, FlightIsAwaited,
            ClosedLeaveNothing, LostMeansFailed, GatherIsLast
<1>3. CountInv
  <2>1. \A s \in Source : stored[s] \ known[s] = {}
    BY DEF Init
  <2> QED BY <2>1, FS_EmptySet DEF Init, CountInv, TouchesAreCounted, KnownAreStored,
            InsertedIsNewNotices, DownEndsTheSource, EmptyResult
<1> QED BY <1>1, <1>2, <1>3 DEF RunInv

\* A source that moves on to a phase in which it can still buffer, or that
\* raises, and touches nothing shared.
LEMMA MoveKeeps ==
  ASSUME RunInv, NEW s \in Source, NEW to \in Phases,
         phase[s] \in {"queued", "backfill", "listing", "page", "paged"},
         to \notin {"closing", "done"},
         Goto(s, to), raised' \in Nat,
         UNCHANGED <<pages, stored, known, touchVars, result, gatherVars>>
  PROVE  RunInv'
<1> USE DEF RunInv
<1>1. TypeOK'
  BY DEF TypeOK, Goto, touchVars, gatherVars
<1>2. phase \in [Source -> Phases] /\ phase' = [phase EXCEPT ![s] = to]
  BY DEF TypeOK, Goto
<1>3. ~gathered
  BY DEF TouchInv, GatherIsLast, Settled
<1>4. TouchesConserved'
  BY DEF TouchInv, TouchesConserved, touchVars, Emitted, InFlight
<1>5. FlightIsAwaited'
  BY <1>2 DEF TouchInv, FlightIsAwaited, touchVars
<1>6. ClosedLeaveNothing' /\ LostMeansFailed'
  BY <1>2 DEF TouchInv, ClosedLeaveNothing, LostMeansFailed, touchVars
<1>7. GatherIsLast'
  BY <1>3 DEF GatherIsLast, gatherVars
<1>8. CountInv'
  BY <1>2 DEF CountInv, TouchesAreCounted, KnownAreStored, InsertedIsNewNotices,
     DownEndsTheSource, touchVars, Settled
<1> QED BY <1>1, <1>4, <1>5, <1>6, <1>7, <1>8 DEF TouchInv

\* A source that raises, though its last write may have been applied.
LEMMA RaiseKeeps ==
  ASSUME RunInv, NEW s \in Source, Raise(s)
  PROVE  RunInv'
<1> USE DEF RunInv
<1>1. /\ phase \in [Source -> Phases] /\ phase' = [phase EXCEPT ![s] = "failed"]
      /\ phase[s] \in {"backfill", "listing", "page"}
      /\ UNCHANGED <<pages, known, touchVars, result, gatherVars>>
  BY DEF TypeOK, Raise, Goto
<1>2. /\ stored' \in [Source -> SUBSET Article]
      /\ \A r \in Source : stored[r] \subseteq stored'[r]
      /\ \A r \in Source \ {s} : stored'[r] = stored[r]
  BY DEF TypeOK, Raise
<1>3. TypeOK'
  <2>1. raised' \in Nat
    BY DEF TypeOK, Raise
  <2> QED BY <1>1, <1>2, <2>1 DEF TypeOK, Phases, touchVars, gatherVars
<1>4. TouchesConserved'
  BY <1>1 DEF TouchInv, TouchesConserved, touchVars, Emitted, InFlight
<1>5. FlightIsAwaited' /\ ClosedLeaveNothing' /\ LostMeansFailed'
  BY <1>1 DEF TouchInv, FlightIsAwaited, ClosedLeaveNothing, LostMeansFailed, touchVars
<1>6. GatherIsLast'
  BY <1>1 DEF TouchInv, GatherIsLast, gatherVars, Settled
<1>7. TouchesAreCounted' /\ KnownAreStored'
  BY <1>1, <1>2 DEF CountInv, TouchesAreCounted, KnownAreStored, touchVars
<1>8. InsertedIsNewNotices' /\ DownEndsTheSource'
  BY <1>1, <1>2 DEF CountInv, InsertedIsNewNotices, DownEndsTheSource, Settled
<1> QED BY <1>3, <1>4, <1>5, <1>6, <1>7, <1>8 DEF TouchInv, CountInv

\* An event that the runner counts and that moves no touch.
LEMMA CountKeeps ==
  ASSUME RunInv, NEW s \in Source, NEW new \in SourceResult,
         phase[s] \in {"backfill", "page"},
         result' = [result EXCEPT ![s] = new],
         new.skipped >= result[s].skipped, new.down = result[s].down,
         stored' \in [Source -> SUBSET Article],
         KnownAreStored', InsertedIsNewNotices',
         UNCHANGED <<phase, pages, known, touchVars, raised, gatherVars>>
  PROVE  RunInv'
<1> USE DEF RunInv
<1>1. TypeOK'
  BY DEF TypeOK, touchVars, gatherVars, SourceResult
<1>2. TouchInv'
  BY DEF TouchInv, TouchesConserved, FlightIsAwaited, ClosedLeaveNothing,
     LostMeansFailed, GatherIsLast, touchVars, gatherVars, Emitted, InFlight
<1>3. TouchesAreCounted'
  <2>1. \A r \in Source : result[r].skipped \in Nat /\ touched[r] \in Nat
    BY DEF TypeOK
  <2>2. \A r \in Source : result'[r].skipped >= result[r].skipped
    BY <2>1 DEF TypeOK, SourceResult
  <2>3. \A r \in Source : result'[r].skipped \in Nat
    BY <2>1 DEF TypeOK, SourceResult
  <2> QED BY <2>1, <2>2, <2>3 DEF CountInv, TouchesAreCounted, touchVars
<1>4. DownEndsTheSource'
  BY DEF CountInv, DownEndsTheSource, TypeOK
<1> QED BY <1>1, <1>2, <1>3, <1>4 DEF CountInv

\* Counting one event keeps the result well-formed.
LEMMA CountFacts ==
  ASSUME TypeOK, NEW s \in Source,
         NEW field \in {"inserted", "updated", "skipped", "errors"},
         Count(s, field)
  PROVE  \E new \in SourceResult :
           /\ result' = [result EXCEPT ![s] = new]
           /\ new.skipped = IF field = "skipped" THEN result[s].skipped + 1
                            ELSE result[s].skipped
           /\ new.inserted = IF field = "inserted" THEN result[s].inserted + 1
                             ELSE result[s].inserted
           /\ new.down = result[s].down
<1> DEFINE new == [result[s] EXCEPT ![field] = @ + 1]
<1>1. result[s] \in SourceResult
  BY DEF TypeOK, SourceResult
<1>2. result' = [result EXCEPT ![s] = new]
  BY DEF Count
<1>3. new \in SourceResult
  BY <1>1 DEF SourceResult
<1>4. /\ new.skipped = IF field = "skipped" THEN result[s].skipped + 1
                       ELSE result[s].skipped
      /\ new.inserted = IF field = "inserted" THEN result[s].inserted + 1
                        ELSE result[s].inserted
      /\ new.down = result[s].down
  BY <1>1 DEF SourceResult
<1> QED BY <1>2, <1>3, <1>4

\* An event other than a new notice: counted, and nothing is stored or buffered.
LEMMA EventKeeps ==
  ASSUME RunInv, NEW s \in Source, NEW field \in {"updated", "skipped", "errors"},
         phase[s] \in {"backfill", "page"}, Count(s, field),
         UNCHANGED <<phase, pages, stored, known, touchVars, raised, gatherVars>>
  PROVE  RunInv'
<1>1. PICK new \in SourceResult :
        /\ result' = [result EXCEPT ![s] = new]
        /\ new.skipped = IF field = "skipped" THEN result[s].skipped + 1
                         ELSE result[s].skipped
        /\ new.inserted = result[s].inserted
        /\ new.down = result[s].down
  BY CountFacts DEF RunInv
<1>2. result[s].skipped \in Nat /\ stored \in [Source -> SUBSET Article]
  BY DEF RunInv, TypeOK
<1>3. new.skipped >= result[s].skipped
  BY <1>1, <1>2
<1>4. InsertedIsNewNotices'
  <2>1. \A r \in Source : result'[r].inserted = result[r].inserted
    BY <1>1 DEF RunInv, TypeOK
  <2> QED BY <2>1 DEF RunInv, CountInv, InsertedIsNewNotices
<1>5. KnownAreStored'
  BY DEF RunInv, CountInv, KnownAreStored
<1> QED BY <1>1, <1>2, <1>3, <1>4, <1>5, CountKeeps

\* A new row is stored; it is counted as inserted exactly when it was not there.
LEMMA CrawlNewKeeps ==
  ASSUME RunInv, NEW s \in Source, NEW a \in Article, CrawlNew(s, a)
  PROVE  RunInv'
<1> DEFINE field == IF a \in stored[s] THEN "updated" ELSE "inserted"
<1>1. PICK new \in SourceResult :
        /\ result' = [result EXCEPT ![s] = new]
        /\ new.skipped = result[s].skipped
        /\ new.inserted = IF a \in stored[s] THEN result[s].inserted
                          ELSE result[s].inserted + 1
        /\ new.down = result[s].down
  <2>1. field \in {"inserted", "updated", "skipped", "errors"}
    OBVIOUS
  <2>2. Count(s, field)
    BY DEF CrawlNew
  <2>3. field # "skipped" /\ (field = "inserted" <=> a \notin stored[s])
    OBVIOUS
  <2> HIDE DEF field
  <2> QED BY <2>1, <2>2, <2>3, CountFacts DEF RunInv
<1>2. /\ result[s].skipped \in Nat /\ result[s].inserted \in Nat
      /\ stored \in [Source -> SUBSET Article] /\ known[s] \subseteq stored[s]
      /\ result[s].inserted = Cardinality(stored[s] \ known[s])
  BY DEF RunInv, TypeOK, CountInv, KnownAreStored, InsertedIsNewNotices,
     CrawlNew, OnPage
<1>3. /\ stored' = [stored EXCEPT ![s] = @ \cup {a}]
      /\ stored' \in [Source -> SUBSET Article]
      /\ UNCHANGED <<phase, pages, known, touchVars, raised, gatherVars>>
      /\ phase[s] = "page"
  BY <1>2 DEF CrawlNew, OnPage
<1>4. KnownAreStored'
  BY <1>2, <1>3 DEF RunInv, CountInv, KnownAreStored
<1>5. result'[s].inserted = Cardinality(stored'[s] \ known[s])
  <2>1. result'[s] = new
    BY <1>1 DEF RunInv, TypeOK
  <2>2. CASE a \in stored[s]
    <3>1. stored'[s] = stored[s]
      BY <1>2, <1>3, <2>2
    <3> QED BY <1>1, <1>2, <2>1, <2>2, <3>1
  <2>3. CASE a \notin stored[s]
    <3>1. stored'[s] \ known[s] = (stored[s] \ known[s]) \cup {a}
      BY <1>2, <1>3, <2>3
    <3>2. IsFiniteSet(stored[s] \ known[s])
      BY <1>2, ArticleAssumption, FS_Subset
    <3>3. Cardinality(stored'[s] \ known[s]) = Cardinality(stored[s] \ known[s]) + 1
      BY <2>3, <3>1, <3>2, FS_AddElement
    <3> QED BY <1>1, <1>2, <2>1, <2>3, <3>3
  <2> QED BY <2>2, <2>3
<1>6. InsertedIsNewNotices'
  <2>1. \A r \in Source \ {s} : result'[r] = result[r] /\ stored'[r] = stored[r]
    BY <1>1, <1>2, <1>3 DEF RunInv, TypeOK
  <2> QED BY <1>3, <1>5, <2>1 DEF RunInv, CountInv, InsertedIsNewNotices
<1>7. new.skipped >= result[s].skipped
  BY <1>1, <1>2
<1> QED BY <1>1, <1>3, <1>4, <1>6, <1>7, CountKeeps

\* An unchanged notice: its touch is in range, and is nowhere yet.
LEMMA TouchIsNew ==
  ASSUME RunInv, NEW s \in Source, TouchUnchanged(s)
  PROVE  /\ Emitted' = Emitted \cup {<<s, touched[s] + 1>>}
         /\ <<s, touched[s] + 1>> \notin Emitted
         /\ <<s, touched[s] + 1>> \in Touch
         /\ touched' \in [Source -> 0 .. MaxEvents]
<1> USE DEF RunInv
<1> DEFINE t == <<s, touched[s] + 1>>
<1>1. touched \in [Source -> 0 .. MaxEvents] /\ touched' = [touched EXCEPT ![s] = @ + 1]
  BY DEF TypeOK, TouchUnchanged
<1>2. touched[s] + 1 \in 1 .. MaxEvents
  <2>1. result[s] \in SourceResult /\ touched[s] \in 0 .. MaxEvents
    BY DEF TypeOK, SourceResult
  <2>2. touched[s] <= result[s].skipped
    BY DEF CountInv, TouchesAreCounted
  <2>3. result[s].skipped <= Events(s) /\ Events(s) \in Nat
    BY <2>1 DEF Events, SourceResult
  <2>4. Events(s) < MaxEvents
    BY DEF TouchUnchanged, OnPage
  <2> QED BY <2>1, <2>2, <2>3, <2>4, BoundsAssumption DEF SourceResult
<1>3. t \in Touch /\ t \notin Emitted
  <2>1. touched[s] \in Nat /\ ~(touched[s] + 1 <= touched[s])
    BY <1>1
  <2> QED BY <1>2, <2>1 DEF Touch, Emitted
<1>4. ASSUME NEW u \in Touch
      PROVE  u[2] <= touched'[u[1]] <=> u[2] <= touched[u[1]] \/ u = t
  <2>1. PICK r \in Source, n \in 1 .. MaxEvents : u = <<r, n>>
    BY DEF Touch
  <2>2. CASE r = s
    BY <1>1, <1>2, <2>1, <2>2
  <2>3. CASE r # s
    BY <1>1, <2>1, <2>3
  <2> QED BY <2>2, <2>3
<1>5. Emitted' = Emitted \cup {t}
  BY <1>3, <1>4 DEF Emitted
<1>6. touched' \in [Source -> 0 .. MaxEvents]
  BY <1>1, <1>2
<1> QED BY <1>3, <1>5, <1>6

\* An unchanged notice is counted, and its touch joins the buffer only.
LEMMA TouchKeeps ==
  ASSUME RunInv, NEW s \in Source, TouchUnchanged(s)
  PROVE  RunInv'
<1> USE DEF RunInv
<1> DEFINE t == <<s, touched[s] + 1>>
<1>1. PICK new \in SourceResult :
        /\ result' = [result EXCEPT ![s] = new]
        /\ new.skipped = result[s].skipped + 1
        /\ new.inserted = result[s].inserted
        /\ new.down = result[s].down
  BY CountFacts DEF TouchUnchanged
<1>2. /\ phase[s] = "page"
      /\ touched' = [touched EXCEPT ![s] = @ + 1]
      /\ buffer' = buffer \cup {t}
      /\ UNCHANGED <<phase, pages, stored, known, inflight, written, lost, raised,
                     gatherVars>>
  BY DEF TouchUnchanged, OnPage
<1>3. /\ Emitted' = Emitted \cup {t} /\ t \notin Emitted /\ t \in Touch
      /\ touched' \in [Source -> 0 .. MaxEvents]
  BY TouchIsNew
<1> HIDE DEF t
<1>4. TypeOK'
  BY <1>1, <1>2, <1>3 DEF TypeOK, gatherVars, SourceResult
<1>5. TouchesConserved'
  BY <1>2, <1>3 DEF TouchInv, TouchesConserved, InFlight
<1>6. FlightIsAwaited' /\ LostMeansFailed' /\ GatherIsLast'
  BY <1>2 DEF TouchInv, FlightIsAwaited, LostMeansFailed, GatherIsLast, gatherVars
<1>7. ClosedLeaveNothing'
  BY <1>2 DEF TouchInv, ClosedLeaveNothing, t
<1>8. TouchesAreCounted'
  <2>1. result[s].skipped \in Nat /\ touched[s] \in Nat
    BY DEF TypeOK
  <2>2. \A r \in Source \ {s} : result'[r] = result[r] /\ touched'[r] = touched[r]
    BY <1>1, <1>2 DEF TypeOK
  <2>3. touched'[s] = touched[s] + 1 /\ result'[s].skipped = result[s].skipped + 1
    BY <1>1, <1>2 DEF TypeOK
  <2> QED BY <2>1, <2>2, <2>3 DEF CountInv, TouchesAreCounted
<1>9. KnownAreStored' /\ InsertedIsNewNotices' /\ DownEndsTheSource'
  BY <1>1, <1>2 DEF CountInv, KnownAreStored, InsertedIsNewNotices,
     DownEndsTheSource, TypeOK
<1> QED BY <1>4, <1>5, <1>6, <1>7, <1>8, <1>9 DEF TouchInv, CountInv

\* A failed list fetch: the source leaves, down only if no page came before.
LEMMA ListFailsKeeps ==
  ASSUME RunInv, NEW s \in Source, ListFails(s)
  PROVE  RunInv'
<1> USE DEF RunInv
<1> DEFINE noPage == pages[s] = 0
           counted == [result[s] EXCEPT !.errors = @ + 1]
           new == [counted EXCEPT !.down = noPage]
<1>1. result[s] \in SourceResult /\ noPage \in BOOLEAN
  BY DEF TypeOK, SourceResult
<1>2. result' = [result EXCEPT ![s] = new]
  BY <1>1 DEF ListFails, SourceResult
<1> HIDE DEF noPage
<1>3. /\ new \in SourceResult
      /\ new.skipped = result[s].skipped
      /\ new.inserted = result[s].inserted
      /\ new.down = noPage
  <2>1. /\ counted \in SourceResult
        /\ counted.skipped = result[s].skipped
        /\ counted.inserted = result[s].inserted
    BY <1>1 DEF SourceResult
  <2> HIDE DEF counted
  <2> QED BY <1>1, <2>1 DEF SourceResult
<1> HIDE DEF new
<1>4. /\ phase' = [phase EXCEPT ![s] = "finished"]
      /\ phase[s] = "listing"
      /\ UNCHANGED <<pages, stored, known, touchVars, raised, gatherVars>>
  BY DEF ListFails, Goto
<1>5. TypeOK'
  BY <1>2, <1>3, <1>4 DEF TypeOK, Phases, touchVars, gatherVars, SourceResult
<1>6. TouchesConserved'
  BY <1>4 DEF TouchInv, TouchesConserved, touchVars, Emitted, InFlight
<1>7. FlightIsAwaited' /\ ClosedLeaveNothing' /\ LostMeansFailed'
  BY <1>4 DEF TouchInv, FlightIsAwaited, ClosedLeaveNothing, LostMeansFailed,
     touchVars, TypeOK
<1>8. GatherIsLast'
  BY <1>4 DEF TouchInv, GatherIsLast, gatherVars, Settled
<1>9. TouchesAreCounted' /\ KnownAreStored' /\ InsertedIsNewNotices'
  <2>1. \A r \in Source : /\ result'[r].skipped = result[r].skipped
                          /\ result'[r].inserted = result[r].inserted
    BY <1>2, <1>3 DEF TypeOK
  <2> QED BY <1>4, <2>1 DEF CountInv, TouchesAreCounted, KnownAreStored,
            InsertedIsNewNotices, touchVars
<1>10. DownEndsTheSource'
  BY <1>2, <1>3, <1>4 DEF CountInv, DownEndsTheSource, TypeOK, noPage
<1> QED BY <1>5, <1>6, <1>7, <1>8, <1>9, <1>10 DEF TouchInv, CountInv

\* What a step leaves alone of the counters, when only phases and touches move
\* and no source that is down comes back.
LEMMA CountsStay ==
  ASSUME RunInv,
         UNCHANGED <<stored, known, result, touched>>,
         \A r \in Source : phase[r] = "failed" => phase'[r] = "failed",
         \A r \in Source : result[r].down =>
            /\ pages'[r] = pages[r]
            /\ phase'[r] = phase[r] \/ phase'[r] \in {"closing"} \cup Settled
  PROVE  CountInv'
BY DEF RunInv, CountInv, TouchesAreCounted, KnownAreStored, InsertedIsNewNotices,
   DownEndsTheSource

\* The swap: the buffer moves to s as a whole, and s awaits the bulk write
\* unless there was nothing to write.
LEMMA FlushBegins ==
  ASSUME RunInv, NEW s \in Source, NEW await, NEW next,
         \/ phase[s] = "page" /\ await = "flushing" /\ next = "paged"
         \/ phase[s] = "finished" /\ await = "closing" /\ next = "done",
         BeginFlush(s, await, next),
         pages' \in [Source -> Nat],
         \A r \in Source : result[r].down => pages'[r] = pages[r]
  PROVE  RunInv'
<1> USE DEF RunInv
<1> DEFINE to == IF buffer = {} THEN next ELSE await
<1>1. to \in Phases \ {"queued"} /\ (to = await \/ buffer = {})
  BY DEF Phases
<1>2. /\ phase' = [phase EXCEPT ![s] = to]
      /\ inflight' = [inflight EXCEPT ![s] = buffer]
      /\ buffer' = {}
      /\ UNCHANGED <<stored, known, written, lost, result, touched, raised, gatherVars>>
  BY DEF BeginFlush, Drain, Goto
<1> HIDE DEF to
<1>3. phase \in [Source -> Phases] /\ inflight \in [Source -> SUBSET Touch]
  BY DEF TypeOK
<1>4. TypeOK'
  BY <1>1, <1>2 DEF TypeOK, gatherVars
<1>5. inflight[s] = {}
  BY DEF TouchInv, FlightIsAwaited
<1>6. TouchesConserved'
  <2>1. InFlight' = InFlight \cup buffer
    <3>1. \A r \in Source \ {s} : inflight'[r] = inflight[r]
      BY <1>2, <1>3
    <3>2. inflight'[s] = buffer
      BY <1>2, <1>3
    <3> QED BY <1>5, <3>1, <3>2 DEF InFlight
  <2>2. Emitted' = Emitted
    BY <1>2 DEF Emitted
  <2>3. ASSUME NEW r \in Source, NEW q \in Source, r # q
        PROVE  inflight'[r] \cap inflight'[q] = {}
    <3>1. \A x \in Source : buffer \cap inflight[x] = {}
      BY DEF TouchInv, TouchesConserved, InFlight
    <3> QED BY <1>2, <1>3, <2>3, <3>1 DEF TouchInv, TouchesConserved
  <2> QED BY <1>2, <2>1, <2>2, <2>3 DEF TouchInv, TouchesConserved
<1>7. FlightIsAwaited'
  BY <1>1, <1>2, <1>3 DEF TouchInv, FlightIsAwaited
<1>8. ClosedLeaveNothing'
  BY <1>2 DEF ClosedLeaveNothing
<1>9. LostMeansFailed'
  BY <1>2, <1>3 DEF TouchInv, LostMeansFailed
<1>10. GatherIsLast'
  BY <1>2 DEF TouchInv, GatherIsLast, gatherVars, Settled
<1>11. CountInv'
  <2>1. ASSUME NEW r \in Source, result[r].down
        PROVE  phase'[r] = phase[r] \/ phase'[r] \in {"closing"} \cup Settled
    <3>1. phase[r] \in {"finished", "closing"} \cup Settled
      BY <2>1 DEF CountInv, DownEndsTheSource
    <3>2. r = s => to \in {"closing", "done"}
      BY <3>1 DEF Settled, to
    <3> QED BY <1>2, <1>3, <3>2 DEF Settled
  <2>2. \A r \in Source : phase[r] = "failed" => phase'[r] = "failed"
    BY <1>2, <1>3
  <2> QED BY <1>2, <2>1, <2>2, CountsStay
<1> QED BY <1>4, <1>6, <1>7, <1>8, <1>9, <1>10, <1>11 DEF TouchInv

\* A bulk write settles: its touches leave the flight of s and nothing else.
LEMMA FlushSettles ==
  ASSUME RunInv, NEW s \in Source, NEW applied \in SUBSET inflight[s],
         NEW to \in {"paged", "done", "failed"},
         phase[s] \in {"flushing", "closing"},
         to = "paged" => phase[s] = "flushing",
         to = "done" => phase[s] = "closing",
         applied # inflight[s] => to = "failed",
         Goto(s, to),
         written' = written \cup applied,
         lost' = lost \cup (inflight[s] \ applied),
         inflight' = [inflight EXCEPT ![s] = {}],
         raised' \in Nat,
         UNCHANGED <<pages, stored, known, buffer, result, touched, gatherVars>>
  PROVE  RunInv'
<1> USE DEF RunInv
<1>1. /\ phase \in [Source -> Phases] /\ inflight \in [Source -> SUBSET Touch]
      /\ phase' = [phase EXCEPT ![s] = to]
  BY DEF TypeOK, Goto
<1>2. TypeOK'
  BY <1>1 DEF TypeOK, Phases, gatherVars
<1>3. InFlight = InFlight' \cup inflight[s]
  <2>1. \A r \in Source \ {s} : inflight'[r] = inflight[r]
    BY <1>1
  <2>2. inflight'[s] = {}
    BY <1>1
  <2> QED BY <2>1, <2>2 DEF InFlight
<1>4. InFlight' \cap inflight[s] = {}
  BY <1>1 DEF TouchInv, TouchesConserved, InFlight
<1>5. TouchesConserved'
  <2>1. Emitted' = Emitted
    BY DEF Emitted
  <2>2. \A r, q \in Source : r # q => inflight'[r] \cap inflight'[q] = {}
    BY <1>1 DEF TouchInv, TouchesConserved
  <2>3. /\ Emitted = buffer \cup InFlight \cup written \cup lost
        /\ buffer \cap (InFlight \cup written \cup lost) = {}
        /\ InFlight \cap (written \cup lost) = {}
        /\ written \cap lost = {}
    BY DEF TouchInv, TouchesConserved
  <2> HIDE DEF RunInv
  <2>4. /\ Emitted' = buffer' \cup InFlight' \cup written' \cup lost'
        /\ buffer' \cap (InFlight' \cup written' \cup lost') = {}
        /\ InFlight' \cap (written' \cup lost') = {}
        /\ written' \cap lost' = {}
    BY <1>3, <1>4, <2>1, <2>3
  <2> QED BY <2>2, <2>4 DEF TouchesConserved
<1>6. FlightIsAwaited'
  BY <1>1 DEF TouchInv, FlightIsAwaited
<1>7. ClosedLeaveNothing'
  BY <1>1 DEF TouchInv, ClosedLeaveNothing
<1>8. LostMeansFailed'
  BY <1>1 DEF TouchInv, LostMeansFailed
<1>9. GatherIsLast'
  BY DEF TouchInv, GatherIsLast, gatherVars, Settled
<1>10. CountInv'
  <2>1. ASSUME NEW r \in Source, result[r].down
        PROVE  phase'[r] = phase[r] \/ phase'[r] \in {"closing"} \cup Settled
    <3>1. phase[r] \in {"finished", "closing"} \cup Settled
      BY <2>1 DEF CountInv, DownEndsTheSource
    <3> QED BY <1>1, <3>1 DEF Settled
  <2>2. \A r \in Source : phase[r] = "failed" => phase'[r] = "failed"
    BY <1>1
  <2> QED BY <2>1, <2>2, CountsStay
<1> QED BY <1>2, <1>5, <1>6, <1>7, <1>8, <1>9, <1>10 DEF TouchInv

\* The run is over.
LEMMA GatherKeeps ==
  ASSUME RunInv, Gather
  PROVE  RunInv'
<1>1. TypeOK'
  BY DEF RunInv, TypeOK, Gather, touchVars
<1>2. TouchInv'
  BY DEF RunInv, TouchInv, TouchesConserved, FlightIsAwaited, ClosedLeaveNothing,
     LostMeansFailed, GatherIsLast, Gather, touchVars, Emitted, InFlight
<1>3. CountInv'
  BY CountsStay DEF Gather, touchVars
<1> QED BY <1>1, <1>2, <1>3 DEF RunInv

-----------------------------------------------------------------------------

\* Every step of a source keeps the invariant.
LEMMA SourceStepKeeps ==
  ASSUME RunInv, NEW s \in Source, SourceStep(s)
  PROVE  RunInv'
<1>r. raised \in Nat /\ raised + 1 \in Nat /\ pages \in [Source -> Nat]
  BY DEF RunInv, TypeOK
<1>1. CASE Start(s)
  BY <1>1, <1>r, MoveKeeps DEF Start, Phases
<1>2. CASE Refresh(s)
  BY <1>2, EventKeeps DEF Refresh
<1>3. CASE BackfillDone(s)
  BY <1>3, <1>r, MoveKeeps DEF BackfillDone, Phases
<1>4. CASE ListPage(s)
  BY <1>4, <1>r, MoveKeeps DEF ListPage, Phases
<1>5. CASE ListStops(s)
  BY <1>5, <1>r, MoveKeeps DEF ListStops, Phases
<1>6. CASE ListFails(s)
  BY <1>6, ListFailsKeeps
<1>7. CASE \E a \in Article : CrawlNew(s, a)
  BY <1>7, CrawlNewKeeps
<1>8. CASE \E a \in Article : CrawlChanged(s, a)
  BY <1>8, EventKeeps DEF CrawlChanged, OnPage
<1>9. CASE TouchUnchanged(s)
  BY <1>9, TouchKeeps
<1>10. CASE SkipItem(s)
  BY <1>10, EventKeeps DEF SkipItem, OnPage
<1>11. CASE FailItem(s)
  BY <1>11, EventKeeps DEF FailItem, OnPage
<1>12. CASE CompleteBatch(s)
  <2>1. pages' \in [Source -> Nat]
    BY <1>12, <1>r DEF CompleteBatch
  <2>2. ~result[s].down
    BY <1>12 DEF RunInv, CountInv, DownEndsTheSource, Settled, CompleteBatch
  <2>3. \A r \in Source : result[r].down => pages'[r] = pages[r]
    BY <1>12, <1>r, <2>2 DEF CompleteBatch
  <2> QED BY <1>12, <2>1, <2>3, FlushBegins DEF CompleteBatch
<1>13. CASE FinalFlush(s)
  BY <1>13, <1>r, FlushBegins DEF FinalFlush
<1>14. CASE FlushOk(s)
  <2> DEFINE to == IF phase[s] = "flushing" THEN "paged" ELSE "done"
  <2>1. /\ to \in {"paged", "done", "failed"}
        /\ to = "paged" => phase[s] = "flushing"
        /\ to = "done" => phase[s] = "closing"
        /\ Goto(s, to)
    BY <1>14 DEF FlushOk
  <2>2. lost' = lost \cup (inflight[s] \ inflight[s])
    BY <1>14 DEF FlushOk
  <2> HIDE DEF to
  <2> QED BY <1>14, <1>r, <2>1, <2>2, FlushSettles DEF FlushOk
<1>15. CASE FlushFails(s)
  <2>1. PICK applied \in SUBSET inflight[s] :
          /\ written' = written \cup applied
          /\ lost' = lost \cup (inflight[s] \ applied)
    BY <1>15 DEF FlushFails
  <2> QED BY <1>15, <1>r, <2>1, FlushSettles DEF FlushFails
<1>16. CASE NextPage(s)
  BY <1>16, <1>r, MoveKeeps DEF NextPage, Phases
<1>17. CASE StopAfterPage(s)
  BY <1>17, <1>r, MoveKeeps DEF StopAfterPage, Phases
<1>18. CASE Raise(s)
  BY <1>18, RaiseKeeps
<1> QED BY <1>1, <1>2, <1>3, <1>4, <1>5, <1>6, <1>7, <1>8, <1>9, <1>10, <1>11,
           <1>12, <1>13, <1>14, <1>15, <1>16, <1>17, <1>18 DEF SourceStep

\* Every step does.
LEMMA RunStep == RunInv /\ [Next]_vars => RunInv'
<1> SUFFICES ASSUME RunInv, [Next]_vars PROVE RunInv'
  OBVIOUS
<1>1. CASE UNCHANGED vars
  BY <1>1 DEF vars, RunInv, TypeOK, TouchInv, TouchesConserved, FlightIsAwaited,
     ClosedLeaveNothing, LostMeansFailed, GatherIsLast, CountInv,
     TouchesAreCounted, KnownAreStored, InsertedIsNewNotices, DownEndsTheSource,
     Emitted, InFlight
<1> QED BY <1>1, SourceStepKeeps, GatherKeeps DEF Next

\* The strengthening is an invariant of a run.
THEOREM RunInvariant == Spec => []RunInv
BY RunInit, RunStep, PTL DEF Spec

\* Every variable of a run keeps its type: what is written, lost or buffered is
\* always a touch some source handed in within its bound.
THEOREM TypeCorrect == Spec => []TypeOK
<1>1. RunInv => TypeOK
  BY DEF RunInv
<1> QED BY <1>1, RunInvariant, PTL

\* The shared buffer, its swap and its bulk writes lose and duplicate nothing,
\* in every interleaving of the sources' pages and flushes.
THEOREM TouchSafety == Spec => []TouchesConserved
<1>1. RunInv => TouchesConserved
  BY DEF RunInv, TouchInv
<1> QED BY <1>1, RunInvariant, PTL

\* A source that returned has sent every touch it handed in.
THEOREM NothingStranded == Spec => []NoStrandedTouch
<1>1. RunInv => NoStrandedTouch
  BY DEF RunInv, TouchInv, ClosedLeaveNothing, NoStrandedTouch
<1> QED BY <1>1, RunInvariant, PTL

\* When every source of a run returns its result, every touch is written.
THEOREM CleanRunSafety == Spec => []CleanRunWritesAll
<1>1. RunInv => CleanRunWritesAll
  <2> SUFFICES ASSUME RunInv, gathered, results = Source
               PROVE  written = Emitted
    BY DEF CleanRunWritesAll
  <2>1. \A s \in Source : phase[s] = "done"
    BY DEF RunInv, TouchInv, GatherIsLast
  <2>2. buffer = {}
    <3>1. \A t \in buffer : t[1] \in Source
      BY DEF RunInv, TypeOK, Touch
    <3> QED BY <2>1, <3>1 DEF RunInv, TouchInv, ClosedLeaveNothing
  <2>3. InFlight = {}
    BY <2>1 DEF RunInv, TouchInv, FlightIsAwaited, InFlight
  <2>4. lost = {}
    BY <2>1 DEF RunInv, TouchInv, LostMeansFailed
  <2> QED BY <2>2, <2>3, <2>4 DEF RunInv, TouchInv, TouchesConserved
<1> QED BY <1>1, RunInvariant, PTL

\* The inserted counter of a source is the number of notices the run added.
THEOREM InsertedCounts == Spec => []InsertedIsNewNotices
<1>1. RunInv => InsertedIsNewNotices
  BY DEF RunInv, CountInv
<1> QED BY <1>1, RunInvariant, PTL

\* What the alerts rest on: a source reported down has delivered no page.
THEOREM DownSafety == Spec => []DownMeansNoPage
<1>1. RunInv => DownMeansNoPage
  BY DEF RunInv, CountInv, DownEndsTheSource, DownMeansNoPage
<1> QED BY <1>1, RunInvariant, PTL

-----------------------------------------------------------------------------
(* Refinement of TouchDelivery.                                            *)

Pending == buffer \cup InFlight

\* Steps that hand in nothing and settle nothing are invisible above.
LEMMA StutterStep ==
  ASSUME Pending' = Pending, UNCHANGED <<written, lost, raised>>
  PROVE  UNCHANGED Delivery!vars
BY DEF Delivery!vars, Pending

\* A step that leaves the buffer and every flight alone stutters above, or is a
\* bulk write of nothing that failed: an exception is all that is seen of it.
LEMMA QuietStep ==
  ASSUME UNCHANGED <<touchVars>>, raised' \in {raised, raised + 1}
  PROVE  Delivery!Next \/ UNCHANGED Delivery!vars
<1>1. Pending' = Pending
  BY DEF touchVars, Pending, InFlight
<1>2. CASE raised' = raised
  BY <1>1, <1>2, StutterStep DEF touchVars
<1>3. CASE raised' = raised + 1
  <2>1. Delivery!Fail({}, {})
    BY <1>1, <1>3 DEF Delivery!Fail, Pending, touchVars
  <2> QED BY <2>1 DEF Delivery!Next
<1> QED BY <1>2, <1>3

\* The swap moves touches between the buffer and a flight.
LEMMA SwapStep ==
  ASSUME RunInv, NEW s \in Source, NEW await, NEW next, BeginFlush(s, await, next),
         phase[s] \in {"page", "finished"}
  PROVE  UNCHANGED Delivery!vars
<1>1. /\ inflight \in [Source -> SUBSET Touch] /\ inflight[s] = {}
      /\ inflight' = [inflight EXCEPT ![s] = buffer]
      /\ buffer' = {}
  BY DEF RunInv, TypeOK, TouchInv, FlightIsAwaited, BeginFlush, Drain
<1>2. (\A r \in Source \ {s} : inflight'[r] = inflight[r]) /\ inflight'[s] = buffer
  BY <1>1
<1>3. Pending' = Pending
  BY <1>1, <1>2 DEF Pending, InFlight
<1> QED BY <1>3, StutterStep DEF BeginFlush

\* A bulk write takes exactly its own touches out of what is pending.
LEMMA SettleStep ==
  ASSUME RunInv, NEW s \in Source, inflight' = [inflight EXCEPT ![s] = {}],
         UNCHANGED buffer
  PROVE  inflight[s] \subseteq Pending /\ Pending' = Pending \ inflight[s]
<1>1. inflight \in [Source -> SUBSET Touch]
  BY DEF RunInv, TypeOK
<1>2. (\A r \in Source \ {s} : inflight'[r] = inflight[r]) /\ inflight'[s] = {}
  BY <1>1
<1>3. inflight[s] \subseteq InFlight
  BY DEF InFlight
<1>4. InFlight' = InFlight \ inflight[s]
  <2>1. \A r \in Source \ {s} : inflight[r] \cap inflight[s] = {}
    BY DEF RunInv, TouchInv, TouchesConserved
  <2> QED BY <1>2, <2>1 DEF InFlight
<1>5. buffer \cap inflight[s] = {}
  BY <1>3 DEF RunInv, TouchInv, TouchesConserved
<1> QED BY <1>3, <1>4, <1>5 DEF Pending

\* Nothing is pending at the start of either.
LEMMA DeliveryInit == Init => Delivery!Init
BY DEF Init, Delivery!Init, InFlight

\* Every step is one of a touch, or none.
LEMMA DeliveryStep == RunInv /\ [Next]_vars => [Delivery!Next]_Delivery!vars
<1> SUFFICES ASSUME RunInv, [Next]_vars
             PROVE  Delivery!Next \/ UNCHANGED Delivery!vars
  OBVIOUS
<1>1. CASE UNCHANGED vars
  BY <1>1, QuietStep DEF vars, touchVars
<1>2. CASE Gather
  BY <1>2, QuietStep DEF Gather
<1>3. ASSUME NEW s \in Source, SourceStep(s)
      PROVE  Delivery!Next \/ UNCHANGED Delivery!vars
  <2>1. CASE \/ Start(s) \/ Refresh(s) \/ BackfillDone(s) \/ ListPage(s)
             \/ ListStops(s) \/ ListFails(s) \/ SkipItem(s) \/ FailItem(s)
             \/ NextPage(s) \/ StopAfterPage(s) \/ Raise(s)
             \/ \E a \in Article : CrawlNew(s, a) \/ CrawlChanged(s, a)
    BY <2>1, QuietStep DEF Start, Refresh, BackfillDone, ListPage, ListStops,
       ListFails, SkipItem, FailItem, NextPage, StopAfterPage, Raise, CrawlNew,
       CrawlChanged
  <2>2. CASE TouchUnchanged(s)
    <3> DEFINE t == <<s, touched[s] + 1>>
    <3>1. Emitted' = Emitted \cup {t} /\ t \notin Emitted /\ t \in Touch
      BY <2>2, TouchIsNew
    <3> HIDE DEF t
    <3>2. buffer' = buffer \cup {t} /\ UNCHANGED <<inflight, written, lost, raised>>
      BY <2>2 DEF TouchUnchanged, t
    <3>3. Pending' = Pending \cup {t} /\ t \notin Pending \cup written \cup lost
      BY <3>1, <3>2 DEF RunInv, TouchInv, TouchesConserved, Pending, InFlight
    <3>4. Delivery!HandIn(t)
      BY <3>2, <3>3 DEF Delivery!HandIn, Pending
    <3> QED BY <3>1, <3>4 DEF Delivery!Next
  <2>3. CASE CompleteBatch(s)
    BY <2>3, SwapStep DEF CompleteBatch
  <2>4. CASE FinalFlush(s)
    BY <2>4, SwapStep DEF FinalFlush
  <2>5. CASE FlushOk(s)
    <3>1. inflight[s] \subseteq Pending /\ Pending' = Pending \ inflight[s]
      BY <2>5, SettleStep DEF FlushOk
    <3>2. Delivery!Deliver(inflight[s])
      BY <2>5, <3>1 DEF FlushOk, Delivery!Deliver, Pending
    <3> QED BY <3>1, <3>2 DEF Delivery!Next, Pending
  <2>6. CASE FlushFails(s)
    <3>1. inflight[s] \subseteq Pending /\ Pending' = Pending \ inflight[s]
      BY <2>6, SettleStep DEF FlushFails
    <3>2. PICK applied \in SUBSET inflight[s] :
            /\ written' = written \cup applied
            /\ lost' = lost \cup (inflight[s] \ applied)
      BY <2>6 DEF FlushFails
    <3>3. Delivery!Fail(inflight[s], applied)
      BY <2>6, <3>1, <3>2 DEF FlushFails, Delivery!Fail, Pending
    <3> QED BY <3>1, <3>2, <3>3 DEF Delivery!Next, Pending
  <2> QED BY <1>3, <2>1, <2>2, <2>3, <2>4, <2>5, <2>6 DEF SourceStep
<1> QED BY <1>1, <1>2, <1>3 DEF Next

\* The shared buffer with its swaps and bulk writes implements TouchDelivery: a
\* touch is settled once, and dropped only by a bulk write that raised.
THEOREM DeliveryRefined == Spec => ImplementsDelivery
<1>1. Spec => Init /\ [][Next]_vars
  BY PTL DEF Spec
<1> QED BY <1>1, DeliveryInit, DeliveryStep, RunInvariant, PTL
        DEF ImplementsDelivery, Delivery!Spec
=============================================================================
