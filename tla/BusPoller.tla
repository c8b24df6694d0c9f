------------------------------ MODULE BusPoller ------------------------------
(***************************************************************************)
(* One bus poller.  A tick fetches what its documents are made of, replaces *)
(* each document that was answered in full and leaves the others alone,    *)
(* then reports whether the source is down.  Two pollers remember between  *)
(* ticks since when a bus has been at a stop: the shuttle the payload it   *)
(* published last, the city bus a clock for each station.                  *)
(*                                                                         *)
(* There is one stop; stops are independent.  An instant is its age, in    *)
(* units of time against which a tick is short, and ages past the window   *)
(* are alike.                                                              *)
(***************************************************************************)
EXTENDS Naturals, SequencesExt

CONSTANTS
  Pollers,      \* the pollers, each the sequence of its documents
  Window,       \* age past which a sighting is stale (STALE_*, DWELL_EXPIRY)
  MaxBuses,     \* bound on the rows an upstream reports for the stop
  MaxSightings, \* bound on sightings
  MaxFaults     \* bound on exceptions, failing writes and restarts

\* A document, what is fetched for it, whether the upstream may say that nothing
\* is running, and what its payload remembers.
DocumentType ==
  [doc : STRING, legs : Nat \ {0}, mayRest : BOOLEAN,
   memory : {"none", "shuttle", "station"}]

ASSUME PollersAssumption ==
  \A p \in Pollers :
    /\ p \in Seq(DocumentType) /\ p # <<>>
    /\ \A i, j \in DOMAIN p : p[i].doc = p[j].doc => i = j
    \* A module has one memory: _previous in hssc, _dwell in jongro.
    /\ \A i, j \in DOMAIN p : p[i].memory = "station" => p[j].memory # "shuttle"
ASSUME BoundsAssumption == {Window, MaxBuses, MaxSightings, MaxFaults} \subseteq Nat

VARIABLES
  poller,       \* which of the pollers this is
  rows,         \* ages of the sightings that the upstream reports
  remembered,   \* ages in _previous, or in _dwell
  stored,       \* ages published in each document
  stage,        \* "idle", "fetching", "storing" or "reporting"
  at, leg,      \* the document, and the leg of it, that is being fetched
  answered,     \* the legs of documents answered with data in this tick
  errors,       \* the errors of the tick are not empty
  down,         \* source_down of the result of the tick
  fresh, quiet, \* documents written in the tick, and those said to rest
  failed,       \* history: something went wrong in the tick
  sightings, faults

tick == <<stage, at, leg, answered, errors, down, fresh, quiet, failed>>
vars == <<poller, rows, remembered, stored, tick, sightings, faults>>

Age == 0 .. Window + 1
Doc == {poller[i].doc : i \in DOMAIN poller}
LegsOf(i) == {<<poller[i].doc, l>> : l \in 1 .. poller[i].legs}
Document == poller[at]

TypeOK ==
  /\ poller \in Pollers
  /\ rows \in Seq(Age) /\ Len(rows) <= MaxBuses
  /\ remembered \in Seq(Age)
  /\ stored \in [Doc -> Seq(Age)] /\ \A d \in Doc : Len(stored[d]) <= MaxBuses
  /\ stage \in {"idle", "fetching", "storing", "reporting"}
  /\ at \in DOMAIN poller /\ leg \in 1 .. Document.legs
  /\ answered \subseteq UNION {LegsOf(i) : i \in DOMAIN poller}
  /\ {errors, down, failed} \subseteq BOOLEAN
  /\ fresh \subseteq Doc /\ quiet \subseteq Doc
  /\ sightings \in 0 .. MaxSightings /\ faults \in 0 .. MaxFaults

Init ==
  /\ poller \in Pollers
  /\ rows = <<>> /\ remembered = <<>>
  /\ stored = [d \in Doc |-> <<>>]
  /\ stage = "idle" /\ at = 1 /\ leg = 1
  /\ answered = {} /\ fresh = {} /\ quiet = {}
  /\ errors = FALSE /\ down = FALSE /\ failed = FALSE
  /\ sightings = 0 /\ faults = 0

-----------------------------------------------------------------------------
(* The buses and the clock                                                 *)

Sight(reported) ==
  /\ sightings < MaxSightings
  /\ sightings' = sightings + 1
  /\ rows' = reported
  /\ UNCHANGED <<poller, remembered, stored, tick, faults>>

Arrive == Len(rows) < MaxBuses /\ Sight(Append(rows, 0))

\* The bus is still there: the upstream reports a later time for it.
SeeAgain == \E i \in DOMAIN rows : Sight([rows EXCEPT ![i] = 0])

\* The bus has left, or other rows pushed it out of the answer.
Leave ==
  /\ \E i \in DOMAIN rows : rows' = RemoveAt(rows, i)
  /\ UNCHANGED <<poller, remembered, stored, tick, sightings, faults>>

Older(ages) == [i \in DOMAIN ages |-> Min({ages[i] + 1, Window + 1})]

TimePasses ==
  /\ stage = "idle"
  /\ rows' = Older(rows) /\ remembered' = Older(remembered)
  /\ stored' = [d \in Doc |-> Older(stored[d])]
  /\ UNCHANGED <<poller, tick, sightings, faults>>

-----------------------------------------------------------------------------
(* hssc.py and jongro.py                                                   *)

Stale(age) == age > Window

\* What is not too old, in its order.
Timely(ages) ==
  LET kept == {i \in DOMAIN ages : ~Stale(ages[i])}
      place(i) == Cardinality({j \in kept : j < i})
  IN [k \in 1 .. Cardinality(kept) |-> ages[CHOOSE i \in kept : place(i) = k - 1]]

\* Mutation: a bus that the upstream keeps pinned is published for ever.
ShuttleUnfiltered ==
  IF remembered = <<>> THEN rows ELSE [i \in DOMAIN rows |-> remembered[1]]

\* The first row of the payload published last is carried over to every row of
\* the same line and stop; what is then too old is dropped.
Shuttle ==
  LET carried == IF remembered = <<>> THEN rows
                 ELSE [i \in DOMAIN rows |-> remembered[1]]
  IN Timely(carried)

\* Mutation: the clock stops when no bus is seen.
StationClockOfSeen ==
  IF rows = <<>> THEN <<>>
  ELSE IF \E i \in DOMAIN remembered : ~Stale(remembered[i]) THEN remembered
  ELSE <<0>>

\* The clock of the station starts when a bus is first seen there, and anew with
\* the next bus once it has expired; it runs on when the bus leaves.
StationClock ==
  IF rows = <<>> \/ \E i \in DOMAIN remembered : ~Stale(remembered[i])
    THEN remembered
    ELSE <<0>>

Payload ==
  CASE Document.memory = "shuttle" -> Shuttle
    [] Document.memory = "station" -> [i \in DOMAIN rows |-> StationClock[1]]
    [] OTHER -> <<>>

Remember ==
  remembered' = CASE Document.memory = "shuttle" -> Shuttle
                  [] Document.memory = "station" -> StationClock
                  [] OTHER -> remembered

-----------------------------------------------------------------------------
(* module.py                                                               *)

BeginTick ==
  /\ stage = "idle"
  /\ stage' = "fetching" /\ at' = 1 /\ leg' = 1
  /\ answered' = {} /\ fresh' = {} /\ quiet' = {}
  /\ errors' = FALSE /\ down' = FALSE /\ failed' = FALSE
  /\ UNCHANGED <<poller, rows, remembered, stored, sightings, faults>>

\* Mutation: one document too many.
NextDocumentBeyond ==
  IF at <= Len(poller)
    THEN stage' = "fetching" /\ at' = at + 1 /\ leg' = 1 /\ down' = down
    ELSE stage' = "reporting" /\ down' = errors' /\ UNCHANGED <<at, leg>>

\* The next document, or the end of the tick.
NextDocument ==
  IF at < Len(poller)
    THEN stage' = "fetching" /\ at' = at + 1 /\ leg' = 1 /\ down' = down
    ELSE stage' = "reporting" /\ down' = errors' /\ UNCHANGED <<at, leg>>

\* Every leg of the document was answered with data.
Complete(legs) == LegsOf(at) \subseteq legs

\* The next leg; after the last one the document is written if it is complete.
NextLeg ==
  IF leg < Document.legs
    THEN leg' = leg + 1 /\ UNCHANGED <<stage, at, down>>
  ELSE IF Complete(answered')
    THEN stage' = "storing" /\ UNCHANGED <<at, leg, down>>
  ELSE NextDocument

AnswerData ==
  /\ stage = "fetching"
  /\ answered' = answered \cup {<<Document.doc, leg>>}
  /\ errors' = errors
  /\ NextLeg
  /\ UNCHANGED <<poller, rows, remembered, stored, fresh, quiet, failed,
                 sightings, faults>>

\* The upstream says that nothing is running (headerCd 4).
AnswerRest ==
  /\ stage = "fetching" /\ Document.mayRest
  /\ quiet' = quiet \cup {Document.doc}
  /\ errors' = errors
  /\ NextDocument
  /\ UNCHANGED <<poller, rows, remembered, stored, answered, fresh, failed,
                 sightings, faults>>

\* No answer, an unusable one, an error code, or success without a body.
AnswerFails ==
  /\ stage = "fetching"
  /\ errors' = TRUE /\ failed' = TRUE
  /\ answered' = answered
  /\ NextLeg
  /\ UNCHANGED <<poller, rows, remembered, stored, fresh, quiet, sightings, faults>>

\* SnapshotSink replaces the document; what is remembered is set before that.
Store ==
  /\ stage = "storing"
  /\ Remember
  /\ stored' = [stored EXCEPT ![Document.doc] = Payload]
  /\ fresh' = fresh \cup {Document.doc}
  /\ errors' = errors
  /\ NextDocument
  /\ UNCHANGED <<poller, rows, answered, quiet, failed, sightings, faults>>

MayFault == faults < MaxFaults /\ faults' = faults + 1

\* Mutation: what the tick raises is only logged.
AbortLogged ==
  /\ stage' = "reporting" /\ failed' = TRUE /\ down' = down
  /\ UNCHANGED <<at, leg, answered, errors, fresh, quiet>>

\* The broad except of run: whatever was raised, the tick counts as down, and
\* the documents behind this one are not fetched.
Abort ==
  /\ stage' = "reporting" /\ failed' = TRUE /\ down' = TRUE
  /\ UNCHANGED <<at, leg, answered, errors, fresh, quiet>>

\* The write raises, though it may have been applied.
StoreFails ==
  /\ stage = "storing"
  /\ MayFault
  /\ Remember
  /\ stored' \in {stored, [stored EXCEPT ![Document.doc] = Payload]}
  /\ Abort
  /\ UNCHANGED <<poller, rows, sightings>>

\* An answer of a shape that no parser foresaw.
ParserRaises ==
  /\ stage = "fetching"
  /\ MayFault
  /\ Abort
  /\ UNCHANGED <<poller, rows, remembered, stored, sightings>>

Report ==
  /\ stage = "reporting"
  /\ stage' = "idle"
  /\ UNCHANGED <<poller, rows, remembered, stored, at, leg, answered, errors, down,
                 fresh, quiet, failed, sightings, faults>>

\* What is remembered is lost; the documents stand.
Restart ==
  /\ MayFault
  /\ stage' = "idle"
  /\ remembered' = <<>>
  /\ UNCHANGED <<poller, rows, stored, at, leg, answered, errors, down, fresh, quiet,
                 failed, sightings>>

Poll ==
  \/ BeginTick \/ AnswerData \/ AnswerRest \/ AnswerFails
  \/ Store \/ StoreFails \/ ParserRaises \/ Report

Next == Poll \/ Arrive \/ SeeAgain \/ Leave \/ TimePasses \/ Restart

\* The interval trigger keeps firing, every request ends (it has a timeout), and
\* time passes.  Nothing is assumed of what upstreams answer.
Spec == Init /\ [][Next]_vars /\ WF_vars(Poll) /\ SF_vars(TimePasses)

-----------------------------------------------------------------------------

\* A tick reported as up accounts for every document: it was written in the tick,
\* or its upstream said that nothing is running.  No document goes stale behind
\* another's failure without the source being down.
UpMeansAccountedFor ==
  stage = "reporting" /\ ~down => Doc \subseteq fresh \cup quiet

\* A source is reported down only when something failed: never because nothing
\* is running at night.
DownMeansFailure == stage = "reporting" /\ down => failed

\* A document is replaced only by answers to all its legs within one tick.
NoHalfDocument ==
  \A i \in DOMAIN poller : poller[i].doc \in fresh => LegsOf(i) \subseteq answered

\* The clock of a station outlives failing ticks, empty answers and the departure
\* of its bus: it starts anew only past its expiry, or in a new process.
DwellOutlivesOutages ==
  [][ (\E i \in DOMAIN poller : poller[i].memory = "station")
      /\ remembered # <<>> /\ ~Stale(remembered[1])
      => \/ remembered' # <<>> /\ remembered'[1] >= remembered[1]
         \/ Restart ]_vars

Remembers(memory) == \E i \in DOMAIN poller : poller[i].memory = memory
Shown == UNION {ToSet(stored[d]) : d \in Doc}

\* The upstream of the shuttle pins its last rows for ever.  As long as it keeps
\* answering, the end of service is published all the same: no bus is shown for
\* good once none is sighted any more.
ServiceEndIsPublished ==
  Remembers("shuttle") /\ []<><<Store>>_vars => <>[](Shown = {})

=============================================================================
