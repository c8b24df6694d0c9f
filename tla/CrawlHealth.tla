----------------------------- MODULE CrawlHealth -----------------------------
(***************************************************************************)
(* Crawl-health state and operator alerts: at the end of a notices tick    *)
(* record_and_alert loads the stored state of every source, decides the    *)
(* transitions from what run_crawl returned, writes the new states in one  *)
(* unordered bulk write and then sends one message, which is cut at the    *)
(* length Discord takes and posted again after an error that may pass.     *)
(* Loading, writing and posting can each fail, the process can be          *)
(* redeployed between them, and a source whose coroutine raised is not     *)
(* among the results at all.  A post that failed may still have arrived.   *)
(* Ticks of one module never overlap (max_instances=1, no run_on_start).   *)
(***************************************************************************)
EXTENDS Naturals, FiniteSets

CONSTANTS
  Source,       \* sources of the run
  Threshold,    \* consecutive down ticks before the alert (3)
  MaxAttempts,  \* posts of one message at most (3)
  LinesThatFit, \* sources whose lines are within the length, however long (a dozen)
  MaxCount,     \* bound: counters saturate here, past the threshold
  FaultKind,    \* which of "crash", "load", "save", "notify", "absent" happen
  MaxFaults     \* bound on faults in a behaviour

ASSUME ThresholdAssumption == Threshold \in Nat \ {0}
ASSUME MaxCountAssumption == MaxCount \in Nat /\ MaxCount > Threshold
ASSUME MaxAttemptsAssumption == MaxAttempts \in Nat \ {0}
ASSUME LinesThatFitAssumption == LinesThatFit \in Nat \ {0}
ASSUME MaxFaultsAssumption == MaxFaults \in Nat

VARIABLES
  unreachable,  \* sources whose first list page cannot be fetched now
  health,       \* the crawl_health collection
  stage,        \* where record_and_alert is
  report,       \* what the tick's results say of each source
  prev,         \* the states load_states read
  alerts,       \* the alerts in the message that is being posted
  recoveries,   \* the recoveries in it
  attempt,      \* posts of it that have failed
  copies,       \* history: posts of it that have arrived
  seen,         \* history: posts that alerted the source in its present outage
  streak,       \* history: down reports of a source since its last up report
  told,         \* history: sources the operator last heard to be failing
  cut,          \* history: sources whose last transition was cut off its message
  faults        \* history: faults so far

vars == <<unreachable, health, stage, report, prev, alerts, recoveries, attempt,
          copies, seen, streak, told, cut, faults>>

messageVars == <<alerts, recoveries, attempt, copies>>
historyVars == <<seen, streak, told, cut>>

Stages == {"idle", "loading", "saving", "notifying"}
Reports == {"up", "down", "absent"}
State == [failures : 0 .. MaxCount, alerted : BOOLEAN]

\* A source without a document reads as {}: no failures, nothing alerted.
NoState == [failures |-> 0, alerted |-> FALSE]

TypeOK ==
  /\ unreachable \subseteq Source
  /\ health \in [Source -> State]
  /\ stage \in Stages
  /\ report \in [Source -> Reports]
  /\ prev \in [Source -> State]
  /\ alerts \subseteq Source
  /\ recoveries \subseteq Source
  /\ attempt \in 0 .. MaxAttempts - 1
  /\ copies \in 0 .. attempt
  /\ seen \in [Source -> 0 .. MaxAttempts]
  /\ streak \in [Source -> 0 .. MaxCount]
  /\ told \subseteq Source
  /\ cut \subseteq Source
  /\ faults \in 0 .. MaxFaults

Init ==
  /\ unreachable = {}
  /\ health = [s \in Source |-> NoState]
  /\ stage = "idle"
  /\ report = [s \in Source |-> "absent"]
  /\ prev = [s \in Source |-> NoState]
  /\ alerts = {}
  /\ recoveries = {}
  /\ attempt = 0
  /\ copies = 0
  /\ seen = [s \in Source |-> 0]
  /\ streak = [s \in Source |-> 0]
  /\ told = {}
  /\ cut = {}
  /\ faults = 0

Bump(n) == IF n < MaxCount THEN n + 1 ELSE n

MayFault(kind) ==
  /\ kind \in FaultKind
  /\ faults < MaxFaults
  /\ faults' = faults + 1

-----------------------------------------------------------------------------
(* decide_transitions: a pure function of the loaded states and results.   *)

\* The source crosses the threshold, or is past it and was never alerted.
NewAlerts ==
  {s \in Source : /\ report[s] = "down"
                  /\ Bump(prev[s].failures) >= Threshold
                  /\ ~prev[s].alerted}

NewRecoveries == {s \in Source : report[s] = "up" /\ prev[s].alerted}

\* Mutation: an up result leaves the failure count where it was.
NewStateKeepsCount(s) ==
  IF report[s] = "down"
  THEN [failures |-> Bump(prev[s].failures),
        alerted |-> prev[s].alerted \/ s \in NewAlerts]
  ELSE [failures |-> prev[s].failures, alerted |-> FALSE]

\* The full replacement document of a source that is in the results.
NewState(s) ==
  IF report[s] = "down"
  THEN [failures |-> Bump(prev[s].failures),
        alerted |-> prev[s].alerted \/ s \in NewAlerts]
  ELSE NoState

\* format_alert_message, as far as it fits: the lines of the alerts come first,
\* a line is cut only once the length is reached, and every post sends the same.
Fitting ==
  {named \in SUBSET (NewAlerts \cup NewRecoveries) :
     /\ \/ named = NewAlerts \cup NewRecoveries
        \/ Cardinality(named) >= LinesThatFit
     /\ named \cap NewRecoveries # {} => NewAlerts \subseteq named}

Reported == {s \in Source : report[s] # "absent"}

\* The collection after the states of `written` have been stored.
Stored(written) == [s \in Source |-> IF s \in written THEN NewState(s) ELSE health[s]]

-----------------------------------------------------------------------------

SiteChanges(s) ==
  /\ unreachable' \in {unreachable \cup {s}, unreachable \ {s}}
  /\ UNCHANGED <<health, stage, report, prev, messageVars,
                 historyVars, faults>>

\* The crawl has ended and the hook is called with its results.  A source that
\* raised has no result.
Finish(missing) ==
  /\ stage = "idle"
  /\ stage' = "loading"
  /\ report' = [s \in Source |-> IF s \in missing THEN "absent"
                                 ELSE IF s \in unreachable THEN "down" ELSE "up"]
  /\ seen' = [s \in Source |-> IF report'[s] = "up" THEN 0 ELSE seen[s]]
  /\ streak' = [s \in Source |-> IF report'[s] = "down" THEN Bump(streak[s])
                               ELSE IF report'[s] = "up" THEN 0 ELSE streak[s]]
  /\ UNCHANGED <<unreachable, health, prev, messageVars, told, cut>>

Tick == Finish({}) /\ UNCHANGED faults

TickWithRaisedSources ==
  /\ MayFault("absent")
  /\ \E missing \in SUBSET Source \ {{}} : Finish(missing)

LoadStates ==
  /\ stage = "loading"
  /\ stage' = "saving"
  /\ prev' = health
  /\ UNCHANGED <<unreachable, health, report, messageVars,
                 historyVars, faults>>

\* What is to be said is composed, or there is nothing to say.
Compose ==
  \E named \in Fitting :
    /\ alerts' = NewAlerts \cap named
    /\ recoveries' = NewRecoveries \cap named
    /\ cut' = (cut \ named) \cup ((NewAlerts \cup NewRecoveries) \ named)
    /\ stage' = IF NewAlerts \cup NewRecoveries = {} THEN "idle" ELSE "notifying"
    /\ UNCHANGED <<attempt, copies>>

\* Mutation: the states are written only when there is something to say.
SaveOkOnTransition ==
  /\ stage = "saving"
  /\ health' = IF NewAlerts \cup NewRecoveries = {} THEN health ELSE Stored(Reported)
  /\ Compose
  /\ UNCHANGED <<unreachable, report, prev, seen, streak, told, faults>>

\* Every state is written; a message follows only if there is a transition.
SaveOk ==
  /\ stage = "saving"
  /\ health' = Stored(Reported)
  /\ Compose
  /\ UNCHANGED <<unreachable, report, prev, seen, streak, told, faults>>

\* Mutation: the error of the bulk write is swallowed and the message goes out.
SaveFailsButNotifies ==
  /\ stage = "saving"
  /\ MayFault("save")
  /\ \E written \in SUBSET Reported : health' = Stored(written)
  /\ Compose
  /\ UNCHANGED <<unreachable, report, prev, seen, streak, told>>

\* The bulk write is unordered: it may have stored any part before it raised,
\* and the message is then never formatted.
SaveFails ==
  /\ stage = "saving"
  /\ MayFault("save")
  /\ \E written \in SUBSET Reported : health' = Stored(written)
  /\ stage' = "idle"
  /\ UNCHANGED <<unreachable, report, prev, messageVars, historyVars>>

\* A post reaches the channel: its alerts are seen once more.
Arrives ==
  /\ seen' = [s \in Source |-> IF s \in alerts THEN seen[s] + 1 ELSE seen[s]]
  /\ told' = (told \ recoveries) \cup alerts
  /\ UNCHANGED <<streak, cut>>

\* The hook is done with its message, or there was none.
Done ==
  /\ stage' = "idle"
  /\ alerts' = {} /\ recoveries' = {}
  /\ attempt' = 0 /\ copies' = 0

PostOk ==
  /\ stage = "notifying"
  /\ Arrives
  /\ Done
  /\ UNCHANGED <<unreachable, health, report, prev, faults>>

\* A post ends in an error that may pass, its timeout among them, and the message
\* is posted again.  The channel may have taken it all the same.
Retry ==
  /\ stage = "notifying"
  /\ attempt < MaxAttempts - 1
  /\ MayFault("notify")
  /\ \/ Arrives /\ copies' = copies + 1
     \/ UNCHANGED <<historyVars, copies>>
  /\ attempt' = attempt + 1
  /\ UNCHANGED <<unreachable, health, stage, report, prev, alerts, recoveries>>

\* The last attempt has failed, or the error will not pass, or the time is up,
\* and the notifier returns False; or the process is replaced in between.
GiveUp ==
  /\ stage = "notifying"
  /\ MayFault("notify") \/ MayFault("crash")
  /\ Arrives \/ UNCHANGED historyVars
  /\ Done
  /\ UNCHANGED <<unreachable, health, report, prev>>

\* The read raises, or the process is replaced: what was not done yet is never
\* done.
Abandon ==
  /\ \/ stage = "loading" /\ MayFault("load")
     \/ stage \in {"loading", "saving"} /\ MayFault("crash")
  /\ Done
  /\ UNCHANGED <<unreachable, health, report, prev, historyVars>>

Record == Tick \/ TickWithRaisedSources \/ LoadStates \/ SaveOk \/ PostOk

Next ==
  \/ \E s \in Source : SiteChanges(s)
  \/ Record \/ SaveFails \/ Retry \/ GiveUp \/ Abandon

\* The scheduler keeps ticking, and each await of record_and_alert ends.
Spec == Init /\ [][Next]_vars /\ WF_vars(Record)

-----------------------------------------------------------------------------

\* At most one alert message per outage, whatever write or post fails and
\* whenever the process is replaced: if a source is alerted again in one outage
\* (its down reports since the last up report), then by another post of the same
\* message, and there are no more of those than attempts.
OneMessagePerOutage ==
  [][\A s \in Source :
       seen'[s] > seen[s] => seen[s] = copies /\ seen'[s] <= MaxAttempts]_vars

\* Until something fails, the stored count is the outage's length, a source is
\* latched exactly from the threshold on, and unless its line was cut off the
\* last message about it was the alert exactly if it is latched.
LatchIsWhatOperatorKnows ==
  stage = "idle" /\ faults = 0 =>
    \A s \in Source : /\ health[s].failures = streak[s]
                      /\ health[s].alerted <=> streak[s] >= Threshold
                      /\ s \notin cut => (health[s].alerted <=> s \in told)

\* A lost message, write or process can swallow an alert but never invent one:
\* a latched source has reached the threshold in its own stored count, which
\* only down reports raise and every stored up report clears.
LatchNeedsThreshold ==
  \A s \in Source : health[s].alerted => health[s].failures >= Threshold

\* Whatever fails meanwhile, the latch ends up where the source is: an outage
\* that lasts is latched in the end, and a recovery that lasts clears the latch.
LatchFollowsSource ==
  \A s \in Source :
    /\ (<>[](s \in unreachable)) => <>[]health[s].alerted
    /\ (<>[](s \notin unreachable)) => <>[]~health[s].alerted

\* logic.py: a lost tick cannot permanently suppress the alert of an outage.
LastingOutageIsAlerted ==
  \A s \in Source :
    (<>[](s \in unreachable)) => <>[](s \in told)

=============================================================================
