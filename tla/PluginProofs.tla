----------------------------- MODULE PluginProofs -----------------------------
(***************************************************************************)
(* Proofs about the two plugins that follow a crawl.  CrawlHealth, for any *)
(* sources, threshold, attempts and faults of any kind: an outage is       *)
(* alerted by one message at most, and a latched source has reached the    *)
(* threshold.                                                              *)
(* AiSummary, for any notices, batch size and retries: a summary that      *)
(* looks fresh is of the stored text unless its hash came without a text,  *)
(* and failures of a notice are bounded although batches overlap.  The two *)
(* share no state.                                                         *)
(***************************************************************************)
EXTENDS CrawlHealth, AiSummary, FiniteSetTheorems, TLAPS

\* What an alerted outage leaves behind in the collection.
SeenAreLatched == \A s \in Source : seen[s] > 0 => health[s].alerted

\* Nothing but the running tick writes the collection between its read and its
\* write, because ticks do not overlap.
SavingReadTheStore == stage = "saving" => prev = health

\* An up report has closed the outage before its state is written.
UpClosesOutage ==
  stage \in {"loading", "saving"} =>
    \A s \in Source : report[s] = "up" => seen[s] = 0

\* The sources of the message in hand are latched, and have been seen in its own
\* copies only.
PendingAlertsAreNew ==
  IF stage = "notifying"
  THEN \A s \in alerts : seen[s] = copies /\ health[s].alerted
  ELSE attempt = 0 /\ copies = 0

\* The inductive invariant.
HealthInv ==
  /\ TypeOK
  /\ SeenAreLatched
  /\ SavingReadTheStore
  /\ UpClosesOutage
  /\ PendingAlertsAreNew
  /\ LatchNeedsThreshold

-----------------------------------------------------------------------------

\* A saturating counter stays in its range, and never passes a threshold
\* downwards.
LEMMA BumpBounds ==
  ASSUME NEW n \in 0 .. MaxCount
  PROVE  /\ Bump(n) \in 0 .. MaxCount
         /\ n >= Threshold => Bump(n) >= Threshold
BY ThresholdAssumption, MaxCountAssumption DEF Bump

\* decide_transitions stores a well-formed state that is latched only past the
\* threshold, and stays latched while the source is not reported up.
LEMMA NewStateFacts ==
  ASSUME HealthInv, stage = "saving", NEW s \in Source
  PROVE  /\ NewState(s) \in State
         /\ NewState(s).alerted => NewState(s).failures >= Threshold
         /\ report[s] = "down" /\ health[s].alerted => NewState(s).alerted
         /\ s \in NewAlerts => NewState(s).alerted /\ ~health[s].alerted
<1>1. /\ prev[s] \in State
      /\ prev[s] = health[s]
      /\ prev[s].alerted => prev[s].failures >= Threshold
  BY DEF HealthInv, TypeOK, SavingReadTheStore, LatchNeedsThreshold
<1>2. prev[s].failures \in 0 .. MaxCount /\ prev[s].alerted \in BOOLEAN
  BY <1>1 DEF State
<1>3. /\ Bump(prev[s].failures) \in 0 .. MaxCount
      /\ prev[s].failures >= Threshold => Bump(prev[s].failures) >= Threshold
  BY <1>2, BumpBounds
<1>4. NoState \in State /\ ~NoState.alerted
  BY MaxCountAssumption DEF NoState, State
<1>5. CASE report[s] # "down"
  <2>1. NewState(s) = NoState
    BY <1>5 DEF NewState
  <2>2. s \notin NewAlerts
    BY <1>5 DEF NewAlerts
  <2> QED BY <1>4, <1>5, <2>1, <2>2
<1>6. CASE report[s] = "down"
  <2> DEFINE latch == prev[s].alerted \/ s \in NewAlerts
  <2>1. NewState(s) = [failures |-> Bump(prev[s].failures), alerted |-> latch]
    BY <1>6 DEF NewState
  <2>2. s \in NewAlerts =>
          Bump(prev[s].failures) >= Threshold /\ ~prev[s].alerted
    BY DEF NewAlerts
  <2>3. latch \in BOOLEAN
    BY <1>2
  <2> HIDE DEF latch
  <2>4. NewState(s).alerted = latch /\ NewState(s).failures = Bump(prev[s].failures)
    BY <2>1
  <2>5. NewState(s) \in State
    BY <1>3, <2>1, <2>3 DEF State
  <2> QED BY <1>1, <1>3, <2>2, <2>4, <2>5 DEF latch
<1> QED BY <1>5, <1>6

\* Any part of the bulk write leaves the collection in order: every latch it
\* sets is past the threshold, and no outage that was alerted loses its latch.
LEMMA StoredFacts ==
  ASSUME HealthInv, stage = "saving", NEW written \in SUBSET Reported
  PROVE  /\ Stored(written) \in [Source -> State]
         /\ \A s \in Source : Stored(written)[s].alerted =>
                                Stored(written)[s].failures >= Threshold
         /\ \A s \in Source : seen[s] > 0 => Stored(written)[s].alerted
<1>1. /\ health \in [Source -> State] /\ seen \in [Source -> 0 .. MaxAttempts]
      /\ report \in [Source -> Reports]
  BY DEF HealthInv, TypeOK
<1>2. \A s \in Source :
        Stored(written)[s] = IF s \in written THEN NewState(s) ELSE health[s]
  BY DEF Stored
<1>3. Stored(written) \in [Source -> State]
  BY <1>1, NewStateFacts DEF Stored
<1>4. ASSUME NEW s \in Source, Stored(written)[s].alerted
      PROVE  Stored(written)[s].failures >= Threshold
  BY <1>2, <1>4, NewStateFacts DEF HealthInv, LatchNeedsThreshold
<1>5. ASSUME NEW s \in Source, seen[s] > 0
      PROVE  Stored(written)[s].alerted
  <2>1. health[s].alerted /\ report[s] # "up"
    BY <1>1, <1>5 DEF HealthInv, SeenAreLatched, UpClosesOutage
  <2>2. s \in written => report[s] = "down"
    BY <1>1, <2>1 DEF Reported, Reports
  <2> QED BY <1>2, <2>1, <2>2, NewStateFacts
<1> QED BY <1>3, <1>4, <1>5

-----------------------------------------------------------------------------

\* No source is known and no message in preparation.
LEMMA HealthInit == Init => HealthInv
<1> SUFFICES ASSUME Init PROVE HealthInv
  OBVIOUS
<1>1. NoState \in State /\ ~NoState.alerted
  BY MaxCountAssumption DEF NoState, State
<1>2. TypeOK
  BY <1>1, MaxCountAssumption, MaxFaultsAssumption, MaxAttemptsAssumption
     DEF Init, TypeOK, Stages, Reports
<1>3. LatchNeedsThreshold
  BY <1>1 DEF Init, LatchNeedsThreshold
<1> QED BY <1>2, <1>3 DEF Init, HealthInv, SeenAreLatched,
          SavingReadTheStore, UpClosesOutage, PendingAlertsAreNew

\* The hook is called: only the report and the history of it change.
LEMMA FinishKeeps ==
  ASSUME HealthInv, NEW missing \in SUBSET Source, Finish(missing),
         faults' \in 0 .. MaxFaults
  PROVE  HealthInv'
<1> USE DEF HealthInv
<1>1. TypeOK'
  <2>1. report' \in [Source -> Reports]
    BY DEF Finish, Reports
  <2>2. streak' \in [Source -> 0 .. MaxCount]
    <3>1. \A s \in Source : Bump(streak[s]) \in 0 .. MaxCount /\ streak[s] \in 0 .. MaxCount
      BY BumpBounds DEF TypeOK
    <3>2. \A s \in Source :
            (IF report'[s] = "down" THEN Bump(streak[s])
             ELSE IF report'[s] = "up" THEN 0 ELSE streak[s]) \in 0 .. MaxCount
      BY <3>1, MaxCountAssumption
    <3> QED BY <3>2 DEF Finish
  <2>3. seen' \in [Source -> 0 .. MaxAttempts]
    BY MaxAttemptsAssumption DEF Finish, TypeOK
  <2> QED BY <2>1, <2>2, <2>3 DEF TypeOK, Finish, Stages, messageVars
<1>2. SeenAreLatched'
  BY DEF SeenAreLatched, Finish
<1>3. SavingReadTheStore' /\ PendingAlertsAreNew'
  BY DEF SavingReadTheStore, PendingAlertsAreNew, Finish, messageVars
<1>4. UpClosesOutage'
  BY DEF UpClosesOutage, Finish
<1>5. LatchNeedsThreshold'
  BY DEF LatchNeedsThreshold, Finish
<1> QED BY <1>1, <1>2, <1>3, <1>4, <1>5

\* The bulk write, whole or part: what it leaves is latched as it should be,
\* and what it decided to announce was not seen before.
LEMMA SaveKeeps ==
  ASSUME HealthInv, stage = "saving", NEW written \in SUBSET Reported,
         health' = Stored(written),
         stage' \in {"idle", "notifying"},
         alerts' \in SUBSET Source, recoveries' \in SUBSET Source, cut' \in SUBSET Source,
         stage' = "notifying" => alerts' \subseteq NewAlerts /\ written = Reported,
         faults' \in 0 .. MaxFaults,
         UNCHANGED <<unreachable, report, prev, attempt, copies, seen, streak, told>>
  PROVE  HealthInv'
<1> USE DEF HealthInv
<1>1. TypeOK'
  BY StoredFacts DEF TypeOK, Stages, Reported
<1>2. SeenAreLatched' /\ LatchNeedsThreshold'
  BY StoredFacts DEF SeenAreLatched, LatchNeedsThreshold
<1>3. SavingReadTheStore' /\ UpClosesOutage'
  BY DEF SavingReadTheStore, UpClosesOutage
<1>4. PendingAlertsAreNew'
  <2>0. attempt = 0 /\ copies = 0
    BY DEF PendingAlertsAreNew
  <2> SUFFICES ASSUME stage' = "notifying", NEW s \in alerts'
               PROVE  seen'[s] = 0 /\ health'[s].alerted
    BY <2>0 DEF PendingAlertsAreNew
  <2>1. s \in Source /\ s \in NewAlerts /\ s \in written
    BY DEF NewAlerts, Reported
  <2>2. NewState(s).alerted /\ ~health[s].alerted
    BY <2>1, NewStateFacts
  <2>3. health'[s] = NewState(s)
    BY <2>1 DEF Stored
  <2>4. seen[s] \in 0 .. MaxAttempts /\ ~(seen[s] > 0)
    BY <2>1, <2>2 DEF SeenAreLatched, TypeOK
  <2> QED BY <2>2, <2>3, <2>4
<1> QED BY <1>1, <1>2, <1>3, <1>4

\* What a tick has to say is of sources, and no more than what fits is sent.
LEMMA ComposeFacts ==
  ASSUME Compose, TypeOK
  PROVE  /\ alerts' \subseteq NewAlerts /\ alerts' \in SUBSET Source
         /\ recoveries' \in SUBSET Source /\ cut' \in SUBSET Source
         /\ stage' \in {"idle", "notifying"} /\ UNCHANGED <<attempt, copies>>
BY DEF Compose, TypeOK, NewAlerts, NewRecoveries

\* A post that arrives is one more copy of the message in hand.
LEMMA ArrivesFacts ==
  ASSUME HealthInv, stage = "notifying", Arrives
  PROVE  /\ seen' \in [Source -> 0 .. MaxAttempts] /\ told' \in SUBSET Source
         /\ UNCHANGED <<streak, cut>>
         /\ \A s \in Source : seen'[s] > 0 => health[s].alerted
         /\ \A s \in Source : /\ s \in alerts => seen'[s] = copies + 1
                              /\ s \notin alerts => seen'[s] = seen[s]
<1>1. /\ seen \in [Source -> 0 .. MaxAttempts] /\ alerts \subseteq Source
      /\ told \in SUBSET Source
      /\ attempt \in 0 .. MaxAttempts - 1 /\ copies \in 0 .. attempt
      /\ \A s \in alerts : seen[s] = copies /\ health[s].alerted
  BY DEF HealthInv, TypeOK, PendingAlertsAreNew
<1>2. copies + 1 \in 0 .. MaxAttempts
  BY <1>1, MaxAttemptsAssumption
<1>3. ASSUME NEW s \in Source
      PROVE  /\ s \in alerts => seen'[s] = copies + 1 /\ health[s].alerted
             /\ s \notin alerts => seen'[s] = seen[s]
             /\ seen'[s] \in 0 .. MaxAttempts
  BY <1>1, <1>2 DEF Arrives
<1>4. seen' \in [Source -> 0 .. MaxAttempts]
  BY <1>3 DEF Arrives
<1>5. told' \in SUBSET Source /\ UNCHANGED <<streak, cut>>
  BY <1>1 DEF Arrives
<1>6. \A s \in Source : seen'[s] > 0 => health[s].alerted
  BY <1>3 DEF HealthInv, SeenAreLatched
<1> QED BY <1>3, <1>4, <1>5, <1>6

\* The hook ends, with or without a last copy of its message.
LEMMA DoneKeeps ==
  ASSUME HealthInv, Done, faults' \in 0 .. MaxFaults,
         UNCHANGED <<unreachable, health, report, prev>>,
         (stage = "notifying" /\ Arrives) \/ UNCHANGED historyVars
  PROVE  HealthInv'
<1>1. /\ seen' \in [Source -> 0 .. MaxAttempts] /\ told' \in SUBSET Source
      /\ UNCHANGED <<streak, cut>>
      /\ \A s \in Source : seen'[s] > 0 => health[s].alerted
  BY ArrivesFacts DEF historyVars, HealthInv, TypeOK, SeenAreLatched
<1>2. TypeOK'
  BY <1>1, MaxAttemptsAssumption DEF HealthInv, TypeOK, Done, Stages
<1> QED
  BY <1>1, <1>2 DEF HealthInv, Done, SeenAreLatched, SavingReadTheStore, UpClosesOutage,
     PendingAlertsAreNew, LatchNeedsThreshold

\* The message is posted again, after a post that may have arrived.
LEMMA RetryKeeps ==
  ASSUME HealthInv, Retry, faults' \in 0 .. MaxFaults
  PROVE  HealthInv'
<1>1. /\ stage = "notifying" /\ attempt < MaxAttempts - 1 /\ attempt' = attempt + 1
      /\ UNCHANGED <<unreachable, health, stage, report, prev, alerts, recoveries>>
  BY DEF Retry
<1>2. /\ attempt \in 0 .. MaxAttempts - 1 /\ copies \in 0 .. attempt
      /\ \A s \in alerts : seen[s] = copies /\ health[s].alerted
      /\ alerts \subseteq Source
  BY <1>1 DEF HealthInv, TypeOK, PendingAlertsAreNew
<1>3. /\ seen' \in [Source -> 0 .. MaxAttempts] /\ told' \in SUBSET Source
      /\ UNCHANGED <<streak, cut>> /\ copies' \in {copies, copies + 1}
      /\ \A s \in Source : seen'[s] > 0 => health[s].alerted
      /\ \A s \in alerts : seen'[s] = copies'
  <2>1. CASE Arrives /\ copies' = copies + 1
    BY <1>1, <1>2, <2>1, ArrivesFacts
  <2>2. CASE UNCHANGED <<historyVars, copies>>
    BY <1>2, <2>2 DEF historyVars, HealthInv, TypeOK, SeenAreLatched
  <2> QED BY <2>1, <2>2 DEF Retry
<1>4. attempt' \in 0 .. MaxAttempts - 1 /\ copies' \in 0 .. attempt'
  BY <1>1, <1>2, <1>3, MaxAttemptsAssumption
<1>5. TypeOK'
  BY <1>1, <1>3, <1>4 DEF HealthInv, TypeOK
<1> QED
  BY <1>1, <1>2, <1>3, <1>5 DEF HealthInv, SeenAreLatched, SavingReadTheStore,
     UpClosesOutage, PendingAlertsAreNew, LatchNeedsThreshold

\* Every step keeps the invariant.
LEMMA HealthStep == HealthInv /\ [Next]_vars => HealthInv'
<1> SUFFICES ASSUME HealthInv, [Next]_vars PROVE HealthInv'
  OBVIOUS
<1>0. faults \in 0 .. MaxFaults /\ TypeOK
  BY DEF HealthInv, TypeOK
<1>f. ASSUME NEW kind, MayFault(kind) PROVE faults' \in 0 .. MaxFaults
  BY <1>0, <1>f, MaxFaultsAssumption DEF MayFault
<1>1. CASE \E s \in Source : SiteChanges(s)
  BY <1>1 DEF SiteChanges, HealthInv, TypeOK, SeenAreLatched,
     SavingReadTheStore, UpClosesOutage, PendingAlertsAreNew,
     LatchNeedsThreshold, messageVars, historyVars
<1>2. CASE Tick
  BY <1>0, <1>2, FinishKeeps DEF Tick
<1>3. CASE TickWithRaisedSources
  BY <1>3, <1>f, FinishKeeps DEF TickWithRaisedSources
<1>4. CASE LoadStates
  BY <1>4 DEF LoadStates, HealthInv, TypeOK, Stages, SeenAreLatched,
     SavingReadTheStore, UpClosesOutage, PendingAlertsAreNew,
     LatchNeedsThreshold, messageVars, historyVars
<1>5. CASE SaveOk
  <2>1. /\ stage = "saving" /\ health' = Stored(Reported) /\ Compose
        /\ faults' \in 0 .. MaxFaults
        /\ UNCHANGED <<unreachable, report, prev, seen, streak, told>>
    BY <1>0, <1>5 DEF SaveOk
  <2> QED BY <1>0, <2>1, ComposeFacts, SaveKeeps
<1>6. CASE SaveFails
  <2>1. alerts \in SUBSET Source /\ recoveries \in SUBSET Source /\ cut \in SUBSET Source
    BY DEF HealthInv, TypeOK
  <2>2. faults' \in 0 .. MaxFaults
    BY <1>6, <1>f DEF SaveFails
  <2> QED BY <1>6, <2>1, <2>2, SaveKeeps DEF SaveFails, messageVars, historyVars
<1>7. CASE PostOk
  BY <1>0, <1>7, DoneKeeps DEF PostOk
<1>8. CASE Retry
  BY <1>8, <1>f, RetryKeeps DEF Retry
<1>9. CASE GiveUp
  BY <1>9, <1>f, DoneKeeps DEF GiveUp
<1>10. CASE Abandon
  BY <1>10, <1>f, DoneKeeps DEF Abandon
<1>11. CASE UNCHANGED vars
  BY <1>11 DEF vars, HealthInv, TypeOK, SeenAreLatched, SavingReadTheStore,
     UpClosesOutage, PendingAlertsAreNew, LatchNeedsThreshold, NewAlerts, Reported
<1> QED BY <1>1, <1>2, <1>3, <1>4, <1>5, <1>6, <1>7, <1>8, <1>9, <1>10, <1>11 DEF Next, Record

\* The strengthening is an invariant of record_and_alert.
THEOREM HealthInvariant == Spec => []HealthInv
BY HealthInit, HealthStep, PTL DEF Spec

\* Every variable keeps its type, whatever fails and whenever the process is
\* replaced: counters stay in range and stored documents are whole.
THEOREM TypeCorrect == Spec => []TypeOK
<1>1. HealthInv => TypeOK
  BY DEF HealthInv
<1> QED BY <1>1, HealthInvariant, PTL

\* A source is latched in crawl_health only past the threshold.
THEOREM LatchSafety == Spec => []LatchNeedsThreshold
<1>1. HealthInv => LatchNeedsThreshold
  BY DEF HealthInv
<1> QED BY <1>1, HealthInvariant, PTL

\* A source is seen once more only in a copy of the message in hand.
LEMMA SeenStep ==
  ASSUME HealthInv, [Next]_vars, NEW s \in Source, seen'[s] > seen[s]
  PROVE  seen[s] = copies /\ seen'[s] <= MaxAttempts
<1>1. seen \in [Source -> 0 .. MaxAttempts]
  BY DEF HealthInv, TypeOK
<1>2. ~(UNCHANGED historyVars) /\ seen' # seen
  BY <1>1 DEF historyVars
<1>3. ~ \E missing : Finish(missing)
  BY <1>1 DEF Finish
<1>4. stage = "notifying" /\ Arrives
  BY <1>2, <1>3 DEF Next, Record, SiteChanges, Tick, TickWithRaisedSources, LoadStates, SaveOk,
     SaveFails, PostOk, Retry, GiveUp, Abandon, vars
<1>5. s \in alerts
  BY <1>1, <1>4, ArrivesFacts
<1> QED
  BY <1>1, <1>4, <1>5, ArrivesFacts, MaxAttemptsAssumption DEF HealthInv, PendingAlertsAreNew

\* record_and_alert alerts an outage by one message at most, posted no more often
\* than its attempts, with any failed read, partial write, post that fails or
\* arrives late, or replaced process in between.
THEOREM AlertSafety == Spec => OneMessagePerOutage
<1>1. HealthInv /\ [Next]_vars =>
        [\A s \in Source :
           seen'[s] > seen[s] => seen[s] = copies /\ seen'[s] <= MaxAttempts]_vars
  BY SeenStep
<1> QED BY <1>1, HealthInvariant, PTL DEF Spec, OneMessagePerOutage

-----------------------------------------------------------------------------

\* What the operator was told, the latch and the count of each source, step by
\* step of a tick, until something fails.
BeforeTheWrite ==
  \A s \in Source : /\ s \notin cut => (health[s].alerted <=> s \in told)
                    /\ health[s].alerted <=> health[s].failures >= Threshold
                    /\ report[s] = "down" => streak[s] = Bump(health[s].failures)
                    /\ report[s] = "up" => streak[s] = 0

AfterTheWrite ==
  \A s \in Source : /\ health[s].failures = streak[s]
                    /\ health[s].alerted <=> streak[s] >= Threshold
                    /\ s \notin cut =>
                         (health[s].alerted <=> s \in (told \ recoveries) \cup alerts)

LatchInv ==
  /\ LatchIsWhatOperatorKnows
  /\ faults = 0 =>
       /\ stage # "idle" => \A s \in Source : report[s] \in {"up", "down"}
       /\ stage \in {"loading", "saving"} => BeforeTheWrite
       /\ stage = "notifying" => AfterTheWrite

\* Nothing has failed and nothing is latched.
LEMMA LatchInit == Init => LatchInv
BY ThresholdAssumption DEF Init, LatchInv, LatchIsWhatOperatorKnows, NoState

\* The write keeps the count and the latch in step with the outage, and it is the
\* transitions that move the latch.
LEMMA WriteFacts ==
  ASSUME HealthInv, BeforeTheWrite, stage = "saving", NEW s \in Source,
         report[s] \in {"up", "down"}
  PROVE  /\ NewState(s).failures = streak[s]
         /\ NewState(s).alerted <=> streak[s] >= Threshold
         /\ s \in NewAlerts => NewState(s).alerted /\ s \notin NewRecoveries
         /\ s \in NewRecoveries => ~NewState(s).alerted /\ s \notin NewAlerts
         /\ s \notin NewAlerts \cup NewRecoveries =>
              (NewState(s).alerted <=> health[s].alerted)
<1>1. /\ prev[s] = health[s] /\ prev[s].alerted \in BOOLEAN
      /\ prev[s].failures \in 0 .. MaxCount
  BY DEF HealthInv, TypeOK, SavingReadTheStore, State
<1>2. CASE report[s] = "up"
  <2>1. NewState(s) = NoState /\ streak[s] = 0 /\ s \notin NewAlerts
    BY <1>2 DEF NewState, BeforeTheWrite, NewAlerts
  <2>2. s \in NewRecoveries <=> health[s].alerted
    BY <1>1, <1>2 DEF NewRecoveries
  <2> QED
    BY <2>1, <2>2, ThresholdAssumption DEF NoState
<1>3. CASE report[s] = "down"
  <2> DEFINE count == Bump(prev[s].failures)
             latch == prev[s].alerted \/ s \in NewAlerts
  <2>1. NewState(s) = [failures |-> count, alerted |-> latch]
    BY <1>3 DEF NewState
  <2>2. streak[s] = count /\ s \notin NewRecoveries
    BY <1>1, <1>3 DEF BeforeTheWrite, NewRecoveries
  <2>3. s \in NewAlerts <=> count >= Threshold /\ ~prev[s].alerted
    BY <1>3 DEF NewAlerts
  <2>4. prev[s].alerted => count >= Threshold
    BY <1>1, BumpBounds DEF BeforeTheWrite
  <2> HIDE DEF count, latch
  <2>5. NewState(s).failures = count /\ NewState(s).alerted = latch
    BY <2>1
  <2>6. latch <=> count >= Threshold
    BY <2>3, <2>4 DEF latch
  <2>7. /\ s \in NewAlerts => latch
        /\ s \notin NewAlerts => (latch <=> health[s].alerted)
    BY <1>1 DEF latch
  <2> QED
    BY <2>2, <2>5, <2>6, <2>7
<1> QED
  BY <1>2, <1>3

\* Every step keeps what the operator knows.
LEMMA LatchStep == HealthInv /\ LatchInv /\ [Next]_vars => LatchInv'
<1> SUFFICES ASSUME HealthInv, LatchInv, [Next]_vars, faults' = 0
             PROVE  LatchInv'
  BY DEF LatchInv, LatchIsWhatOperatorKnows
<1>0. faults \in Nat
  BY DEF HealthInv, TypeOK
<1>f. ASSUME NEW kind, MayFault(kind) PROVE FALSE
  BY <1>0, <1>f DEF MayFault
<1>1. CASE \E s \in Source : SiteChanges(s)
  BY <1>1 DEF SiteChanges, LatchInv, LatchIsWhatOperatorKnows, BeforeTheWrite, AfterTheWrite,
     messageVars, historyVars
<1>2. CASE Tick
  <2>1. /\ stage = "idle" /\ stage' = "loading" /\ faults = 0
        /\ UNCHANGED <<health, told, cut>>
        /\ \A s \in Source : report'[s] \in {"up", "down"}
        /\ \A s \in Source : streak'[s] = IF report'[s] = "down" THEN Bump(streak[s]) ELSE 0
    BY <1>2 DEF Tick, Finish
  <2>2. BeforeTheWrite'
    BY <2>1 DEF LatchInv, LatchIsWhatOperatorKnows, BeforeTheWrite, Bump
  <2> QED
    BY <2>1, <2>2 DEF LatchInv, LatchIsWhatOperatorKnows
<1>3. CASE LoadStates
  BY <1>3 DEF LoadStates, LatchInv, LatchIsWhatOperatorKnows, BeforeTheWrite, messageVars,
     historyVars
<1>4. CASE SaveOk
  <2>1. /\ stage = "saving" /\ faults = 0 /\ BeforeTheWrite
        /\ \A s \in Source : report[s] \in {"up", "down"}
        /\ UNCHANGED <<report, streak, told>>
    BY <1>4 DEF SaveOk, LatchInv
  <2>2. ASSUME NEW s \in Source
        PROVE  health'[s] = NewState(s)
    BY <1>4, <2>1 DEF SaveOk, Stored, Reported
  <2>3. PICK named \in Fitting :
          /\ alerts' = NewAlerts \cap named /\ recoveries' = NewRecoveries \cap named
          /\ cut' = (cut \ named) \cup ((NewAlerts \cup NewRecoveries) \ named)
          /\ stage' = IF NewAlerts \cup NewRecoveries = {} THEN "idle" ELSE "notifying"
    BY <1>4 DEF SaveOk, Compose
  <2>4. ASSUME NEW s \in Source, s \notin cut'
        PROVE  health'[s].alerted <=> s \in (told' \ recoveries') \cup alerts'
    <3>1. CASE s \in named
      <4>1. s \in NewAlerts \/ s \in NewRecoveries
        BY <3>1 DEF Fitting
      <4> QED
        BY <2>1, <2>2, <2>3, <3>1, <4>1, WriteFacts
    <3>2. CASE s \notin named
      <4>1. s \notin cut /\ s \notin NewAlerts \cup NewRecoveries
        BY <2>3, <2>4, <3>2
      <4>2. NewState(s).alerted <=> s \in told
        BY <2>1, <4>1, WriteFacts DEF BeforeTheWrite
      <4> QED
        BY <2>1, <2>2, <2>3, <4>1, <4>2
    <3> QED
      BY <3>1, <3>2
  <2>5. AfterTheWrite'
    BY <2>1, <2>2, <2>4, WriteFacts DEF AfterTheWrite
  <2>6. CASE stage' = "notifying"
    BY <2>1, <2>5, <2>6 DEF LatchInv, LatchIsWhatOperatorKnows
  <2>7. CASE stage' = "idle"
    <3>1. alerts' = {} /\ recoveries' = {}
      BY <2>3, <2>7
    <3> QED
      BY <2>5, <2>7, <3>1 DEF LatchInv, LatchIsWhatOperatorKnows, AfterTheWrite
  <2> QED
    BY <2>3, <2>6, <2>7
<1>5. CASE PostOk
  <2>1. /\ stage = "notifying" /\ faults = 0 /\ stage' = "idle"
        /\ told' = (told \ recoveries) \cup alerts
        /\ UNCHANGED <<health, streak, cut>>
    BY <1>5 DEF PostOk, Arrives, Done
  <2> QED
    BY <2>1 DEF LatchInv, LatchIsWhatOperatorKnows, AfterTheWrite
<1>6. CASE TickWithRaisedSources \/ SaveFails \/ Retry \/ GiveUp \/ Abandon
  BY <1>6, <1>f DEF TickWithRaisedSources, SaveFails, Retry, GiveUp, Abandon
<1>7. CASE UNCHANGED vars
  BY <1>7 DEF vars, LatchInv, LatchIsWhatOperatorKnows, BeforeTheWrite, AfterTheWrite
<1> QED
  BY <1>1, <1>2, <1>3, <1>4, <1>5, <1>6, <1>7 DEF Next, Record

\* Until something fails, between ticks a source is latched exactly when it has
\* been down for at least the threshold, and unless its line was cut off exactly
\* when the last message about it was the alert, for any sources, threshold and
\* length of a message.
THEOREM LatchIsKnown == Spec => []LatchIsWhatOperatorKnows
<1>1. LatchInv => LatchIsWhatOperatorKnows
  BY DEF LatchInv
<1> QED
  BY <1>1, LatchInit, LatchStep, HealthInvariant, PTL DEF Spec

-----------------------------------------------------------------------------
(* AI summaries.                                                           *)

\* A hash that a notice was not given without its text.
Own(n, hash) == hash \notin foreign[n] \cup {None}

\* Such a hash is that of the text it is kept with, in the store and in every list.
HashesAgree ==
  /\ \A n \in Notice : Own(n, content[n].hash) => content[n].text = content[n].hash
  /\ \A n \in Notice : Own(n, summary[n].hash) => summary[n].text = summary[n].hash
  /\ \A b \in Batches : \A doc \in batch[b].todo :
       Own(doc.notice, doc.hash) => doc.text = doc.hash

Holds(b, n) == \E doc \in batch[b].todo : doc.notice = n

\* A batch takes a notice below the limit only, and each may still add a failure.
AttemptsLeft ==
  \A n \in Notice :
    /\ \A b \in Batches : Holds(b, n) => failures[n] <= GiveUpAt
    /\ (\A b \in Batches : Holds(b, n)) => failures[n] < GiveUpAt

\* A batch that has ended holds nothing.
IdleIsEmpty == \A b \in Batches : batch[b].stage = "idle" => batch[b].todo = {}

BatchInv == SummaryTypeOK /\ IdleIsEmpty /\ HashesAgree /\ AttemptsLeft

\* The places of notices in a list are numbers, and different.
LEMMA PlacesDiffer ==
  ASSUME recent \in Orders, NEW found \in SUBSET Notice
  PROVE  /\ \A n \in Notice : Ahead(n, found) \in Nat
         /\ \A m, n \in found : Ahead(m, found) = Ahead(n, found) => m = n
<1> DEFINE newer(n) == {m \in found : Newer(m, n)}
<1>1. IsFiniteSet(found)
  BY NoticeAssumption, FS_Subset
<1>2. ASSUME NEW n \in Notice
      PROVE  IsFiniteSet(newer(n)) /\ Cardinality(newer(n)) \in Nat
  <2>1. newer(n) \in SUBSET found
    OBVIOUS
  <2>2. IsFiniteSet(newer(n))
    BY <1>1, <2>1, FS_Subset
  <2> QED
    BY <2>2, FS_CardinalityType
<1>3. ASSUME NEW m \in found, NEW n \in found, recent[m] < recent[n]
      PROVE  Cardinality(newer(m)) # Cardinality(newer(n))
  <2>1. \A k \in found : recent[k] \in Int
    BY DEF Orders
  <2>2. newer(m) \in SUBSET newer(n) /\ m \in newer(n) /\ m \notin newer(m)
    BY <1>3, <2>1 DEF Newer
  <2>3. newer(m) # newer(n)
    BY <2>2
  <2> QED
    BY <1>2, <2>2, <2>3, FS_Subset
<1>4. ASSUME NEW m \in found, NEW n \in found, Ahead(m, found) = Ahead(n, found)
      PROVE  m = n
  <2>1. recent[m] \in Int /\ recent[n] \in Int /\ (recent[m] = recent[n] => m = n)
    BY DEF Orders
  <2>2. ~(recent[m] < recent[n]) /\ ~(recent[n] < recent[m])
    BY <1>3, <1>4 DEF Ahead
  <2> QED
    BY <2>1, <2>2
<1> QED
  BY <1>2, <1>4 DEF Ahead

\* What a query returns.
LEMMA QueryFacts ==
  ASSUME BatchInv,
         NEW found \in SUBSET Notice, \A n \in found : content[n].text # None
  PROVE  /\ Query(found) \in SUBSET Snapshot
         /\ \A doc, other \in Query(found) :
              doc.place = other.place \/ doc.notice = other.notice => doc = other
         /\ \A doc \in Query(found) :
              doc.notice \in found /\ (Own(doc.notice, doc.hash) => doc.text = doc.hash)
<1>1. recent \in Orders /\ content \in [Notice -> Content]
  BY DEF BatchInv, SummaryTypeOK
<1>2. ASSUME NEW doc \in Query(found)
      PROVE  \E n \in found :
               /\ doc = [notice |-> n, text |-> content[n].text, hash |-> content[n].hash,
                         place |-> Ahead(n, found)]
               /\ Ahead(n, found) < BatchSize
  BY DEF Query, Limited
<1>3. ASSUME NEW doc \in Query(found)
      PROVE  /\ doc \in Snapshot /\ doc.notice \in found
             /\ Own(doc.notice, doc.hash) => doc.text = doc.hash
  <2>1. PICK n \in found :
               /\ doc = [notice |-> n, text |-> content[n].text, hash |-> content[n].hash,
                         place |-> Ahead(n, found)]
               /\ Ahead(n, found) < BatchSize
    BY <1>2
  <2>2. Ahead(n, found) \in 0 .. BatchSize - 1
    BY <1>1, <2>1, PlacesDiffer, BatchSizeAssumption
  <2>3. /\ content[n].text \in Version /\ content[n].hash \in Version \cup {None}
        /\ Own(n, content[n].hash) => content[n].text = content[n].hash
    BY <1>1 DEF Content, BatchInv, HashesAgree
  <2> QED
    BY <2>1, <2>2, <2>3 DEF Snapshot
<1>4. \A doc, other \in Query(found) :
        doc.place = other.place \/ doc.notice = other.notice => doc = other
  BY <1>1, <1>2, PlacesDiffer
<1> QED
  BY <1>3, <1>4

\* Initially nothing is summarised or asked for.
LEMMA BatchInit == SummaryInit => BatchInv
<1> SUFFICES ASSUME SummaryInit PROVE BatchInv
  OBVIOUS
<1>1. SummaryTypeOK
  BY GiveUpAssumption, BoundsAssumption
  DEF SummaryInit, SummaryTypeOK, Empty, Content, Idle, None
<1>2. IdleIsEmpty /\ HashesAgree /\ AttemptsLeft
  BY DEF SummaryInit, IdleIsEmpty, HashesAgree, Own, AttemptsLeft, Holds, Empty, Idle,
         None, Batches
<1> QED
  BY <1>1, <1>2 DEF BatchInv

\* A write puts its notice first and keeps the order of the others.
LEMMA WrittenKeeps ==
  ASSUME BatchInv, NEW n \in Notice, Written(n)
  PROVE  recent' \in Orders /\ rewrites' \in 0 .. MaxRewrites
<1>1. Cardinality(Notice) \in Nat
  BY NoticeAssumption, FS_CardinalityType
<1>2. /\ recent \in [Notice -> 0 .. Cardinality(Notice) - 1]
      /\ \A m, k \in Notice : recent[m] = recent[k] => m = k
  BY DEF BatchInv, SummaryTypeOK, Orders
<1>3. recent' = [m \in Notice |-> IF m = n THEN 0
                                  ELSE IF recent[m] < recent[n] THEN recent[m] + 1
                                  ELSE recent[m]]
  BY DEF Written, Newer
<1>4. recent' \in [Notice -> 0 .. Cardinality(Notice) - 1]
  BY <1>1, <1>2, <1>3
<1>5. ASSUME NEW m \in Notice, NEW k \in Notice, recent'[m] = recent'[k]
      PROVE  m = k
  BY <1>1, <1>2, <1>3, <1>5
<1>6. recent' \in Orders
  BY <1>4, <1>5 DEF Orders
<1> QED
  BY <1>6, BoundsAssumption DEF BatchInv, SummaryTypeOK, Written

\* A stored content has its own hash or none; a backfilled hash is remembered as
\* foreign, for the lists and the summary of the notice too.
LEMMA RewriteKeeps ==
  ASSUME BatchInv, NEW n \in Notice, Rewrite(n) \/ BackfillHash(n)
  PROVE  BatchInv'
<1> DEFINE own1(m, hash) == hash \notin foreign'[m] \cup {None}
<1>1. Written(n)
  BY DEF Rewrite, BackfillHash
<1>2. /\ content \in [Notice -> Content] /\ foreign \in [Notice -> SUBSET Version]
      /\ HashesAgree
  BY DEF BatchInv, SummaryTypeOK
<1>3. /\ content' \in [Notice -> Content] /\ foreign' \in [Notice -> SUBSET Version]
      /\ \A m \in Notice : foreign[m] \subseteq foreign'[m]
      /\ \A m \in Notice \ {n} : content'[m] = content[m]
      /\ own1(n, content'[n].hash) => content'[n].text = content'[n].hash
  <2>1. CASE Rewrite(n)
    <3>1. PICK c \in Derived \cup {content[n]} : content' = [content EXCEPT ![n] = c]
      BY <2>1 DEF Rewrite
    <3>2. c \in Content /\ content'[n] = c /\ foreign' = foreign
      BY <1>2, <2>1, <3>1 DEF Derived, Rewrite
    <3>3. Own(n, c.hash) => c.text = c.hash
      BY <1>2, <3>1 DEF Derived, HashesAgree, Own
    <3>4. content' \in [Notice -> Content] /\ \A m \in Notice \ {n} : content'[m] = content[m]
      BY <1>2, <3>1, <3>2
    <3>5. own1(n, content'[n].hash) <=> Own(n, c.hash)
      BY <3>2 DEF Own
    <3> QED
      BY <1>2, <3>2, <3>3, <3>4, <3>5
  <2>2. CASE BackfillHash(n)
    <3>1. PICK new \in Version \cup {None} :
            /\ content' = [content EXCEPT ![n].hash = new]
            /\ foreign' = [foreign EXCEPT ![n] = @ \cup ({new} \ {content[n].text, None})]
      BY <2>2 DEF BackfillHash
    <3>2. content[n] \in Content
      BY <1>2
    <3>3. content'[n] \in Content /\ content'[n].text = content[n].text
          /\ content'[n].hash = new
      BY <1>2, <3>1, <3>2 DEF Content
    <3>4. content' \in [Notice -> Content]
      BY <1>2, <3>1, <3>3
    <3>5. /\ foreign'[n] = foreign[n] \cup ({new} \ {content[n].text, None})
          /\ \A m \in Notice \ {n} : foreign'[m] = foreign[m]
      BY <1>2, <3>1
    <3>6. foreign' \in [Notice -> SUBSET Version]
      BY <1>2, <3>1
    <3>7. \A m \in Notice \ {n} : content'[m] = content[m]
      BY <1>2, <3>1
    <3>8. own1(n, content'[n].hash) => content'[n].text = content'[n].hash
      BY <3>3, <3>5 DEF Own
    <3> QED
      BY <3>4, <3>5, <3>6, <3>7, <3>8
  <2> QED
    BY <2>1, <2>2
<1>4. UNCHANGED <<summary, failures, batch, booting, breaks>>
  BY <1>1 DEF Written
<1>5. SummaryTypeOK'
  BY <1>1, <1>3, <1>4, WrittenKeeps DEF BatchInv, SummaryTypeOK
<1>6. \A b \in Batches : \A doc \in batch[b].todo : doc.notice \in Notice
  BY DEF BatchInv, SummaryTypeOK, Snapshot
<1>7. HashesAgree'
  <2>1. \A m \in Notice : \A hash : own1(m, hash) => Own(m, hash)
    BY <1>3 DEF Own
  <2>2. ASSUME NEW m \in Notice, own1(m, content'[m].hash)
        PROVE  content'[m].text = content'[m].hash
    <3>1. CASE m = n
      BY <1>3, <2>2, <3>1
    <3>2. CASE m # n
      BY <1>2, <1>3, <2>1, <2>2, <3>2 DEF HashesAgree
    <3> QED
      BY <3>1, <3>2
  <2>3. ASSUME NEW m \in Notice, own1(m, summary'[m].hash)
        PROVE  summary'[m].text = summary'[m].hash
    BY <1>2, <1>4, <2>1, <2>3 DEF HashesAgree
  <2>4. ASSUME NEW b \in Batches, NEW doc \in batch'[b].todo, own1(doc.notice, doc.hash)
        PROVE  doc.text = doc.hash
    BY <1>2, <1>4, <1>6, <2>1, <2>4 DEF HashesAgree
  <2> QED
    BY <2>2, <2>3, <2>4 DEF HashesAgree, Own
<1>8. IdleIsEmpty' /\ AttemptsLeft'
  BY <1>4 DEF BatchInv, IdleIsEmpty, AttemptsLeft, Holds
<1> QED
  BY <1>5, <1>7, <1>8 DEF BatchInv

\* A batch reads a list: of notices with a text that failed less than the limit.
LEMMA ListKeeps ==
  ASSUME BatchInv, NEW b \in Batches, NEW found \in SUBSET Notice,
         \A n \in found : content[n].text # None /\ Retryable(n),
         NEW stage1 \in {"new", "stale"},
         batch[b].todo = {},
         batch' = [batch EXCEPT ![b] = [stage |-> stage1, todo |-> Query(found)]],
         booting' \in BOOLEAN, UNCHANGED <<content, recent, summary, failures, foreign, rewrites, breaks>>
  PROVE  BatchInv'
<1>1. batch \in [Batches -> [stage : {"idle", "new", "stale"}, todo : SUBSET Snapshot]]
  BY DEF BatchInv, SummaryTypeOK
<1>2. /\ batch'[b] = [stage |-> stage1, todo |-> Query(found)]
      /\ \A c \in Batches \ {b} : batch'[c] = batch[c]
  BY <1>1
<1>3. SummaryTypeOK'
  <2>1. batch' \in [Batches -> [stage : {"idle", "new", "stale"}, todo : SUBSET Snapshot]]
    BY <1>1, QueryFacts
  <2>2. \A c \in Batches : \A doc, other \in batch'[c].todo :
          doc.place = other.place \/ doc.notice = other.notice => doc = other
    BY <1>2, QueryFacts DEF BatchInv, SummaryTypeOK
  <2> QED
    BY <2>1, <2>2 DEF BatchInv, SummaryTypeOK
<1>4. HashesAgree'
  BY <1>2, QueryFacts DEF BatchInv, HashesAgree, Own
<1>5. ASSUME NEW n \in Notice
      PROVE  /\ \A c \in Batches : Holds(c, n)' => failures'[n] <= GiveUpAt
             /\ (\A c \in Batches : Holds(c, n)') => failures'[n] < GiveUpAt
  <2>1. failures[n] \in Int /\ GiveUpAt \in Int
    BY GiveUpAssumption DEF BatchInv, SummaryTypeOK
  <2>2. Holds(b, n)' => failures'[n] < GiveUpAt
    BY <1>2, QueryFacts DEF Holds, Retryable
  <2>3. \A c \in Batches \ {b} : Holds(c, n)' => Holds(c, n)
    BY <1>2 DEF Holds
  <2>4. \A c \in Batches : Holds(c, n) => failures[n] <= GiveUpAt
    BY DEF BatchInv, AttemptsLeft
  <2>5. ASSUME NEW c \in Batches, Holds(c, n)'
        PROVE  failures'[n] <= GiveUpAt
    BY <2>1, <2>2, <2>3, <2>4, <2>5
  <2> QED
    BY <2>2, <2>5
<1>6. AttemptsLeft'
  BY <1>5 DEF AttemptsLeft
<1>7. IdleIsEmpty'
  BY <1>2 DEF BatchInv, IdleIsEmpty
<1> QED
  BY <1>3, <1>4, <1>6, <1>7 DEF BatchInv

\* A batch is done with a document, however that went.
LEMMA DocumentKeeps ==
  ASSUME BatchInv, NEW b \in Batches, NEW doc \in Current(b),
         NextDoc(b, doc),
         \/ failures' = [failures EXCEPT ![doc.notice] = @ + 1]
         \/ failures' = [failures EXCEPT ![doc.notice] = 0]
         \/ failures' = [failures EXCEPT ![doc.notice] = 1],
         \/ summary' = summary
         \/ summary' = [summary EXCEPT ![doc.notice] = [text |-> doc.text, hash |-> doc.hash]],
         breaks' \in 0 .. MaxBreaks, UNCHANGED <<content, recent, booting, foreign, rewrites>>
  PROVE  BatchInv'
<1>1. batch \in [Batches -> [stage : {"idle", "new", "stale"}, todo : SUBSET Snapshot]]
  BY DEF BatchInv, SummaryTypeOK
<1>2. /\ doc \in batch[b].todo /\ doc \in Snapshot
      /\ doc.notice \in Notice
  BY <1>1 DEF Current, Snapshot
<1>3. /\ batch' \in [Batches -> [stage : {"idle", "new", "stale"}, todo : SUBSET Snapshot]]
      /\ batch'[b].todo = batch[b].todo \ {doc}
      /\ \A c \in Batches \ {b} : batch'[c] = batch[c]
  BY <1>1 DEF NextDoc
<1>4. \A c \in Batches : batch'[c].todo \subseteq batch[c].todo
  BY <1>3
<1>5. ~Holds(b, doc.notice)' /\ Holds(b, doc.notice)
  BY <1>2, <1>3 DEF Holds, BatchInv, SummaryTypeOK
<1>6. \A c \in Batches, n \in Notice : Holds(c, n)' => Holds(c, n)
  BY <1>4 DEF Holds
<1>7. /\ failures \in [Notice -> 0 .. GiveUpAt + 1] /\ GiveUpAt \in Nat \ {0}
      /\ AttemptsLeft
  BY GiveUpAssumption DEF BatchInv, SummaryTypeOK
<1>8. failures[doc.notice] <= GiveUpAt
  BY <1>2, <1>5, <1>7 DEF AttemptsLeft
<1>9. /\ failures' \in [Notice -> 0 .. GiveUpAt + 1]
      /\ \A n \in Notice \ {doc.notice} : failures'[n] = failures[n]
      /\ failures'[doc.notice] \in {failures[doc.notice] + 1, 0, 1}
  BY <1>2, <1>7, <1>8
<1>10. \A c \in Batches : Holds(c, doc.notice)' =>
          \A d \in Batches : Holds(d, doc.notice)
  BY <1>5, <1>6, <1>2 DEF Batches
<1>11. AttemptsLeft'
  <2>1. ASSUME NEW c \in Batches, Holds(c, doc.notice)'
        PROVE  failures'[doc.notice] <= GiveUpAt
    <3>1. failures[doc.notice] < GiveUpAt
      BY <1>2, <1>7, <1>10, <2>1 DEF AttemptsLeft
    <3> QED
      BY <1>2, <1>7, <1>9, <3>1
  <2>2. ASSUME NEW n \in Notice
        PROVE  /\ \A c \in Batches : Holds(c, n)' => failures'[n] <= GiveUpAt
               /\ (\A c \in Batches : Holds(c, n)') => failures'[n] < GiveUpAt
    BY <1>5, <1>6, <1>7, <1>9, <2>1 DEF AttemptsLeft
  <2> QED
    BY <2>2 DEF AttemptsLeft
<1>12. summary' \in [Notice -> Content]
  BY <1>2 DEF BatchInv, SummaryTypeOK, Snapshot, Content
<1>13. HashesAgree'
  <2>1. Own(doc.notice, doc.hash) => doc.text = doc.hash
    BY <1>2 DEF BatchInv, HashesAgree
  <2>2. ASSUME NEW n \in Notice, Own(n, summary'[n].hash)
        PROVE  summary'[n].text = summary'[n].hash
    <3>1. \/ summary'[n] = summary[n]
          \/ n = doc.notice /\ summary'[n] = [text |-> doc.text, hash |-> doc.hash]
      BY <1>2 DEF BatchInv, SummaryTypeOK
    <3> QED
      BY <2>1, <2>2, <3>1 DEF BatchInv, HashesAgree
  <2>3. \A c \in Batches : \A other \in batch'[c].todo :
          Own(other.notice, other.hash) => other.text = other.hash
    BY <1>4 DEF BatchInv, HashesAgree
  <2> QED
    BY <2>2, <2>3 DEF BatchInv, HashesAgree, Own
<1>14. SummaryTypeOK'
  BY <1>3, <1>4, <1>9, <1>12 DEF BatchInv, SummaryTypeOK
<1>15. IdleIsEmpty'
  <2>1. \A c \in Batches : batch'[c].stage = batch[c].stage
    BY <1>1 DEF NextDoc
  <2> QED
    BY <1>4, <2>1 DEF BatchInv, IdleIsEmpty
<1> QED
  BY <1>11, <1>13, <1>14, <1>15 DEF BatchInv

\* Batches end.
LEMMA IdleKeeps ==
  ASSUME BatchInv, batch' \in [Batches -> [stage : {"idle", "new", "stale"},
                                              todo : SUBSET Snapshot]],
         \A b \in Batches : batch'[b].todo = {} \/ batch'[b] = batch[b],
         booting' \in BOOLEAN, breaks' \in 0 .. MaxBreaks,
         UNCHANGED <<content, recent, summary, failures, foreign, rewrites>>
  PROVE  BatchInv'
<1>1. SummaryTypeOK'
  BY DEF BatchInv, SummaryTypeOK
<1>2. HashesAgree'
  BY DEF BatchInv, HashesAgree, Own
<1>3. \A b \in Batches, n \in Notice : Holds(b, n)' => Holds(b, n)
  BY DEF Holds
<1>4. IdleIsEmpty' /\ AttemptsLeft'
  BY <1>3 DEF BatchInv, IdleIsEmpty, AttemptsLeft
<1> QED
  BY <1>1, <1>2, <1>4 DEF BatchInv

\* Every step keeps the invariant.
LEMMA BatchStep ==
  BatchInv /\ [SummaryNext]_summaryVars => BatchInv'
<1> SUFFICES ASSUME BatchInv, [SummaryNext]_summaryVars
             PROVE  BatchInv'
  OBVIOUS
<1>0. /\ breaks \in 0 .. MaxBreaks /\ MaxBreaks \in Nat /\ booting \in BOOLEAN
      /\ batch \in [Batches -> [stage : {"idle", "new", "stale"}, todo : SUBSET Snapshot]]
  BY BoundsAssumption DEF BatchInv, SummaryTypeOK
<1>1. ASSUME NEW b \in Batches, StartBatch(b)
      PROVE  BatchInv'
  <2>1. batch[b].todo = {}
    BY <1>1 DEF StartBatch, BatchInv, IdleIsEmpty
  <2> QED
    BY <1>0, <1>1, <2>1, ListKeeps DEF StartBatch, Unsummarized, storeVars
<1>2. ASSUME NEW b \in Batches, QueryStale(b)
      PROVE  BatchInv'
  BY <1>0, <1>2, ListKeeps DEF QueryStale, StaleSummary, storeVars
<1>3. ASSUME NEW b \in Batches, EndBatch(b)
      PROVE  BatchInv'
  BY <1>0, <1>3, IdleKeeps DEF EndBatch, storeVars, Idle
<1>4. ASSUME NEW b \in Batches, SummarizeOk(b)
      PROVE  BatchInv'
  BY <1>0, <1>4, DocumentKeeps DEF SummarizeOk, Summarized
<1>5. ASSUME NEW b \in Batches, SummarizeFails(b)
      PROVE  BatchInv'
  BY <1>0, <1>5, DocumentKeeps DEF SummarizeFails, CountFailure
<1>6. ASSUME NEW b \in Batches, StoreFails(b)
      PROVE  BatchInv'
  BY <1>0, <1>6, DocumentKeeps DEF StoreFails, CountFailure, MayBreak
<1>7. CASE AbortCron \/ Restart
  <2>1. /\ Idle \in [stage : {"idle", "new", "stale"}, todo : SUBSET Snapshot]
        /\ Idle.todo = {}
    BY DEF Idle
  <2>2. /\ batch' \in [Batches -> [stage : {"idle", "new", "stale"},
                                       todo : SUBSET Snapshot]]
        /\ \A b \in Batches : batch'[b].todo = {} \/ batch'[b] = batch[b]
    BY <1>0, <1>7, <2>1 DEF AbortCron, Restart
  <2>3. breaks' \in 0 .. MaxBreaks
    BY <1>0, <1>7 DEF AbortCron, Restart, MayBreak
  <2> QED
    BY <1>0, <1>7, <2>2, <2>3, IdleKeeps DEF AbortCron, Restart, storeVars
<1>8. CASE \E n \in Notice : Rewrite(n) \/ BackfillHash(n)
  BY <1>8, RewriteKeeps
<1>9. CASE UNCHANGED summaryVars
  BY <1>0, <1>9, IdleKeeps DEF summaryVars
<1> QED
  BY <1>1, <1>2, <1>3, <1>4, <1>5, <1>6, <1>7, <1>8, <1>9 DEF SummaryNext, Work

\* The invariant holds of every behaviour.
LEMMA BatchInvariant == SummarySpec => []BatchInv
<1>1. SummaryInit => BatchInv
  BY BatchInit
<1>2. BatchInv /\ [SummaryNext]_summaryVars => BatchInv'
  BY BatchStep
<1> QED
  BY <1>1, <1>2, PTL DEF SummarySpec

\* Types, and with them: no batch takes more than it may, the two hold a notice
\* once each, and no notice is tried more often than its limit and one more time,
\* though two batches may have taken it when it had one failure to go.
THEOREM SummaryTypes == SummarySpec => []SummaryTypeOK
<1>1. BatchInv => SummaryTypeOK
  BY DEF BatchInv
<1> QED
  BY <1>1, BatchInvariant, PTL

\* A summary with a hash that its notice has of the stored text is a summary of
\* that text, for any number of notices, rewrites and backfilled hashes, and
\* however the two batches overlap.
THEOREM SummaryIsCurrent == SummarySpec => []FreshSummaryIsCurrent
<1>1. BatchInv => FreshSummaryIsCurrent
  BY DEF BatchInv, HashesAgree, Own, LooksFresh, FreshSummaryIsCurrent
<1> QED
  BY <1>1, BatchInvariant, PTL
=============================================================================
