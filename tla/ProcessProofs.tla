---------------------------- MODULE ProcessProofs ----------------------------
(* The safety properties of Process, for any families, selections and hangs. *)
EXTENDS Process, TLAPS

\* What each phase leaves behind: a run is awaited only while the process
\* starts, timer runs exist only while the timer is on, modules are shut only
\* after a handled stop request and for no longer than the wait allows, and a
\* process past its start has what an accepted deployment builds.
PhaseInv ==
  /\ phase # "starting" => starting = None /\ startLeft = {}
  /\ ~TimerOn => due = {} /\ pending = NoRuns
  /\ phase # "stopping" => shutLeft = {}
  /\ ~stopAsked => waited = 0
  /\ phase = "stopping" => waited <= ShutdownTimeout
  /\ phase \in {"starting", "serving", "stopping"} =>
       ~Refused(deploy) /\ chosen = Built(deploy)

IInv == TypeOK /\ PhaseInv

\* An initial state has done nothing yet.
LEMMA InitIInv == Init => IInv
<1> SUFFICES ASSUME Init PROVE IInv
  OBVIOUS
<1>a. client \in BOOLEAN /\ stopAsked \in BOOLEAN
  BY Zenon DEF Init
<1>1. TypeOK
  BY <1>a, ClockAssumption DEF Init, TypeOK, Phases, NoRuns, MaxInstances
<1>2. PhaseInv
  BY DEF Init, PhaseInv, TimerOn
<1> QED
  BY <1>1, <1>2 DEF IInv

\* The end of a process, however it comes, satisfies the invariant.
LEMMA EndsIInv ==
  ASSUME IInv, NEW how \in {"exited", "failed", "killed"}, Ends(how),
         client' \in BOOLEAN, UNCHANGED <<worldVars, chosen, stopVars>>
  PROVE  IInv'
<1>1. TypeOK'
  BY DEF IInv, TypeOK, Ends, Phases, NoRuns, worldVars, stopVars, MaxInstances
<1>2. PhaseInv'
  BY DEF IInv, PhaseInv, Ends, NoRuns, TimerOn, worldVars, stopVars
<1> QED
  BY <1>1, <1>2 DEF IInv

\* The steps of a starting process.
LEMMA StartIInv ==
  ASSUME IInv, StartSteps
  PROVE  IInv'
<1> USE DEF IInv
<1>1. CASE Boot
  <2>1. Built(deploy) \subseteq Known
    BY DEF Built
  <2> QED
    BY <1>1, <2>1 DEF Boot, TypeOK, PhaseInv, Phases, TimerOn, NoRuns,
                      worldVars, stopVars
<1>2. CASE StartUpRun
  BY <1>2 DEF StartUpRun, IsFirst, HasStore, TypeOK, PhaseInv, TimerOn, worldVars, stopVars
<1>3. CASE StartUpRunEnds
  BY <1>3 DEF StartUpRunEnds, TypeOK, PhaseInv, TimerOn, worldVars, stopVars
<1>4. CASE StartUpRunRaises
  BY <1>4, EndsIInv DEF StartUpRunRaises
<1>5. CASE Serve
  BY <1>5 DEF Serve, TypeOK, PhaseInv, Phases, TimerOn, worldVars, startVars, stopVars
<1> QED
  BY <1>1, <1>2, <1>3, <1>4, <1>5 DEF StartSteps

\* The steps of the timer.
LEMMA TimerIInv ==
  ASSUME IInv, NEW m \in Known, Ticking(m)
  PROVE  IInv'
<1> USE DEF IInv
<1>1. CASE TickDue(m)
  BY <1>1 DEF TickDue, TypeOK, PhaseInv, TimerOn, worldVars, startVars, stopVars
<1>2. CASE RunTick(m)
  BY <1>2 DEF RunTick, HasStore, TypeOK, PhaseInv, TimerOn, worldVars, startVars,
              stopVars, MaxInstances
<1>3. CASE DropTick(m)
  BY <1>3 DEF DropTick, TypeOK, PhaseInv, TimerOn, worldVars, startVars, stopVars
<1>4. CASE RunEnds(m)
  <2>1. pending[m] = 1 /\ TimerOn
    BY <1>4 DEF RunEnds, TypeOK, PhaseInv, NoRuns, MaxInstances
  <2> QED
    BY <1>4, <2>1 DEF RunEnds, TypeOK, PhaseInv, TimerOn, worldVars, startVars,
                      stopVars, MaxInstances
<1> QED
  BY <1>1, <1>2, <1>3, <1>4 DEF Ticking

\* The steps of a stopping process, its clock and its supervisor.
LEMMA StopIInv ==
  ASSUME IInv, StopSteps \/ StopServing \/ StopTooEarly \/ Restart \/ StartAgain
  PROVE  IInv'
<1> USE DEF IInv
<1>1. CASE ModuleShutdown
  BY <1>1 DEF ModuleShutdown, TypeOK, PhaseInv, TimerOn, worldVars, startVars, stopVars
<1>2. CASE Exit
  BY <1>2, EndsIInv DEF Exit
<1>3. CASE Kill
  BY <1>3, EndsIInv DEF Kill
<1>4. CASE TimePasses
  BY <1>4, ClockAssumption DEF TimePasses, TypeOK, PhaseInv, TimerOn, worldVars, startVars
<1>5. CASE StopServing
  BY <1>5, ClockAssumption DEF StopServing, TypeOK, PhaseInv, Phases, TimerOn, NoRuns,
                               worldVars, startVars, MaxInstances
<1>6. CASE StopTooEarly
  <2>1. CASE Ends("killed") /\ client' = FALSE
    <3>a. client' \in BOOLEAN /\ stopAsked' \in BOOLEAN
      BY <1>6, <2>1, Zenon DEF StopTooEarly
    <3>1. TypeOK'
      BY <1>6, <2>1, <3>a DEF StopTooEarly, Ends, TypeOK, Phases, NoRuns, worldVars, MaxInstances
    <3>2. PhaseInv'
      BY <1>6, <2>1 DEF StopTooEarly, Ends, PhaseInv, TimerOn, worldVars
    <3> QED
      BY <3>1, <3>2
  <2>2. CASE UNCHANGED <<phase, startLeft, starting, due, pending, shutLeft, client>>
    BY <1>6, <2>2 DEF StopTooEarly, TypeOK, PhaseInv, TimerOn, worldVars
  <2> QED
    BY <1>6, <2>1, <2>2 DEF StopTooEarly
<1>7. CASE Restart
  BY <1>7 DEF Restart, TypeOK, PhaseInv, Phases, TimerOn, worldVars, stopVars
<1>8. CASE StartAgain
  <2>1. startLeft = {} /\ shutLeft = {}
    BY <1>8 DEF StartAgain, PhaseInv, Up
  <2>a. client' \in BOOLEAN /\ stopAsked' \in BOOLEAN
    BY <1>8, Zenon DEF StartAgain, TypeOK
  <2>2. TypeOK'
    BY <1>8, <2>1, <2>a, ClockAssumption DEF StartAgain, TypeOK, Phases, worldVars
  <2>3. PhaseInv'
    BY <1>8 DEF StartAgain, PhaseInv, TimerOn, Up, worldVars
  <2> QED
    BY <2>2, <2>3
<1> QED
  BY <1>1, <1>2, <1>3, <1>4, <1>5, <1>6, <1>7, <1>8 DEF StopSteps

\* The database comes and goes.
LEMMA StoreIInv ==
  ASSUME IInv, StoreChanges
  PROVE  IInv'
  BY DEF IInv, StoreChanges, TypeOK, PhaseInv, TimerOn, startVars, stopVars

\* The invariant is inductive.
LEMMA NextIInv == IInv /\ [Next]_vars => IInv'
<1> SUFFICES ASSUME IInv, [Next]_vars PROVE IInv'
  OBVIOUS
<1>1. CASE Next
  BY <1>1, StartIInv, TimerIInv, StopIInv, StoreIInv DEF Next
<1>2. CASE UNCHANGED vars
  BY <1>2 DEF vars, IInv, TypeOK, PhaseInv, TimerOn
<1> QED
  BY <1>1, <1>2

\* So it always holds.
LEMMA SpecIInv == Spec => []IInv
  BY InitIInv, NextIInv, PTL DEF Spec

\* Every variable keeps its type, whatever the deployment and whatever hangs.
THEOREM ProcessTypeOK == Spec => []TypeOK
<1>1. IInv => TypeOK
  BY DEF IInv
<1> QED
  BY <1>1, SpecIInv, PTL

\* wiring.build_runtime: a process past its start runs what was asked of it, or
\* it did not start.
THEOREM ProcessStartedMeansAsked == Spec => []StartedMeansAsked
<1>1. ASSUME IInv, phase \in {"starting", "serving", "stopping"}
      PROVE  ~Refused(deploy) /\ chosen = Built(deploy)
  BY <1>1 DEF IInv, PhaseInv
<1>2. ASSUME NEW d \in Deployments, ~Refused(d)
      PROVE  /\ Built(d) # {}
             /\ d.option => Built(d) \subseteq d.asked
             /\ \A f \in Family : ModulesOf[f] \cap Built(d) # {} =>
                                    Missing(d, f) = {}
             /\ Profile(d) = "production" =>
                  /\ Built(d) = IF d.option THEN d.asked \ {Blank} ELSE Known
                  /\ "mongo_url" \in Settings(d)
                  /\ \A f \in Selected(d) : Missing(d, f) = {}
  <2>1. Built(d) # {}
    BY <1>2 DEF Refused
  <2>2. d.option => Built(d) \subseteq d.asked
    BY DEF Built, IsWanted, Wanted
  <2>3. \A f \in Family : ModulesOf[f] \cap Built(d) # {} => Missing(d, f) = {}
    BY FamiliesDisjoint DEF Built, Selected
  <2>4. ASSUME Profile(d) = "production"
        PROVE  /\ "mongo_url" \in Settings(d)
               /\ \A f \in Selected(d) : Missing(d, f) = {}
    BY <1>2, <2>4 DEF Refused, PluginsRefused, FamilyRefused
  <2>5. ASSUME Profile(d) = "production"
        PROVE  Built(d) = IF d.option THEN d.asked \ {Blank} ELSE Known
    <3>1. d.option => Wanted(d) \subseteq Known
      BY <1>2 DEF Refused, SelectionRefused
    <3>2. Built(d) = {m \in Known : IsWanted(d, m)}
      BY <2>4, <2>5 DEF Built, Selected, Known
    <3> QED
      BY <3>1, <3>2 DEF IsWanted, Wanted
  <2> QED
    BY <2>1, <2>2, <2>3, <2>4, <2>5
<1>3. ASSUME NEW d \in Deployments, NEW f \in Family, Missing(d, f) = {}
      PROVE  /\ Requires[f] \ {"hssc_api_url"} \subseteq d.variables
             /\ ("hssc_api_url" \in Requires[f] /\ Profile(d) = "production")
                   => "hssc_prod" \in d.variables
  BY <1>3, VariablesAssumption DEF Missing, Settings, HasEndpoint
<1>4. ASSUME NEW d \in Deployments, "mongo_url" \in Settings(d)
      PROVE  "mongo_url" \in d.variables
  BY <1>4 DEF Settings
<1>5. IInv => StartedMeansAsked
  <2>1. SUFFICES ASSUME IInv, phase \in {"starting", "serving", "stopping"}
                 PROVE  StartedMeansAsked
    BY DEF StartedMeansAsked
  <2>2. deploy \in Deployments /\ ~Refused(deploy) /\ chosen = Built(deploy)
    BY <1>1, <2>1 DEF IInv, TypeOK
  <2>3. \A f \in Family : ModulesOf[f] \cap chosen # {} =>
          Requires[f] \ {"hssc_api_url"} \subseteq deploy.variables
    BY <1>2, <1>3, <2>2
  <2>4. Profile(deploy) = "production" =>
          \A f \in Selected(deploy) :
            "hssc_api_url" \in Requires[f] => "hssc_prod" \in deploy.variables
    BY <1>2, <1>3, <2>2 DEF Selected
  <2>5. Profile(deploy) = "production" =>
          /\ chosen = IF deploy.option THEN deploy.asked \ {Blank} ELSE Known
          /\ "mongo_url" \in deploy.variables
    BY <1>2, <1>4, <2>2
  <2> QED
    BY <1>2, <2>2, <2>3, <2>4, <2>5 DEF StartedMeansAsked
<1> QED
  BY <1>5, SpecIInv, PTL

\* runner.run_scheduler: only the run it awaits itself may overlap a timer run of
\* the same module, and only before the signal handlers are installed.
THEOREM ProcessOnlyStartUpOverlaps == Spec => []OnlyStartUpOverlaps
<1>1. IInv => OnlyStartUpOverlaps
  <2>1. SUFFICES ASSUME IInv, NEW m \in Known, Instances(m) > 1
                 PROVE  phase = "starting" /\ starting = m /\ Instances(m) = 2
    BY DEF OnlyStartUpOverlaps
  <2>2. pending[m] \in 0 .. 1
    BY <2>1 DEF IInv, TypeOK, MaxInstances
  <2>3. starting = m /\ pending[m] = 1
    BY <2>1, <2>2 DEF Instances
  <2>4. phase = "starting"
    BY <2>1, <2>3, NoneIsNoModule DEF IInv, PhaseInv, None
  <2> QED
    BY <2>3, <2>4 DEF Instances
<1> QED
  BY <1>1, SpecIInv, PTL

\* runner.run_scheduler: once a stop request was handled, the process ends with
\* its connection closed and no run left, in no more time than the wait allows.
THEOREM ProcessStopIsClean == Spec => StopIsClean
<1>1. ASSUME IInv, Next, phase = "stopping", phase' # "stopping"
      PROVE  /\ phase' = "exited" /\ ~client' /\ pending' = NoRuns
             /\ waited <= ShutdownTimeout
  <2>1. waited <= ShutdownTimeout /\ starting = None
    BY <1>1 DEF IInv, PhaseInv
  <2>2. ~StartSteps /\ ~StopServing /\ ~StopTooEarly /\ ~Restart /\ ~StartAgain
    BY <1>1, <2>1 DEF StartSteps, Boot, StartUpRun, StartUpRunEnds, StartUpRunRaises, Serve,
                      StopServing, StopTooEarly, Restart, StartAgain, Up
  <2>3. ~Kill
    BY <1>1, <2>1, ClockAssumption DEF Kill
  <2>4. ~(\E m \in Known : Ticking(m)) /\ ~StoreChanges /\ ~ModuleShutdown /\ ~TimePasses
    BY <1>1 DEF Ticking, TickDue, RunTick, DropTick, RunEnds, StoreChanges,
                ModuleShutdown, TimePasses
  <2>5. Exit
    BY <1>1, <2>2, <2>3, <2>4 DEF Next, StopSteps
  <2> QED
    BY <2>1, <2>5 DEF Exit, Ends
<1>2. IInv /\ [Next]_vars =>
        [phase = "stopping" /\ phase' # "stopping" =>
           /\ phase' = "exited" /\ ~client' /\ pending' = NoRuns
           /\ waited <= ShutdownTimeout]_vars
  BY <1>1 DEF vars
<1> QED
  BY <1>2, SpecIInv, PTL DEF Spec, StopIsClean
=============================================================================
