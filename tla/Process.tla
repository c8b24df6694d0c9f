------------------------------- MODULE Process -------------------------------
(***************************************************************************)
(* One crawler process under its supervisor: `start` assembles the modules *)
(* this deployment asked for or refuses, run_scheduler hands each one to   *)
(* the timer, awaits the run_on_start ones itself, and only then installs  *)
(* the handler that turns a stop request into an orderly shutdown.         *)
(*                                                                         *)
(* A start-up run is not one of the scheduler's jobs: max_instances does   *)
(* not count it, and what it raises ends the process.  Runs are opaque:    *)
(* one may never end, and a start-up run may raise when the store is down. *)
(***************************************************************************)
EXTENDS Naturals

CONSTANTS
  Family,       \* _FAMILIES
  ModulesOf,    \* the modules of a family
  Rank,         \* the place of a module in the order the families build them
  Requires,     \* the Config attributes a family cannot run without
  RunOnStart,   \* modules whose config says run_on_start
  Unguarded,    \* those whose run lets a database error through
  Marker,       \* the distributions REQUIRED_INSTALLED looks for
  ShutdownTimeout, StopGrace,  \* SHUTDOWN_TIMEOUT_SECONDS and the supervisor's
                               \* patience, in units of the former
  Deployments,  \* environments and command lines the process is started with
  Hangs         \* sets of modules whose runs and shutdown may never end

\* Every module name any family declares.  known_module_names raises when two
\* families share one, and build_runtime when a family builds another set.
Known == UNION {ModulesOf[f] : f \in Family}
Blank == "blank"      \* an empty or all-space name on the command line

ASSUME FamiliesDisjoint ==
  \A f, g \in Family : f # g => ModulesOf[f] \cap ModulesOf[g] = {}
ASSUME RankAssumption ==
  /\ Rank \in [Known -> Nat]
  /\ \A m, n \in Known : Rank[m] = Rank[n] => m = n
ASSUME NoneIsNoModule == "none" \notin Known
ASSUME BlankIsNoModule == Blank \notin Known
\* hssc_api_url is an attribute of Config and no variable of the environment.
ASSUME VariablesAssumption == \A d \in Deployments : "hssc_api_url" \notin d.variables
ASSUME ClockAssumption ==
  /\ ShutdownTimeout \in Nat \ {0} /\ StopGrace \in Nat
  /\ ShutdownTimeout < StopGrace

VARIABLES
  deploy,       \* the environment and command line of this start
  storeUp,      \* the database answers
  hanging,      \* the modules whose runs never end
  phase,        \* where the process is
  chosen,       \* what build_runtime returned
  startLeft,    \* run_on_start modules not yet run
  starting,     \* the start-up run being awaited
  due,          \* modules whose tick has come and is not processed yet
  pending,      \* timer runs of each module
  shutLeft,     \* modules whose shutdown() is still to be awaited
  client,       \* the shared database client is open
  stopAsked, waited   \* a stop was requested, and how long ago

vars == <<deploy, storeUp, hanging, phase, chosen, startLeft, starting, due,
          pending, shutLeft, client, stopAsked, waited>>
worldVars == <<deploy, storeUp, hanging>>
startVars == <<chosen, startLeft, starting>>
stopVars == <<stopAsked, waited>>

None == "none"
MaxInstances == 1     \* pending timer runs of a job
Phases == {"boot", "starting", "serving", "stopping", "exited", "failed", "killed"}
Up == {"boot", "starting", "serving", "stopping"}

TypeOK ==
  /\ deploy \in Deployments /\ storeUp \in BOOLEAN /\ hanging \in Hangs
  /\ phase \in Phases
  /\ chosen \subseteq Known
  /\ startLeft \subseteq chosen \cap RunOnStart
  /\ starting \in Known \cup {None}
  /\ due \subseteq Known
  /\ pending \in [Known -> 0 .. MaxInstances]
  /\ shutLeft \subseteq chosen
  /\ client \in BOOLEAN /\ stopAsked \in BOOLEAN /\ waited \in 0 .. StopGrace

\* The modules are started and shut down in the order they were built.
IsFirst(m, ms) == m \in ms /\ \A n \in ms : Rank[m] <= Rank[n]

NoRuns == [m \in Known |-> 0]

Init ==
  /\ deploy \in Deployments /\ storeUp \in BOOLEAN /\ hanging \in Hangs
  /\ phase = "boot"
  /\ chosen = {} /\ startLeft = {} /\ starting = None
  /\ due = {} /\ pending = NoRuns
  /\ shutLeft = {} /\ client = FALSE
  /\ stopAsked = FALSE /\ waited = 0

-----------------------------------------------------------------------------
(* settings_from_env and build_runtime, functions of the deployment.       *)

\* A CRAWLER_ENV that is not one of the three names is production.
Profile(d) == IF d.env \in {"development", "test"} THEN d.env ELSE "production"

\* Production never falls back to the development endpoint; elsewhere either
\* one will do.
HasEndpoint(d) ==
  IF Profile(d) = "production" THEN "hssc_prod" \in d.variables
  ELSE {"hssc_prod", "hssc_dev"} \cap d.variables # {}

\* The Config attributes that are truthy.
Settings(d) ==
  (d.variables \ {"hssc_prod", "hssc_dev"})
    \cup {c \in {"hssc_api_url"} : HasEndpoint(d)}

\* What --module names, blanks dropped.
Wanted(d) == d.asked \ {Blank}
IsWanted(d, m) == ~d.option \/ m \in Wanted(d)

\* An unknown name is an error; so is an option that names nothing.
SelectionRefused(d) ==
  d.option /\ (Wanted(d) = {} \/ ~(Wanted(d) \subseteq Known))

\* The families with at least one module of the selection.
Selected(d) == {f \in Family : \E m \in ModulesOf[f] : IsWanted(d, m)}

Missing(d, f) == Requires[f] \ Settings(d)

\* A distribution that is not installed stops any start of any family: production
\* by its gate, the others by an import that every start makes (motor in
\* _start_scheduler, tenacity with the notifier, apscheduler in run_scheduler).  A
\* store that is not configured only refuses production.
PluginsRefused(d) ==
  \/ d.installed # Marker
  \/ Profile(d) = "production" /\ "mongo_url" \notin Settings(d)

FamilyRefused(d) ==
  Profile(d) = "production" /\ \E f \in Selected(d) : Missing(d, f) # {}

\* Every selected family that has its settings, cut down to the selection.
Built(d) ==
  {m \in Known : /\ IsWanted(d, m)
                 /\ \E f \in Selected(d) : m \in ModulesOf[f] /\ Missing(d, f) = {}}

\* Mutation: an option that names nothing selects nothing, and is accepted.
RefusedUnlessBlank(d) ==
  \/ d.option /\ ~(Wanted(d) \subseteq Known)
  \/ PluginsRefused(d) \/ FamilyRefused(d)

Refused(d) ==
  \/ SelectionRefused(d) \/ PluginsRefused(d) \/ FamilyRefused(d)
  \/ Built(d) = {}

-----------------------------------------------------------------------------
(* Start.                                                                  *)

\* The process ends and with it every run, tick and connection.
Ends(how) ==
  /\ phase' = how
  /\ starting' = None /\ startLeft' = {} /\ shutLeft' = {}
  /\ due' = {} /\ pending' = NoRuns

\* build_runtime, then add_job for every module and scheduler.start().
Boot ==
  /\ phase = "boot"
  /\ IF Refused(deploy)
     THEN phase' = "failed" /\ UNCHANGED <<chosen, startLeft>>
     ELSE /\ phase' = "starting"
          /\ chosen' = Built(deploy)
          /\ startLeft' = Built(deploy) \cap RunOnStart
  /\ UNCHANGED <<worldVars, starting, due, pending, shutLeft, client, stopVars>>

\* A run opens the shared client, or raises without a store to connect to.
HasStore == "mongo_url" \in Settings(deploy)
Raises(m) == ~HasStore \/ (m \in Unguarded /\ ~storeUp)

StartUpRun ==
  /\ phase = "starting" /\ starting = None
  /\ \E m \in startLeft :
       IsFirst(m, startLeft) /\ starting' = m /\ startLeft' = startLeft \ {m}
  /\ client' = HasStore
  /\ UNCHANGED <<worldVars, phase, chosen, due, pending, shutLeft, stopVars>>

StartUpRunEnds ==
  /\ starting # None /\ starting \notin hanging /\ ~Raises(starting)
  /\ starting' = None
  /\ UNCHANGED <<worldVars, phase, chosen, startLeft, due, pending, shutLeft,
                 client, stopVars>>

\* Nothing catches what module.run() raises here, and on_shutdown is not
\* reached: the connection goes with the process.
StartUpRunRaises ==
  /\ starting # None /\ starting \notin hanging /\ Raises(starting)
  /\ Ends("failed")
  /\ client' = FALSE
  /\ UNCHANGED <<worldVars, chosen, stopVars>>

\* The signal handlers are installed after the last start-up run.
Serve ==
  /\ phase = "starting" /\ starting = None /\ startLeft = {}
  /\ phase' = "serving"
  /\ UNCHANGED <<worldVars, startVars, due, pending, shutLeft, client, stopVars>>

-----------------------------------------------------------------------------
(* The timer runs from scheduler.start() until scheduler.shutdown().       *)

TimerOn == phase \in {"starting", "serving"}

\* Ticks of one module that come while another waits are coalesced.
TickDue(m) ==
  /\ TimerOn /\ m \in chosen /\ m \notin due
  /\ due' = due \cup {m}
  /\ UNCHANGED <<worldVars, phase, startVars, pending, shutLeft, client, stopVars>>

\* Mutation: one run at a time in the whole process.
RunTickAlone(m) ==
  /\ TimerOn /\ m \in due /\ \A n \in Known : pending[n] = 0
  /\ due' = due \ {m}
  /\ pending' = [pending EXCEPT ![m] = @ + 1]
  /\ client' = HasStore
  /\ UNCHANGED <<worldVars, phase, startVars, shutLeft, stopVars>>

\* Mutation: the job is submitted whether or not its last run is pending.
RunTickAnyway(m) ==
  /\ TimerOn /\ m \in due /\ pending[m] <= MaxInstances
  /\ due' = due \ {m}
  /\ pending' = [pending EXCEPT ![m] = @ + 1]
  /\ client' = HasStore
  /\ UNCHANGED <<worldVars, phase, startVars, shutLeft, stopVars>>

RunTick(m) ==
  /\ TimerOn /\ m \in due /\ pending[m] < MaxInstances
  /\ due' = due \ {m}
  /\ pending' = [pending EXCEPT ![m] = @ + 1]
  /\ client' = HasStore
  /\ UNCHANGED <<worldVars, phase, startVars, shutLeft, stopVars>>

\* The tick is dropped: the last run is still pending, or the event loop was
\* busy for longer than the module's misfire grace.
DropTick(m) ==
  /\ TimerOn /\ m \in due
  /\ due' = due \ {m}
  /\ UNCHANGED <<worldVars, phase, startVars, pending, shutLeft, client, stopVars>>

\* The scheduler logs what a job raises: its end is an end either way.
RunEnds(m) ==
  /\ pending[m] > 0 /\ m \notin hanging
  /\ pending' = [pending EXCEPT ![m] = @ - 1]
  /\ UNCHANGED <<worldVars, phase, startVars, due, shutLeft, client, stopVars>>

StoreChanges ==
  /\ storeUp' = ~storeUp
  /\ UNCHANGED <<deploy, hanging, phase, startVars, due, pending, shutLeft,
                 client, stopVars>>

-----------------------------------------------------------------------------
(* Stop.                                                                   *)

\* SIGTERM.  The handler wakes run_scheduler: the timer is shut down, which
\* cancels its pending runs, and every module's shutdown() follows in order.
StopServing ==
  /\ phase = "serving" /\ ~stopAsked
  /\ stopAsked' = TRUE
  /\ phase' = "stopping"
  /\ due' = {} /\ pending' = NoRuns
  /\ shutLeft' = chosen
  /\ UNCHANGED <<worldVars, startVars, client, waited>>

\* Before the handlers exist the default action applies: the process dies, or,
\* as the container's first process, does not notice.
StopTooEarly ==
  /\ phase \in {"boot", "starting"} /\ ~stopAsked
  /\ stopAsked' = TRUE
  /\ \/ Ends("killed") /\ client' = FALSE
     \/ UNCHANGED <<phase, startLeft, starting, due, pending, shutLeft, client>>
  /\ UNCHANGED <<worldVars, chosen, waited>>

ModuleShutdown ==
  /\ phase = "stopping"
  /\ \E m \in shutLeft \ hanging : IsFirst(m, shutLeft) /\ shutLeft' = shutLeft \ {m}
  /\ UNCHANGED <<worldVars, phase, startVars, due, pending, client, stopVars>>

\* Mutation: the wait for the modules has no bound.
ExitWhenAllShut ==
  /\ phase = "stopping" /\ shutLeft = {}
  /\ Ends("exited")
  /\ client' = FALSE
  /\ UNCHANGED <<worldVars, chosen, stopVars>>

\* Mutation: on_shutdown is skipped when the wait timed out.
ExitKeepsClient ==
  /\ phase = "stopping"
  /\ shutLeft = {} \/ waited >= ShutdownTimeout
  /\ Ends("exited")
  /\ client' = (client /\ shutLeft # {})
  /\ UNCHANGED <<worldVars, chosen, stopVars>>

\* All modules are shut, or wait_for gave up; on_shutdown runs in either case.
Exit ==
  /\ phase = "stopping"
  /\ shutLeft = {} \/ waited >= ShutdownTimeout
  /\ Ends("exited")
  /\ client' = FALSE
  /\ UNCHANGED <<worldVars, chosen, stopVars>>

\* Time passes after the stop request; wait_for ends before more time does.
TimePasses ==
  /\ stopAsked /\ phase \in Up /\ waited < StopGrace
  /\ phase = "stopping" => waited < ShutdownTimeout
  /\ waited' = waited + 1
  /\ UNCHANGED <<worldVars, phase, startVars, due, pending, shutLeft, client, stopAsked>>

\* The supervisor's patience ends.
Kill ==
  /\ stopAsked /\ phase \in Up /\ waited = StopGrace
  /\ Ends("killed")
  /\ client' = FALSE
  /\ UNCHANGED <<worldVars, chosen, stopVars>>

\* restart: unless-stopped.
Restart ==
  /\ phase = "failed" /\ ~stopAsked
  /\ phase' = "boot" /\ chosen' = {}
  /\ UNCHANGED <<worldVars, startLeft, starting, due, pending, shutLeft,
                 client, stopVars>>

\* A stopped container is started again.
StartAgain ==
  /\ phase \notin Up /\ stopAsked
  /\ phase' = "boot" /\ chosen' = {}
  /\ stopAsked' = FALSE /\ waited' = 0
  /\ UNCHANGED <<worldVars, startLeft, starting, due, pending, shutLeft, client>>

-----------------------------------------------------------------------------

StartSteps == Boot \/ StartUpRun \/ StartUpRunEnds \/ StartUpRunRaises \/ Serve
Ticking(m) == TickDue(m) \/ RunTick(m) \/ DropTick(m) \/ RunEnds(m)
StopSteps == ModuleShutdown \/ Exit \/ TimePasses \/ Kill

Next ==
  \/ StartSteps \/ StopSteps
  \/ \E m \in Known : Ticking(m)
  \/ StoreChanges \/ StopServing \/ StopTooEarly \/ Restart \/ StartAgain

\* The process takes its own steps, the clock and the supervisor theirs; ticks
\* keep coming, and not every tick of a module is missed.
Fairness ==
  /\ WF_vars(StartSteps) /\ WF_vars(Restart)
  /\ WF_vars(ModuleShutdown) /\ WF_vars(Exit) /\ WF_vars(TimePasses) /\ WF_vars(Kill)
  /\ \A m \in Known : /\ WF_vars(TickDue(m)) /\ SF_vars(RunTick(m))
                      /\ WF_vars(RunEnds(m))

Spec == Init /\ [][Next]_vars /\ Fairness

-----------------------------------------------------------------------------

\* A process that got past its start has something to run, all of it was asked
\* for and has the settings its family needs; in production it runs everything
\* that was asked for, never against the development endpoint and never
\* without a store.
StartedMeansAsked ==
  phase \in {"starting", "serving", "stopping"} =>
    /\ chosen # {}
    /\ deploy.option => chosen \subseteq deploy.asked
    /\ \A f \in Family :
         ModulesOf[f] \cap chosen # {} =>
           Requires[f] \ {"hssc_api_url"} \subseteq deploy.variables
    /\ Profile(deploy) = "production" =>
         /\ chosen = IF deploy.option THEN deploy.asked \ {Blank} ELSE Known
         /\ "mongo_url" \in deploy.variables
         /\ \A f \in Selected(deploy) :
              "hssc_api_url" \in Requires[f] => "hssc_prod" \in deploy.variables

Instances(m) == pending[m] + (IF starting = m THEN 1 ELSE 0)

\* Two runs of one module coexist only while the process starts, and then one
\* of them is the run that run_scheduler itself awaits; a serving process never
\* runs a module beside itself.
OnlyStartUpOverlaps ==
  \A m \in Known :
    Instances(m) > 1 => phase = "starting" /\ starting = m /\ Instances(m) = 2

\* A process that ends by its own handler leaves no run behind and no open
\* connection, even when a module's shutdown never ends; and a stop request
\* that found the handlers installed always ends this way.
StopIsClean ==
  [][phase = "stopping" /\ phase' # "stopping" =>
       /\ phase' = "exited" /\ ~client' /\ pending' = NoRuns /\ waited <= ShutdownTimeout]_vars

\* A run that never ends, the start-up run included, starves only its own
\* module: every other module of the process keeps being run.
HangStarvesOnlyItself ==
  \A m \in Known :
    (<>[](TimerOn /\ m \in chosen /\ m \notin hanging))
      => []<>(pending[m] > 0)

\* A stop request ends the process wherever it was, and one the handler saw
\* ends it in good order, even if a module's shutdown never does.
StopEnds ==
  /\ stopAsked ~> phase \notin Up
  /\ phase = "stopping" ~> phase = "exited"

=============================================================================
