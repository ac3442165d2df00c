-------------------------- MODULE EnvironmentConfig --------------------------
(***************************************************************************)
(* How the widget brings its environment onto the published scene          *)
(* (viewer_widget.dart), and how the adapter configures it                 *)
(* (flutter_scene_adapter.dart).                                           *)
(*                                                                         *)
(* A configuration is asynchronous: the adapter captures the scene, waits  *)
(* for the environment's bytes, and the widget resumes in yet another      *)
(* turn.  Meanwhile the parent passes other environments and sources, and  *)
(* loads begin, publish, fail or are cancelled.  The generation counter    *)
(* makes old configurations void; the remembered attempt keeps the widget  *)
(* from configuring the same environment twice.                            *)
(*                                                                         *)
(* A load is seen from the widget only: LoadPublication has its inside.    *)
(***************************************************************************)
EXTENDS Naturals, FiniteSets

CONSTANTS Environments,    \* what the parent may pass as environment
          NoEnvironment,   \* none was attempted, or a fresh scene's own
          MaxInputs        \* bound: events from outside

ASSUME EnvironmentAssumption ==
  /\ NoEnvironment \notin Environments
  /\ MaxInputs \in Nat

VARIABLES
  \* the widget
  mounted,
  env,          \* widget.environment
  generation,   \* _environmentConfigurationGeneration
  attempt,      \* _lastEnvironmentConfigurationAttempt
  configured,   \* which state _lastEnvironmentConfiguredLoadState is
  configs,      \* the calls of _configureEnvironmentIfReady that wait
  \* the controller; a settled state is known by its number
  status,
  settled,
  load,         \* how far the current load attempt is
  token,        \* whether it carries a cancellation token
  starts,       \* microtasks of _startLoad that wait
  \* the adapter
  scene,        \* the scene in _scene, 0 before the first
  applied,      \* the environment of every scene there has been
  \* history
  reported,     \* <<scene, environment>> whose failure was diagnosed
  inputs

widgetVars == <<mounted, env, generation, attempt, configured, configs>>
controllerVars == <<status, settled, load, token, starts>>
adapterVars == <<scene, applied>>
vars == <<widgetVars, controllerVars, adapterVars, reported, inputs>>

Scenes == Nat \ {0}
Steps == {"reading", "applied", "failed", "void"}
Configs == [generation : Nat, env : Environments, scene : Scenes, step : Steps]

TypeOK ==
  /\ mounted \in BOOLEAN
  /\ env \in Environments
  /\ generation \in Nat
  /\ attempt \in Environments \cup {NoEnvironment}
  /\ configured \in Nat
  /\ configs \subseteq Configs
  /\ status \in {"idle", "loading", "success", "error"}
  /\ settled \in [status : {"idle", "success", "error"}, number : Nat]
  /\ load \in {"none", "running", "published", "returned", "failed"}
  /\ token \in BOOLEAN
  /\ starts \in Nat
  /\ scene \in Nat
  /\ applied \in [1..scene -> Environments \cup {NoEnvironment}]
  /\ reported \subseteq Scenes \X Environments
  /\ inputs \in 0..MaxInputs

\* initState has attached the controller and started the first load.
Init ==
  /\ mounted = TRUE
  /\ env \in Environments
  /\ generation = 1 /\ attempt = NoEnvironment /\ configured = 0
  /\ configs = {}
  /\ status = "idle" /\ settled = [status |-> "idle", number |-> 0]
  /\ load = "none" /\ token = FALSE /\ starts = 1
  /\ scene = 0 /\ applied = [s \in {} |-> NoEnvironment]
  /\ reported = {}
  /\ inputs = 0

Input == inputs < MaxInputs /\ inputs' = inputs + 1

-----------------------------------------------------------------------------
(* The widget.                                                             *)

\* Seeded bug: configures whatever the controller's state is.
ConfigureUnready(e, last) ==
  IF last # e
    THEN /\ attempt' = e
         /\ configs' = configs \cup {[generation |-> generation', env |-> e,
                                      scene |-> scene, step |-> "reading"]}
    ELSE attempt' = last /\ UNCHANGED configs

\* _configureEnvironmentIfReady up to its await, for the environment e and
\* with last as the remembered attempt; the adapter captures the scene.
ConfigureIfReady(e, last) ==
  IF status' = "success" /\ last # e
    THEN /\ attempt' = e
         /\ configs' = configs \cup {[generation |-> generation', env |-> e,
                                      scene |-> scene, step |-> "reading"]}
    ELSE attempt' = last /\ UNCHANGED configs

\* _resetEnvironmentConfigurationAttempt.
ResetAttempt ==
  /\ generation' = generation + 1
  /\ attempt' = NoEnvironment
  /\ UNCHANGED configs

\* Seeded bug: a success that was not seen before configures nothing.
HandleSuccessPassively ==
  /\ UNCHANGED <<generation, attempt, configs>>
  /\ configured' = IF mounted /\ status' = "success" THEN settled'.number
                                                     ELSE configured

\* _handleControllerChanged: a success that was not seen before configures
\* the environment.
HandleControllerChanged ==
  /\ UNCHANGED generation
  /\ IF mounted /\ status' = "success" /\ configured # settled'.number
       THEN /\ configured' = settled'.number
            /\ ConfigureIfReady(env, attempt)
       ELSE UNCHANGED <<configured, attempt, configs>>

\* didUpdateWidget with the same source: a changed environment is configured
\* at once, if there is a scene to configure.
ParentChangesEnvironment ==
  /\ mounted
  /\ Input
  /\ env' \in Environments \ {env}
  /\ generation' = generation + 1
  /\ UNCHANGED controllerVars
  /\ ConfigureIfReady(env', NoEnvironment)
  /\ UNCHANGED <<mounted, configured, adapterVars, reported>>

\* didUpdateWidget with another source: both it and _startLoad reset the
\* attempt, and the load's success will configure the environment.
ParentChangesSource ==
  /\ mounted
  /\ Input
  /\ env' \in Environments
  /\ generation' = generation + 2
  /\ attempt' = NoEnvironment
  /\ starts' = starts + 1
  /\ UNCHANGED <<mounted, configured, configs, status, settled, load,
                 token, adapterVars, reported>>

Dispose ==
  /\ mounted
  /\ mounted' = FALSE
  /\ UNCHANGED <<env, generation, attempt, configured, configs, controllerVars,
                 adapterVars, reported, inputs>>

\* Seeded bug: whatever came back is recorded for the widget as it is now.
WidgetResumesUnchecked(c) ==
  /\ c \in configs
  /\ c.step # "reading"
  /\ configs' = configs \ {c}
  /\ reported' = IF c.step = "failed" THEN reported \cup {<<c.scene, c.env>>}
                                      ELSE reported
  /\ UNCHANGED <<mounted, env, generation, attempt, configured, controllerVars,
                 adapterVars, inputs>>

\* Seeded bug: a failure is swallowed.
WidgetResumesSilently(c) ==
  /\ c \in configs
  /\ c.step # "reading"
  /\ configs' = configs \ {c}
  /\ UNCHANGED <<mounted, env, generation, attempt, configured, controllerVars,
                 adapterVars, reported, inputs>>

\* The rest of _configureEnvironmentIfReady: a failure of the current
\* generation is diagnosed, anything older is dropped.
WidgetResumes(c) ==
  /\ c \in configs
  /\ c.step # "reading"
  /\ configs' = configs \ {c}
  /\ reported' = IF mounted /\ c.generation = generation /\ c.step = "failed"
                   THEN reported \cup {<<c.scene, c.env>>} ELSE reported
  /\ UNCHANGED <<mounted, env, generation, attempt, configured, controllerVars,
                 adapterVars, inputs>>

-----------------------------------------------------------------------------
(* The adapter's configureEnvironment.                                     *)

\* isCanceled, as the widget passes it.
Canceled(c) == ~mounted \/ c.generation # generation

Finish(c, step) == configs' = (configs \ {c}) \cup {[c EXCEPT !.step = step]}

\* Seeded bug: the check after the last wait is missing.
EnvironmentDecodedUnchecked(c) ==
  /\ c \in configs
  /\ c.step = "reading"
  /\ Finish(c, "applied")
  /\ applied' = [applied EXCEPT ![c.scene] = c.env]
  /\ UNCHANGED <<mounted, env, generation, attempt, configured, controllerVars,
                 scene, reported, inputs>>

\* The environment is there: a void configuration stops, the others write the
\* scene they captured.
EnvironmentDecoded(c) ==
  /\ c \in configs
  /\ c.step = "reading"
  /\ IF Canceled(c)
       THEN Finish(c, "void") /\ UNCHANGED applied
       ELSE /\ Finish(c, "applied")
            /\ applied' = [applied EXCEPT ![c.scene] = c.env]
  /\ UNCHANGED <<mounted, env, generation, attempt, configured, controllerVars,
                 scene, reported, inputs>>

\* A missing asset, a timeout, a byte limit or a decoder says no.
EnvironmentFails(c) ==
  /\ c \in configs
  /\ c.step = "reading"
  /\ Finish(c, "failed")
  /\ UNCHANGED <<mounted, env, generation, attempt, configured, controllerVars,
                 adapterVars, reported, inputs>>

-----------------------------------------------------------------------------
(* A load, seen from the widget.                                           *)

\* A load begins unless an accepted one is being finalized; it supersedes a
\* running one.
LoadBegins(withToken) ==
  /\ load \notin {"published", "returned"}
  /\ load' = "running"
  /\ token' = withToken
  /\ status' = "loading"
  /\ UNCHANGED <<widgetVars, settled, adapterVars, reported>>

\* The microtask of _startLoad; a disposed widget starts nothing.
StartedLoadBegins ==
  /\ starts > 0
  /\ starts' = starts - 1
  /\ \/ mounted /\ LoadBegins(FALSE)
     \/ ~mounted /\ UNCHANGED <<widgetVars, status, settled, load, token,
                                adapterVars, reported>>
  /\ UNCHANGED inputs

\* The application calls controller.load.
ControllerLoadBegins ==
  /\ mounted
  /\ Input
  /\ LoadBegins(TRUE) \/ LoadBegins(FALSE)
  /\ UNCHANGED starts

\* The adapter commits the new scene.
ScenePublished ==
  /\ load = "running"
  /\ load' = "published"
  /\ scene' = scene + 1
  /\ applied' = [s \in 1..(scene + 1) |->
                   IF s = scene + 1 THEN NoEnvironment ELSE applied[s]]
  /\ UNCHANGED <<widgetVars, status, settled, token, starts, reported, inputs>>

\* Seeded bug: the new scene inherits the attempt made on the old one.
LoadReturnsRemembering ==
  /\ \/ load = "published" /\ load' = "returned"
     \/ load = "running" /\ load' = "failed"
  /\ UNCHANGED <<widgetVars, status, settled, token, starts, adapterVars,
                 reported, inputs>>

\* The widget's load gets its result, of success or of failure, and forgets
\* the attempt.
LoadReturns ==
  /\ \/ load = "published" /\ load' = "returned"
     \/ load = "running" /\ load' = "failed"
  /\ ResetAttempt
  /\ UNCHANGED <<mounted, env, configured, status, settled, token, starts,
                 adapterVars, reported, inputs>>

Settle(newStatus) ==
  /\ status' = newStatus
  /\ settled' = [status |-> newStatus, number |-> settled.number + 1]
  /\ load' = "none"
  /\ HandleControllerChanged
  /\ UNCHANGED <<mounted, env, token, starts, adapterVars, reported, inputs>>

LoadSucceeds == load = "returned" /\ Settle("success")

\* A failed result, or a sink that throws before or during finalization.
LoadFails == load \in {"failed", "running", "returned"} /\ Settle("error")

\* A cancelled load gives the settled state back, the same object.
LoadCancelled ==
  /\ token
  /\ load = "running"
  /\ load' = "none"
  /\ status' = settled.status
  /\ UNCHANGED settled
  /\ HandleControllerChanged
  /\ UNCHANGED <<mounted, env, token, starts, adapterVars, reported, inputs>>

-----------------------------------------------------------------------------

Parent == ParentChangesEnvironment \/ ParentChangesSource \/ Dispose

Loading ==
  \/ StartedLoadBegins \/ ControllerLoadBegins \/ ScenePublished \/ LoadReturns
  \/ LoadSucceeds \/ LoadFails \/ LoadCancelled

Configuring ==
  \E c \in configs :
    EnvironmentDecoded(c) \/ EnvironmentFails(c) \/ WidgetResumes(c)

Next == Parent \/ Loading \/ Configuring

\* Every source of an environment answers or times out, a future that is
\* complete resumes its caller, and a microtask runs.
Fairness == WF_vars(Configuring) /\ WF_vars(StartedLoadBegins)

Spec == Init /\ [][Next]_vars /\ Fairness

-----------------------------------------------------------------------------
(* Properties.                                                             *)

Current(c) == c.generation = generation /\ c.env = env /\ c.scene = scene

\* The shown scene has the environment the parent asks for, or is about to
\* get it, or a diagnostic says why not.
EnvironmentIsHandled ==
  \/ applied[scene] = env
  \/ <<scene, env>> \in reported
  \/ \E c \in configs : Current(c) /\ c.step # "void"

\* A remembered attempt is real: the widget declines to configure an
\* environment again only if the shown scene has been seen to, whatever was
\* published, reset or voided since the attempt.
AttemptIsReal ==
  mounted /\ status = "success" /\ attempt = env => EnvironmentIsHandled

\* A model that becomes visible gets the environment: whoever loaded it, and
\* whatever the parent changed during the load.
NewModelIsConfigured ==
  [][mounted /\ status' = "success" /\ settled' # settled
       => EnvironmentIsHandled']_vars

\* While a model is shown and no other source was asked for, the scene is
\* seen to, as docs/PUBLIC_API.md:112 has it: "`environment` selects the
\* viewer-controlled environment source and presentation".
EnvironmentIsAttempted ==
  mounted /\ status = "success" /\ starts = 0 => EnvironmentIsHandled

\* Only what the parent asks for now is ever written to a scene, and nothing
\* after the widget is gone, however late an older environment is decoded.
NoStaleEnvironment ==
  [][\A s \in DOMAIN applied :
       applied'[s] # applied[s] => mounted /\ applied'[s] = env]_vars

\* A diagnostic is about the environment the parent asks for now.
DiagnosticsAreCurrent ==
  [][\A r \in reported' \ reported : mounted /\ r[2] = env]_vars

\* An attempt comes to an end: the shown scene has its environment, or the
\* failure was diagnosed.
AttemptsSettle ==
  []<>(mounted /\ status = "success" /\ attempt = env =>
         applied[scene] = env \/ <<scene, env>> \in reported)
=============================================================================
