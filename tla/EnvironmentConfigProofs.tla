----------------------- MODULE EnvironmentConfigProofs -----------------------
(***************************************************************************)
(* What is proved about environment configuration, for every set of        *)
(* environments and every number of inputs.                                *)
(*                                                                         *)
(* AttemptIsReal is not inductive: it has to hold through loads, resets    *)
(* and late answers, when status is not "success" or the attempt is not    *)
(* the widget's environment.  IInv says what connects them: the remembered *)
(* attempt is always about the environment asked for (AttemptIsOfEnv), a   *)
(* waiting configuration of the current generation is of that attempt      *)
(* (ConfigsOfAttempt), and the attempt has been seen to on the current     *)
(* scene unless a scene was just published (HandledUnlessPublished).       *)
(***************************************************************************)
EXTENDS EnvironmentConfig, TLAPS

GenerationsPast == \A c \in configs : c.generation <= generation

AttemptIsOfEnv == attempt \in {env, NoEnvironment}

ConfigScenes == \A c \in configs : c.scene <= scene

ConfigsOfAttempt ==
  \A c \in configs : c.generation = generation =>
    /\ c.env = attempt
    /\ c.step = "void" => ~mounted
    /\ c.step = "applied" => applied[c.scene] = c.env

LoadPhases ==
  /\ load # "none" => status = "loading"
  /\ load = "returned" => attempt = NoEnvironment
  /\ (\/ load \in {"published", "returned"}
      \/ status = "success"
      \/ settled.status = "success"
      \/ attempt # NoEnvironment) => scene >= 1

HandledUnlessPublished ==
  mounted /\ attempt = env /\ load # "published" => EnvironmentIsHandled

ConfiguredPast == configured <= settled.number

IInv ==
  /\ TypeOK
  /\ GenerationsPast
  /\ AttemptIsOfEnv
  /\ ConfigScenes
  /\ ConfigsOfAttempt
  /\ LoadPhases
  /\ HandledUnlessPublished
  /\ ConfiguredPast

-----------------------------------------------------------------------------

\* A record with another step is still a configuration, of the same attempt.
LEMMA StepChanges ==
  ASSUME NEW c \in Configs, NEW step \in Steps
  PROVE  LET d == [c EXCEPT !.step = step]
         IN  /\ d \in Configs /\ d.step = step
             /\ d.generation = c.generation /\ d.env = c.env
             /\ d.scene = c.scene
BY DEF Configs

\* One event from outside stays within the bound.
LEMMA InputKeepsBound ==
  ASSUME inputs \in 0..MaxInputs, Input
  PROVE  inputs' \in 0..MaxInputs
BY EnvironmentAssumption DEF Input

\* The invariant holds when nothing has been configured.
LEMMA InitIInv == Init => IInv
<1> SUFFICES ASSUME Init PROVE IInv
  OBVIOUS
<1>1. TypeOK
  <2>1. inputs \in 0..MaxInputs
    BY EnvironmentAssumption DEF Init
  <2>2. applied \in [1..scene -> Environments \cup {NoEnvironment}]
    <3>1. 1..scene = {}
      BY DEF Init
    <3>2. QED
      BY <3>1 DEF Init
  <2>3. settled \in [status : {"idle", "success", "error"}, number : Nat]
    BY DEF Init
  <2>4. QED
    BY <2>1, <2>2, <2>3 DEF Init, TypeOK
<1>2. GenerationsPast /\ AttemptIsOfEnv /\ ConfigScenes /\ ConfigsOfAttempt
  BY DEF Init, GenerationsPast, AttemptIsOfEnv, ConfigScenes, ConfigsOfAttempt
<1>3. LoadPhases /\ ConfiguredPast
  BY DEF Init, LoadPhases, ConfiguredPast
<1>4. HandledUnlessPublished
  BY EnvironmentAssumption DEF Init, HandledUnlessPublished
<1>5. QED
  BY <1>1, <1>2, <1>3, <1>4 DEF IInv

-----------------------------------------------------------------------------
(* Actions that reset the attempt.                                         *)

\* A configuration that was started for the current scene counts.
LEMMA NewConfigHandles ==
  ASSUME NEW c \in configs', c.generation = generation', c.env = env',
         c.scene = scene', c.step = "reading"
  PROVE  EnvironmentIsHandled'
BY DEF EnvironmentIsHandled, Current

\* What the parent passes at a rebuild (viewer_widget.dart:196-199).
LEMMA ParentChangesEnvironmentStep ==
  ASSUME IInv, ParentChangesEnvironment
  PROVE  IInv'
<1>1. /\ env' \in Environments /\ generation' = generation + 1
      /\ inputs' \in 0..MaxInputs
      /\ UNCHANGED <<mounted, configured, status, settled, load, token, starts,
                     scene, applied, reported>>
  BY InputKeepsBound DEF ParentChangesEnvironment, IInv, TypeOK, controllerVars,
       adapterVars
<1>2. CASE status' = "success" /\ NoEnvironment # env'
  <2> DEFINE c == [generation |-> generation', env |-> env', scene |-> scene,
                   step |-> "reading"]
  <2>1. attempt' = env' /\ configs' = configs \cup {c}
    BY <1>2 DEF ParentChangesEnvironment, ConfigureIfReady
  <2>2. scene >= 1
    BY <1>1, <1>2 DEF IInv, LoadPhases
  <2>3. c \in Configs
    BY <1>1, <2>2 DEF Configs, Scenes, Steps, IInv, TypeOK
  <2>4. TypeOK'
    BY <1>1, <2>1, <2>3 DEF IInv, TypeOK
  <2>5. GenerationsPast' /\ AttemptIsOfEnv' /\ ConfigScenes'
    BY <1>1, <2>1 DEF IInv, TypeOK, Configs, Scenes, GenerationsPast,
         AttemptIsOfEnv, ConfigScenes
  <2>6. ConfigsOfAttempt'
    BY <1>1, <2>1 DEF IInv, TypeOK, Configs, GenerationsPast, ConfigsOfAttempt
  <2>7. LoadPhases' /\ ConfiguredPast'
    BY <1>1, <1>2, <2>1, <2>2 DEF IInv, LoadPhases, ConfiguredPast
  <2>8. HandledUnlessPublished'
    <3>1. /\ c \in configs' /\ c.generation = generation' /\ c.env = env'
          /\ c.scene = scene' /\ c.step = "reading"
      BY <1>1, <2>1
    <3> HIDE DEF c
    <3>2. QED
      BY <3>1, NewConfigHandles DEF HandledUnlessPublished
  <2>9. QED
    BY <2>4, <2>5, <2>6, <2>7, <2>8 DEF IInv
<1>3. CASE ~(status' = "success" /\ NoEnvironment # env')
  <2>1. attempt' = NoEnvironment /\ UNCHANGED configs
    BY <1>3 DEF ParentChangesEnvironment, ConfigureIfReady
  <2>2. TypeOK'
    BY <1>1, <2>1 DEF IInv, TypeOK
  <2>3. GenerationsPast' /\ AttemptIsOfEnv' /\ ConfigScenes' /\ ConfigsOfAttempt'
    BY <1>1, <2>1 DEF IInv, TypeOK, Configs, GenerationsPast, AttemptIsOfEnv,
         ConfigScenes, ConfigsOfAttempt
  <2>4. LoadPhases' /\ ConfiguredPast'
    BY <1>1, <2>1 DEF IInv, LoadPhases, ConfiguredPast
  <2>5. HandledUnlessPublished'
    BY <1>1, <2>1, EnvironmentAssumption DEF HandledUnlessPublished
  <2>6. QED
    BY <2>2, <2>3, <2>4, <2>5 DEF IInv
<1>4. QED
  BY <1>2, <1>3

\* Another source (viewer_widget.dart:193-195, 484-496).
LEMMA ParentChangesSourceStep ==
  ASSUME IInv, ParentChangesSource
  PROVE  IInv'
<1>1. /\ env' \in Environments /\ generation' = generation + 2
      /\ attempt' = NoEnvironment /\ starts' = starts + 1
      /\ inputs' \in 0..MaxInputs
      /\ UNCHANGED <<mounted, configured, configs, status, settled, load, token,
                     scene, applied, reported>>
  BY InputKeepsBound DEF ParentChangesSource, IInv, TypeOK, adapterVars
<1>2. TypeOK'
  BY <1>1 DEF IInv, TypeOK
<1>3. GenerationsPast' /\ AttemptIsOfEnv' /\ ConfigScenes' /\ ConfigsOfAttempt'
  BY <1>1 DEF IInv, TypeOK, Configs, GenerationsPast, AttemptIsOfEnv,
       ConfigScenes, ConfigsOfAttempt
<1>4. LoadPhases' /\ ConfiguredPast'
  BY <1>1 DEF IInv, LoadPhases, ConfiguredPast
<1>5. HandledUnlessPublished'
  BY <1>1, EnvironmentAssumption DEF HandledUnlessPublished
<1>6. QED
  BY <1>2, <1>3, <1>4, <1>5 DEF IInv

\* The widget's load has its result (viewer_widget.dart:245-252).
LEMMA LoadReturnsStep ==
  ASSUME IInv, LoadReturns
  PROVE  IInv'
<1>1. /\ generation' = generation + 1 /\ attempt' = NoEnvironment
      /\ \/ load = "published" /\ load' = "returned"
         \/ load = "running" /\ load' = "failed"
      /\ UNCHANGED <<mounted, env, configured, configs, status, settled, token,
                     starts, scene, applied, reported, inputs>>
  BY DEF LoadReturns, ResetAttempt, adapterVars
<1>2. TypeOK'
  BY <1>1 DEF IInv, TypeOK
<1>3. GenerationsPast' /\ AttemptIsOfEnv' /\ ConfigScenes' /\ ConfigsOfAttempt'
  BY <1>1 DEF IInv, TypeOK, Configs, GenerationsPast, AttemptIsOfEnv,
       ConfigScenes, ConfigsOfAttempt
<1>4. LoadPhases' /\ ConfiguredPast'
  BY <1>1 DEF IInv, LoadPhases, ConfiguredPast
<1>5. HandledUnlessPublished'
  BY <1>1, EnvironmentAssumption DEF HandledUnlessPublished, IInv, TypeOK
<1>6. QED
  BY <1>2, <1>3, <1>4, <1>5 DEF IInv

-----------------------------------------------------------------------------
(* Loads that begin, publish and settle.                                   *)

\* A load that begins touches no configuration (viewer_controller.dart:106-111).
LEMMA LoadBeginsStep ==
  ASSUME IInv, NEW t \in BOOLEAN, LoadBegins(t), starts' \in Nat,
         inputs' \in 0..MaxInputs
  PROVE  IInv'
<1>1. /\ load \notin {"published", "returned"}
      /\ load' = "running" /\ token' = t /\ status' = "loading"
      /\ UNCHANGED <<mounted, env, generation, attempt, configured, configs,
                     settled, scene, applied, reported>>
  BY DEF LoadBegins, widgetVars, adapterVars
<1>2. TypeOK'
  BY <1>1 DEF IInv, TypeOK
<1>3. GenerationsPast' /\ AttemptIsOfEnv' /\ ConfigScenes' /\ ConfigsOfAttempt'
  BY <1>1 DEF IInv, GenerationsPast, AttemptIsOfEnv, ConfigScenes,
       ConfigsOfAttempt
<1>4. LoadPhases' /\ ConfiguredPast'
  BY <1>1 DEF IInv, LoadPhases, ConfiguredPast
<1>5. HandledUnlessPublished'
  BY <1>1 DEF IInv, HandledUnlessPublished, EnvironmentIsHandled, Current
<1>6. QED
  BY <1>2, <1>3, <1>4, <1>5 DEF IInv

LEMMA StartedLoadBeginsStep ==
  ASSUME IInv, StartedLoadBegins
  PROVE  IInv'
<1>1. starts' \in Nat /\ inputs' = inputs /\ inputs' \in 0..MaxInputs
  BY DEF StartedLoadBegins, IInv, TypeOK
<1>2. CASE LoadBegins(FALSE)
  BY <1>1, <1>2, LoadBeginsStep
<1>3. CASE UNCHANGED <<widgetVars, status, settled, load, token, adapterVars,
                       reported>>
  BY <1>1, <1>3 DEF IInv, TypeOK, GenerationsPast, AttemptIsOfEnv, ConfigScenes,
       ConfigsOfAttempt, LoadPhases, ConfiguredPast, HandledUnlessPublished,
       EnvironmentIsHandled, Current, widgetVars, adapterVars
<1>4. QED
  BY <1>2, <1>3 DEF StartedLoadBegins

LEMMA ControllerLoadBeginsStep ==
  ASSUME IInv, ControllerLoadBegins
  PROVE  IInv'
<1>1. starts' \in Nat /\ inputs' \in 0..MaxInputs
  BY InputKeepsBound DEF ControllerLoadBegins, IInv, TypeOK
<1>2. QED
  BY <1>1, LoadBeginsStep DEF ControllerLoadBegins

\* The commit makes a fresh scene; the old ones keep their environment
\* (flutter_scene_adapter.dart:495-518).
LEMMA ScenePublishedStep ==
  ASSUME IInv, ScenePublished
  PROVE  IInv'
<1>1. /\ load = "running" /\ load' = "published" /\ scene' = scene + 1
      /\ applied' = [s \in 1..(scene + 1) |->
                       IF s = scene + 1 THEN NoEnvironment ELSE applied[s]]
      /\ UNCHANGED <<mounted, env, generation, attempt, configured, configs,
                     status, settled, token, starts, reported, inputs>>
  BY DEF ScenePublished, widgetVars
<1>2. TypeOK'
  BY <1>1 DEF IInv, TypeOK
<1>3. GenerationsPast' /\ AttemptIsOfEnv'
  BY <1>1 DEF IInv, GenerationsPast, AttemptIsOfEnv
<1>4. ConfigScenes'
  BY <1>1 DEF IInv, TypeOK, Configs, Scenes, ConfigScenes
<1>5. ConfigsOfAttempt'
  <2>1. \A c \in configs : applied'[c.scene] = applied[c.scene]
    BY <1>1 DEF IInv, TypeOK, Configs, Scenes, ConfigScenes
  <2>2. QED
    BY <1>1, <2>1 DEF IInv, ConfigsOfAttempt
<1>6. LoadPhases' /\ ConfiguredPast'
  BY <1>1 DEF IInv, TypeOK, LoadPhases, ConfiguredPast
<1>7. HandledUnlessPublished'
  BY <1>1 DEF HandledUnlessPublished
<1>8. QED
  BY <1>2, <1>3, <1>4, <1>5, <1>6, <1>7 DEF IInv

\* _handleControllerChanged (viewer_widget.dart:454-470) for a load that has
\* ended: with a success that was not seen before it configures, and in any
\* case the attempt stays real.
LEMMA LoadEndsStep ==
  ASSUME IInv, HandleControllerChanged,
         load \notin {"published", "none"}, load' = "none",
         status' \in {"idle", "success", "error"},
         settled' \in [status : {"idle", "success", "error"}, number : Nat],
         settled'.number >= settled.number,
         status' = "success" \/ settled'.status = "success" => scene >= 1,
         UNCHANGED <<mounted, env, token, starts, adapterVars, reported, inputs>>
  PROVE  IInv'
<1>1. UNCHANGED <<generation, mounted, env, token, starts, scene, applied,
                  reported, inputs>>
  BY DEF HandleControllerChanged, adapterVars
<1>2. CASE UNCHANGED <<attempt, configs>>
             /\ configured' \in {configured, settled'.number}
  <2>1. TypeOK'
    BY <1>1, <1>2 DEF IInv, TypeOK
  <2>2. GenerationsPast' /\ AttemptIsOfEnv' /\ ConfigScenes' /\ ConfigsOfAttempt'
    BY <1>1, <1>2 DEF IInv, GenerationsPast, AttemptIsOfEnv, ConfigScenes,
         ConfigsOfAttempt
  <2>3. LoadPhases'
    BY <1>1, <1>2 DEF IInv, LoadPhases
  <2>4. ConfiguredPast'
    BY <1>1, <1>2 DEF IInv, TypeOK, ConfiguredPast
  <2>5. HandledUnlessPublished'
    BY <1>1, <1>2 DEF IInv, HandledUnlessPublished, EnvironmentIsHandled, Current
  <2>6. QED
    BY <2>1, <2>2, <2>3, <2>4, <2>5 DEF IInv
<1>3. CASE status' = "success" /\ attempt # env
             /\ configured' = settled'.number /\ ConfigureIfReady(env, attempt)
  <2> DEFINE c == [generation |-> generation', env |-> env, scene |-> scene,
                   step |-> "reading"]
  <2>1. attempt' = env /\ configs' = configs \cup {c}
    BY <1>3 DEF ConfigureIfReady
  <2>2. attempt = NoEnvironment
    BY <1>3 DEF IInv, AttemptIsOfEnv
  <2>3. c \in Configs
    BY <1>1, <1>3 DEF Configs, Scenes, Steps, IInv, TypeOK
  <2>4. TypeOK'
    BY <1>1, <1>3, <2>1, <2>3 DEF IInv, TypeOK
  <2>5. GenerationsPast' /\ AttemptIsOfEnv' /\ ConfigScenes'
    BY <1>1, <2>1 DEF IInv, TypeOK, Configs, Scenes, GenerationsPast,
         AttemptIsOfEnv, ConfigScenes
  <2>6. ConfigsOfAttempt'
    <3>1. \A d \in configs : d.generation # generation
      BY <2>2, EnvironmentAssumption DEF IInv, TypeOK, Configs, ConfigsOfAttempt
    <3>2. QED
      BY <1>1, <2>1, <3>1 DEF ConfigsOfAttempt
  <2>7. LoadPhases' /\ ConfiguredPast'
    BY <1>1, <1>3 DEF IInv, TypeOK, LoadPhases, ConfiguredPast
  <2>8. HandledUnlessPublished'
    <3>1. /\ c \in configs' /\ c.generation = generation' /\ c.env = env'
          /\ c.scene = scene' /\ c.step = "reading"
      BY <1>1, <2>1
    <3> HIDE DEF c
    <3>2. QED
      BY <3>1, NewConfigHandles DEF HandledUnlessPublished
  <2>9. QED
    BY <2>4, <2>5, <2>6, <2>7, <2>8 DEF IInv
<1>4. QED
  BY <1>2, <1>3 DEF HandleControllerChanged, ConfigureIfReady

LEMMA LoadSucceedsStep ==
  ASSUME IInv, LoadSucceeds
  PROVE  IInv'
<1>1. /\ settled' \in [status : {"idle", "success", "error"}, number : Nat]
      /\ settled'.number >= settled.number /\ scene >= 1
  BY DEF IInv, TypeOK, LoadPhases, LoadSucceeds, Settle
<1>2. QED
  BY <1>1, LoadEndsStep DEF LoadSucceeds, Settle

LEMMA LoadFailsStep ==
  ASSUME IInv, LoadFails
  PROVE  IInv'
<1>1. /\ settled' \in [status : {"idle", "success", "error"}, number : Nat]
      /\ settled'.number >= settled.number /\ settled'.status = "error"
  BY DEF IInv, TypeOK, LoadFails, Settle
<1>2. QED
  BY <1>1, LoadEndsStep DEF LoadFails, Settle

LEMMA LoadCancelledStep ==
  ASSUME IInv, LoadCancelled
  PROVE  IInv'
<1>1. /\ settled' \in [status : {"idle", "success", "error"}, number : Nat]
      /\ settled'.number >= settled.number
      /\ status' \in {"idle", "success", "error"}
      /\ status' = "success" \/ settled'.status = "success" => scene >= 1
  BY DEF IInv, TypeOK, LoadPhases, LoadCancelled
<1>2. QED
  BY <1>1, LoadEndsStep DEF LoadCancelled

-----------------------------------------------------------------------------
(* Configurations that come to an end.                                     *)

\* The widget goes away; nothing is handled any more.
LEMMA DisposeStep ==
  ASSUME IInv, Dispose
  PROVE  IInv'
<1>1. /\ mounted' \in BOOLEAN /\ ~mounted'
      /\ UNCHANGED <<env, generation, attempt, configured, configs, status,
                     settled, load, token, starts, scene, applied, reported,
                     inputs>>
  BY Zenon DEF Dispose, controllerVars, adapterVars
<1>2. TypeOK'
  BY <1>1 DEF IInv, TypeOK
<1>3. GenerationsPast' /\ AttemptIsOfEnv' /\ ConfigScenes' /\ ConfigsOfAttempt'
  BY <1>1 DEF IInv, GenerationsPast, AttemptIsOfEnv, ConfigScenes,
       ConfigsOfAttempt
<1>4. LoadPhases' /\ ConfiguredPast' /\ HandledUnlessPublished'
  BY <1>1 DEF IInv, LoadPhases, ConfiguredPast, HandledUnlessPublished
<1>5. QED
  BY <1>2, <1>3, <1>4 DEF IInv

\* The widget resumes (viewer_widget.dart:522-532): what it removes was
\* applied, or is diagnosed, or does not count.
LEMMA WidgetResumesStep ==
  ASSUME IInv, NEW c \in configs, WidgetResumes(c)
  PROVE  IInv'
<1>1. /\ c.step # "reading" /\ configs' = configs \ {c}
      /\ reported' = IF mounted /\ c.generation = generation /\ c.step = "failed"
                       THEN reported \cup {<<c.scene, c.env>>} ELSE reported
      /\ UNCHANGED <<mounted, env, generation, attempt, configured, status,
                     settled, load, token, starts, scene, applied, inputs>>
  BY DEF WidgetResumes, controllerVars, adapterVars
<1>2. c \in Configs
  BY DEF IInv, TypeOK
<1>3. TypeOK'
  <2>1. <<c.scene, c.env>> \in Scenes \X Environments
    BY <1>2 DEF Configs
  <2>2. reported' \subseteq Scenes \X Environments
    BY <1>1, <2>1 DEF IInv, TypeOK
  <2>3. QED
    BY <1>1, <2>2 DEF IInv, TypeOK
<1>4. GenerationsPast' /\ AttemptIsOfEnv' /\ ConfigScenes' /\ ConfigsOfAttempt'
  BY <1>1 DEF IInv, GenerationsPast, AttemptIsOfEnv, ConfigScenes,
       ConfigsOfAttempt
<1>5. LoadPhases' /\ ConfiguredPast'
  BY <1>1 DEF IInv, LoadPhases, ConfiguredPast
<1>6. HandledUnlessPublished'
  <2>1. SUFFICES ASSUME mounted, attempt = env, load # "published"
                 PROVE  EnvironmentIsHandled'
    BY <1>1 DEF HandledUnlessPublished
  <2>2. EnvironmentIsHandled
    BY <2>1 DEF IInv, HandledUnlessPublished
  <2>3. CASE applied[scene] = env \/ <<scene, env>> \in reported
    BY <1>1, <2>3 DEF EnvironmentIsHandled
  <2>4. ASSUME NEW d \in configs, Current(d), d.step # "void"
        PROVE  EnvironmentIsHandled'
    <3>1. CASE d # c
      BY <1>1, <2>4, <3>1 DEF EnvironmentIsHandled, Current
    <3>2. CASE d = c /\ c.step = "applied"
      BY <1>1, <2>4, <3>2 DEF EnvironmentIsHandled, Current, IInv,
           ConfigsOfAttempt
    <3>3. CASE d = c /\ c.step = "failed"
      BY <1>1, <2>1, <2>4, <3>3 DEF EnvironmentIsHandled, Current
    <3>4. QED
      BY <1>1, <1>2, <2>4, <3>1, <3>2, <3>3 DEF Configs, Steps
  <2>5. QED
    BY <2>2, <2>3, <2>4 DEF EnvironmentIsHandled
<1>7. QED
  BY <1>3, <1>4, <1>5, <1>6 DEF IInv

\* The adapter's answer replaces a waiting configuration by one of the same
\* attempt; a void one does not count for a mounted widget.
LEMMA FinishKeepsHandled ==
  ASSUME IInv, NEW c \in configs, NEW step \in Steps, Finish(c, step),
         mounted, Current(c) => step # "void",
         UNCHANGED <<env, generation, scene, reported>>,
         applied'[scene] = applied[scene] \/ applied'[scene] = env,
         EnvironmentIsHandled
  PROVE  EnvironmentIsHandled'
<1> DEFINE d == [c EXCEPT !.step = step]
<1>1. /\ d \in configs' /\ d.step = step /\ d.generation = c.generation
      /\ d.env = c.env /\ d.scene = c.scene
  BY StepChanges DEF Finish, IInv, TypeOK
<1> HIDE DEF d
<1>2. CASE applied[scene] = env \/ <<scene, env>> \in reported
  BY <1>2 DEF EnvironmentIsHandled
<1>3. CASE Current(c)
  BY <1>1, <1>3 DEF EnvironmentIsHandled, Current
<1>4. ASSUME NEW e \in configs, e # c, Current(e), e.step # "void"
      PROVE  EnvironmentIsHandled'
  BY <1>4 DEF EnvironmentIsHandled, Current, Finish
<1>5. QED
  BY <1>2, <1>3, <1>4 DEF EnvironmentIsHandled

\* The environment is decoded (flutter_scene_adapter.dart:557-573).
LEMMA EnvironmentDecodedStep ==
  ASSUME IInv, NEW c \in configs, EnvironmentDecoded(c)
  PROVE  IInv'
<1>1. /\ c.step = "reading"
      /\ UNCHANGED <<mounted, env, generation, attempt, configured, status,
                     settled, load, token, starts, scene, reported, inputs>>
  BY DEF EnvironmentDecoded, controllerVars
<1>2. c \in Configs /\ c.scene \in 1..scene /\ c.env \in Environments
  BY DEF IInv, TypeOK, Configs, Scenes, ConfigScenes
<1>3. CASE Canceled(c) /\ Finish(c, "void") /\ UNCHANGED applied
  <2> DEFINE d == [c EXCEPT !.step = "void"]
  <2>1. /\ d \in Configs /\ d.step = "void" /\ d.generation = c.generation
        /\ d.env = c.env /\ d.scene = c.scene
    BY <1>2, StepChanges DEF Steps
  <2>2. configs' = (configs \ {c}) \cup {d}
    BY <1>3 DEF Finish
  <2> HIDE DEF d
  <2>3. TypeOK'
    BY <1>1, <1>3, <2>1, <2>2 DEF IInv, TypeOK
  <2>4. GenerationsPast' /\ AttemptIsOfEnv' /\ ConfigScenes'
    BY <1>1, <1>3, <2>1, <2>2 DEF IInv, GenerationsPast, AttemptIsOfEnv,
         ConfigScenes
  <2>5. ConfigsOfAttempt'
    BY <1>1, <1>3, <2>1, <2>2 DEF IInv, ConfigsOfAttempt, Canceled
  <2>6. LoadPhases' /\ ConfiguredPast'
    BY <1>1 DEF IInv, LoadPhases, ConfiguredPast
  <2>7. HandledUnlessPublished'
    BY <1>1, <1>3, FinishKeepsHandled DEF IInv, HandledUnlessPublished, Canceled,
         Current, Steps
  <2>8. QED
    BY <2>3, <2>4, <2>5, <2>6, <2>7 DEF IInv
<1>4. CASE ~Canceled(c) /\ Finish(c, "applied")
             /\ applied' = [applied EXCEPT ![c.scene] = c.env]
  <2> DEFINE d == [c EXCEPT !.step = "applied"]
  <2>1. /\ d \in Configs /\ d.step = "applied" /\ d.generation = c.generation
        /\ d.env = c.env /\ d.scene = c.scene
    BY <1>2, StepChanges DEF Steps
  <2>2. configs' = (configs \ {c}) \cup {d}
    BY <1>4 DEF Finish
  <2> HIDE DEF d
  <2>3. mounted /\ c.generation = generation /\ c.env = attempt /\ c.env = env
    BY <1>2, <1>4, EnvironmentAssumption DEF IInv, Canceled, ConfigsOfAttempt,
         AttemptIsOfEnv
  <2>4. TypeOK'
    <3>1. applied' \in [1..scene -> Environments \cup {NoEnvironment}]
      BY <1>2, <1>4 DEF IInv, TypeOK
    <3>2. QED
      BY <1>1, <2>1, <2>2, <3>1 DEF IInv, TypeOK
  <2>5. GenerationsPast' /\ AttemptIsOfEnv' /\ ConfigScenes'
    BY <1>1, <2>1, <2>2 DEF IInv, GenerationsPast, AttemptIsOfEnv, ConfigScenes
  <2>6. \A s \in 1..scene : applied'[s] = IF s = c.scene THEN c.env ELSE applied[s]
    BY <1>2, <1>4 DEF IInv, TypeOK
  <2>7. ConfigsOfAttempt'
    <3>1. ASSUME NEW e \in configs', e.generation = generation
          PROVE  /\ e.env = attempt
                 /\ e.step = "void" => ~mounted
                 /\ e.step = "applied" => applied'[e.scene] = e.env
      <4>1. CASE e = d
        BY <1>2, <2>1, <2>3, <2>6, <4>1
      <4>2. CASE e \in configs
        <5>1. e.scene \in 1..scene /\ e.env = c.env
          BY <2>3, <3>1, <4>2 DEF IInv, TypeOK, Configs, Scenes, ConfigScenes,
               ConfigsOfAttempt
        <5>2. QED
          BY <2>6, <3>1, <4>2, <5>1 DEF IInv, ConfigsOfAttempt
      <4>3. QED
        BY <2>2, <4>1, <4>2
    <3>2. QED
      BY <1>1, <3>1 DEF ConfigsOfAttempt
  <2>8. LoadPhases' /\ ConfiguredPast'
    BY <1>1 DEF IInv, LoadPhases, ConfiguredPast
  <2>9. HandledUnlessPublished'
    <3>1. scene >= 1
      BY <2>3, <1>2, EnvironmentAssumption DEF IInv, TypeOK, LoadPhases
    <3>2. applied'[scene] = applied[scene] \/ applied'[scene] = env
      BY <2>3, <2>6, <3>1 DEF IInv, TypeOK
    <3>3. QED
      BY <1>1, <1>4, <3>2, FinishKeepsHandled DEF IInv, HandledUnlessPublished,
           Canceled, Steps
  <2>10. QED
    BY <2>4, <2>5, <2>7, <2>8, <2>9 DEF IInv
<1>5. QED
  BY <1>3, <1>4 DEF EnvironmentDecoded

\* The environment's source fails (flutter_scene_adapter.dart:540-556).
LEMMA EnvironmentFailsStep ==
  ASSUME IInv, NEW c \in configs, EnvironmentFails(c)
  PROVE  IInv'
<1>1. /\ c.step = "reading" /\ Finish(c, "failed")
      /\ UNCHANGED <<mounted, env, generation, attempt, configured, status,
                     settled, load, token, starts, scene, applied, reported,
                     inputs>>
  BY DEF EnvironmentFails, controllerVars, adapterVars
<1> DEFINE d == [c EXCEPT !.step = "failed"]
<1>2. /\ d \in Configs /\ d.step = "failed" /\ d.generation = c.generation
      /\ d.env = c.env /\ d.scene = c.scene
  BY StepChanges DEF IInv, TypeOK, Steps
<1>3. configs' = (configs \ {c}) \cup {d}
  BY <1>1 DEF Finish
<1> HIDE DEF d
<1>4. TypeOK'
  BY <1>1, <1>2, <1>3 DEF IInv, TypeOK
<1>5. GenerationsPast' /\ AttemptIsOfEnv' /\ ConfigScenes' /\ ConfigsOfAttempt'
  BY <1>1, <1>2, <1>3 DEF IInv, GenerationsPast, AttemptIsOfEnv, ConfigScenes,
       ConfigsOfAttempt
<1>6. LoadPhases' /\ ConfiguredPast'
  BY <1>1 DEF IInv, LoadPhases, ConfiguredPast
<1>7. HandledUnlessPublished'
  BY <1>1, FinishKeepsHandled DEF IInv, HandledUnlessPublished, Steps
<1>8. QED
  BY <1>4, <1>5, <1>6, <1>7 DEF IInv

-----------------------------------------------------------------------------

\* No step breaks the invariant.
LEMMA NextKeepsIInv == IInv /\ [Next]_vars => IInv'
<1> SUFFICES ASSUME IInv, [Next]_vars PROVE IInv'
  OBVIOUS
<1>1. CASE Parent
  BY <1>1, ParentChangesEnvironmentStep, ParentChangesSourceStep, DisposeStep
     DEF Parent
<1>2. CASE Loading
  BY <1>2, StartedLoadBeginsStep, ControllerLoadBeginsStep, ScenePublishedStep,
     LoadReturnsStep, LoadSucceedsStep, LoadFailsStep, LoadCancelledStep
     DEF Loading
<1>3. CASE Configuring
  BY <1>3, EnvironmentDecodedStep, EnvironmentFailsStep, WidgetResumesStep
     DEF Configuring
<1>4. CASE UNCHANGED vars
  BY <1>4 DEF vars, widgetVars, controllerVars, adapterVars, IInv, TypeOK,
       GenerationsPast, AttemptIsOfEnv, ConfigScenes, ConfigsOfAttempt, LoadPhases,
       ConfiguredPast, HandledUnlessPublished, EnvironmentIsHandled, Current
<1>5. QED
  BY <1>1, <1>2, <1>3, <1>4 DEF Next

\* The inductive invariant holds in every reachable state.
THEOREM EnvironmentInvariant == Spec => []IInv
BY InitIInv, NextKeepsIInv, PTL DEF Spec

\* The widget's attempts, generations and configurations keep their types.
THEOREM EnvironmentTypes == Spec => []TypeOK
BY EnvironmentInvariant, PTL DEF IInv

\* A remembered attempt is real: the shown scene has been seen to.
THEOREM RememberedAttemptIsReal == Spec => []AttemptIsReal
<1>1. IInv => AttemptIsReal
  BY DEF IInv, LoadPhases, HandledUnlessPublished, AttemptIsReal
<1>2. QED
  BY <1>1, EnvironmentInvariant, PTL

\* A stale environment never reaches a scene, nor does any after dispose.
THEOREM StaleEnvironmentIsDropped == Spec => NoStaleEnvironment
<1> DEFINE Fresh == \A s \in DOMAIN applied :
                      applied'[s] # applied[s] => mounted /\ applied'[s] = env
<1>1. IInv /\ [Next]_vars => [Fresh]_vars
  <2> SUFFICES ASSUME IInv, Next PROVE Fresh
    BY DEF Fresh
  <2>1. CASE UNCHANGED applied
    BY <2>1 DEF Fresh
  <2>2. CASE ScenePublished
    BY <2>2 DEF ScenePublished, IInv, TypeOK, Fresh
  <2>3. ASSUME NEW c \in configs, EnvironmentDecoded(c), ~UNCHANGED applied
        PROVE  Fresh
    <3>1. /\ ~Canceled(c)
          /\ applied' = [applied EXCEPT ![c.scene] = c.env]
      BY <2>3 DEF EnvironmentDecoded
    <3>2. mounted /\ c.env = env
      BY <3>1, EnvironmentAssumption DEF Canceled, IInv, TypeOK, Configs,
           ConfigsOfAttempt, AttemptIsOfEnv
    <3>3. QED
      BY <3>1, <3>2 DEF IInv, TypeOK, Fresh
  <2>4. QED
    BY <2>1, <2>2, <2>3 DEF Next, Parent, Loading, Configuring,
         ParentChangesEnvironment, ParentChangesSource, Dispose,
         StartedLoadBegins, ControllerLoadBegins, LoadBegins, LoadReturns,
         LoadSucceeds, LoadFails, LoadCancelled, Settle, EnvironmentFails,
         WidgetResumes, adapterVars
<1>2. QED
  BY <1>1, EnvironmentInvariant, PTL DEF Spec, NoStaleEnvironment

\* A diagnostic is recorded for the environment asked for, or not at all.
THEOREM DiagnosticsAreOfTheEnvironment == Spec => DiagnosticsAreCurrent
<1> DEFINE Fresh == \A r \in reported' \ reported : mounted /\ r[2] = env
<1>1. IInv /\ [Next]_vars => [Fresh]_vars
  <2> SUFFICES ASSUME IInv, Next PROVE Fresh
    BY DEF Fresh
  <2>1. CASE UNCHANGED reported
    BY <2>1 DEF Fresh
  <2>2. ASSUME NEW c \in configs, WidgetResumes(c), ~UNCHANGED reported
        PROVE  Fresh
    <3>1. /\ mounted /\ c.generation = generation
          /\ reported' = reported \cup {<<c.scene, c.env>>}
      BY <2>2 DEF WidgetResumes
    <3>2. c.env = env
      BY <3>1, EnvironmentAssumption DEF IInv, TypeOK, Configs,
           ConfigsOfAttempt, AttemptIsOfEnv
    <3>3. QED
      BY <3>1, <3>2 DEF Fresh
  <2>3. QED
    BY <2>1, <2>2 DEF Next, Parent, Loading, Configuring,
         ParentChangesEnvironment, ParentChangesSource, Dispose,
         StartedLoadBegins, ControllerLoadBegins, LoadBegins, LoadReturns,
         ScenePublished, LoadSucceeds, LoadFails, LoadCancelled, Settle,
         EnvironmentFails, EnvironmentDecoded
<1>2. QED
  BY <1>1, EnvironmentInvariant, PTL DEF Spec, DiagnosticsAreCurrent

\* A model that becomes visible has its environment configured or under way.
THEOREM VisibleModelIsConfigured == Spec => NewModelIsConfigured
<1> DEFINE Handled == mounted /\ status' = "success" /\ settled' # settled
                        => EnvironmentIsHandled'
<1>1. IInv /\ IInv' /\ [Next]_vars => [Handled]_vars
  <2> SUFFICES ASSUME IInv, IInv', Next, mounted, status' = "success",
                      settled' # settled
               PROVE  EnvironmentIsHandled'
    BY DEF Handled
  <2>1. LoadSucceeds
    BY DEF Next, Parent, Loading, Configuring, ParentChangesEnvironment,
         ParentChangesSource, Dispose, StartedLoadBegins, ControllerLoadBegins,
         LoadBegins, LoadReturns, ScenePublished, LoadFails, LoadCancelled,
         Settle, EnvironmentFails, EnvironmentDecoded, WidgetResumes,
         controllerVars
  <2>2. /\ load' = "none" /\ mounted' = mounted /\ env' = env
        /\ settled'.number = settled.number + 1
        /\ HandleControllerChanged
    BY <2>1 DEF LoadSucceeds, Settle
  <2>3. configured # settled'.number
    BY <2>2 DEF IInv, TypeOK, ConfiguredPast
  <2>4. attempt' = env
    BY <2>2, <2>3 DEF HandleControllerChanged, ConfigureIfReady
  <2>5. QED
    BY <2>2, <2>4 DEF IInv, HandledUnlessPublished
<1>2. QED
  BY <1>1, EnvironmentInvariant, PTL DEF Spec, NewModelIsConfigured

=============================================================================
