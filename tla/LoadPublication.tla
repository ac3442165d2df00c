--------------------------- MODULE LoadPublication ---------------------------
(***************************************************************************)
(* How a model becomes the one the viewer shows: the controller's load     *)
(* (viewer_controller.dart), the loader it drives through its command sink *)
(* (model_loader.dart), the scene adapter that commits the new scene       *)
(* (flutter_scene_adapter.dart) and the cancellation tokens of the callers *)
(* (model_load_cancellation.dart).  Everything runs on one event loop:     *)
(* the code between two awaits is one action, and loads interleave at the  *)
(* awaits.                                                                 *)
(*                                                                         *)
(* A load call stands for its attempt number (each call takes a fresh one) *)
(* and for the model it loads; a completer of the finalization gate is     *)
(* named by the load that created it.                                      *)
(***************************************************************************)
EXTENDS Naturals, Sequences

CONSTANTS Loads,     \* the calls of controller.load
          Tokens,    \* the cancellation controllers the callers own
          TokenOf,   \* the token each call passes, or NoToken
          NoLoad, NoToken

ASSUME TokenAssumption == TokenOf \in [Loads -> Tokens \cup {NoToken}]
ASSUME NoLoadAssumption == NoLoad \notin Loads
ASSUME NoTokenAssumption == NoToken \notin Tokens

VARIABLES
  \* the controller
  attached,                \* a viewer widget is attached as command sink
  loadState,               \* _loadState
  lastSettledLoadState,    \* _lastSettledLoadState
  acceptedFinalization,    \* _acceptedPublicationFinalization: who opened it
  waiting,                 \* loads that await that completer, in order
  resuming,                \* loads whose await ended: queued microtasks
  activeLoadAttempt,       \* _activeLoadAttempt
  partTree,                \* the load whose parts _partTree holds
  materialOverrides,       \* the loads whose patches _materialOverrides holds
  \* each call of controller.load
  call,                    \* where the call is
  heldFinalization,        \* its local acceptedFinalization
  terminal,                \* what Future.any of sink and token completed with
  cancelDiagnostics,       \* how often it reported modelLoadCancelled
  \* each call of ModelLoader.load
  stage,                   \* where the loader is
  outcome,                 \* the result it returned
  snapshot,                \* the scene whose parts the result describes
  \* the adapter
  import,                  \* each adapter import
  liveScene,               \* the load whose scene is _scene
  \* the tokens
  cancelled,               \* tokens with a reason
  publicationAccepted      \* tokens closed by an accepted publication

viewerVars == <<attached, loadState, lastSettledLoadState, activeLoadAttempt,
                partTree, materialOverrides>>
gateVars == <<acceptedFinalization, waiting, resuming>>
callVars == <<call, heldFinalization, terminal, cancelDiagnostics>>
loaderVars == <<stage, outcome, snapshot>>
adapterVars == <<import, liveScene>>
tokenVars == <<cancelled, publicationAccepted>>
vars == <<viewerVars, gateVars, callVars, loaderVars, adapterVars, tokenVars>>

MaybeLoad == Loads \cup {NoLoad}
Outcomes == {"success", "cancelled", "superseded", "failed"}
LoadState == [status : {"idle", "loading", "success", "error"},
              source : MaybeLoad]
State(status, l) == [status |-> status, source |-> l]

TypeOK ==
  /\ attached \in BOOLEAN
  /\ loadState \in LoadState
  /\ lastSettledLoadState \in LoadState
  /\ acceptedFinalization \in MaybeLoad
  /\ waiting \in Seq(Loads)
  /\ resuming \in Seq(Loads)
  /\ activeLoadAttempt \in MaybeLoad
  /\ partTree \in MaybeLoad
  /\ materialOverrides \in SUBSET Loads
  /\ call \in [Loads -> {"idle", "waiting", "loading", "authored", "initial",
                         "done"}]
  /\ heldFinalization \in [Loads -> MaybeLoad]
  /\ terminal \in [Loads -> Outcomes \cup {"none"}]
  /\ cancelDiagnostics \in [Loads -> Nat]
  /\ stage \in [Loads -> {"idle", "acquiring", "preparing", "importing",
                          "done"}]
  /\ outcome \in [Loads -> Outcomes \cup {"none"}]
  /\ snapshot \in [Loads -> MaybeLoad]
  /\ import \in [Loads -> {"none", "staging", "published", "superseded",
                           "rejected", "failed"}]
  /\ liveScene \in MaybeLoad
  /\ cancelled \in SUBSET Tokens
  /\ publicationAccepted \in SUBSET Tokens

Init ==
  /\ attached = TRUE
  /\ loadState = State("idle", NoLoad)
  /\ lastSettledLoadState = State("idle", NoLoad)
  /\ acceptedFinalization = NoLoad
  /\ waiting = <<>>
  /\ resuming = <<>>
  /\ activeLoadAttempt = NoLoad
  /\ partTree = NoLoad
  /\ materialOverrides = {}
  /\ call = [l \in Loads |-> "idle"]
  /\ heldFinalization = [l \in Loads |-> NoLoad]
  /\ terminal = [l \in Loads |-> "none"]
  /\ cancelDiagnostics = [l \in Loads |-> 0]
  /\ stage = [l \in Loads |-> "idle"]
  /\ outcome = [l \in Loads |-> "none"]
  /\ snapshot = [l \in Loads |-> NoLoad]
  /\ import = [l \in Loads |-> "none"]
  /\ liveScene = NoLoad
  /\ cancelled = {}
  /\ publicationAccepted = {}

-----------------------------------------------------------------------------
(* The token and the finalization gate.                                    *)

Cancelled(l) == TokenOf[l] \in cancelled

IsCurrentLoadAttempt(l) == activeLoadAttempt = l

\* Seeded bug: the commit forgets the reason of the token.
TokenRefusesAcceptedOnly(l) == TokenOf[l] \in publicationAccepted

TokenRefuses(l) == TokenOf[l] \in cancelled \cup publicationAccepted

\* _beginAcceptedPublicationFinalization: an open gate is shared.
OpenedBy(l) == IF acceptedFinalization = NoLoad THEN l ELSE acceptedFinalization

\* _endAcceptedPublicationFinalization of a completer: the loads that await
\* it become microtasks.
EndFinalization(completer) ==
  IF completer # NoLoad /\ acceptedFinalization = completer
    THEN /\ acceptedFinalization' = NoLoad
         /\ resuming' = resuming \o waiting
         /\ waiting' = <<>>
    ELSE UNCHANGED gateVars

\* cancel: refused after a first reason or an accepted publication.
Cancel(t) ==
  /\ t \notin cancelled
  /\ t \notin publicationAccepted
  /\ cancelled' = cancelled \cup {t}
  /\ UNCHANGED <<viewerVars, gateVars, callVars, loaderVars, adapterVars,
                 publicationAccepted>>

Attach ==
  /\ ~attached
  /\ attached' = TRUE
  /\ UNCHANGED <<loadState, lastSettledLoadState, activeLoadAttempt, partTree,
                 materialOverrides, gateVars, callVars, loaderVars,
                 adapterVars, tokenVars>>

Detach ==
  /\ attached
  /\ attached' = FALSE
  /\ UNCHANGED <<loadState, lastSettledLoadState, activeLoadAttempt, partTree,
                 materialOverrides, gateVars, callVars, loaderVars,
                 adapterVars, tokenVars>>

-----------------------------------------------------------------------------
(* Calling load.                                                           *)

\* The part of load after the gate, up to the first await of the loader: a
\* detached controller throws; an attached one makes the load the current
\* attempt, and the loader looks at the token before it acquires the source.
StartAttempt(l) ==
  \/ /\ ~attached
     /\ call' = [call EXCEPT ![l] = "done"]
     /\ UNCHANGED <<viewerVars, stage, outcome>>
  \/ /\ attached
     /\ activeLoadAttempt' = l
     /\ loadState' = State("loading", l)
     /\ call' = [call EXCEPT ![l] = "loading"]
     /\ stage' = [stage EXCEPT ![l] = IF Cancelled(l) THEN "done"
                                                      ELSE "acquiring"]
     /\ outcome' = [outcome EXCEPT ![l] = IF Cancelled(l) THEN "cancelled"
                                                          ELSE "none"]
     /\ UNCHANGED <<attached, lastSettledLoadState, partTree,
                    materialOverrides>>

\* A call with a cancelled token only reports the cancellation.
LoadPreCancelled(l) ==
  /\ call[l] = "idle"
  /\ Cancelled(l)
  /\ call' = [call EXCEPT ![l] = "done"]
  /\ terminal' = [terminal EXCEPT ![l] = "cancelled"]
  /\ cancelDiagnostics' = [cancelDiagnostics EXCEPT ![l] = @ + 1]
  /\ UNCHANGED <<viewerVars, gateVars, heldFinalization, loaderVars,
                 adapterVars, tokenVars>>

\* A call that finds the gate closed awaits it.
LoadWaits(l) ==
  /\ call[l] = "idle"
  /\ ~Cancelled(l)
  /\ acceptedFinalization # NoLoad
  /\ call' = [call EXCEPT ![l] = "waiting"]
  /\ waiting' = Append(waiting, l)
  /\ UNCHANGED <<viewerVars, acceptedFinalization, resuming, heldFinalization,
                 terminal, cancelDiagnostics, loaderVars, adapterVars,
                 tokenVars>>

\* Seeded bug: load does not look at the finalization gate.
LoadStartsThroughGate(l) ==
  /\ call[l] = "idle"
  /\ ~Cancelled(l)
  /\ StartAttempt(l)
  /\ UNCHANGED <<gateVars, heldFinalization, terminal, cancelDiagnostics,
                 snapshot, adapterVars, tokenVars>>

LoadStarts(l) ==
  /\ call[l] = "idle"
  /\ ~Cancelled(l)
  /\ acceptedFinalization = NoLoad
  /\ StartAttempt(l)
  /\ UNCHANGED <<gateVars, heldFinalization, terminal, cancelDiagnostics,
                 snapshot, adapterVars, tokenVars>>

\* The await of the gate ends, first come first served; neither the gate nor
\* the token is looked at again.
LoadResumes ==
  /\ resuming # <<>>
  /\ StartAttempt(Head(resuming))
  /\ resuming' = Tail(resuming)
  /\ UNCHANGED <<acceptedFinalization, waiting, heldFinalization, terminal,
                 cancelDiagnostics, snapshot, adapterVars, tokenVars>>

-----------------------------------------------------------------------------
(* ModelLoader.load.                                                       *)

LoaderReturns(l, result) ==
  /\ stage' = [stage EXCEPT ![l] = "done"]
  /\ outcome' = [outcome EXCEPT ![l] = result]

\* The source wins its race against cancellation and timeout.
SourceAcquired(l) ==
  /\ stage[l] = "acquiring"
  /\ ~Cancelled(l)
  /\ stage' = [stage EXCEPT ![l] = "preparing"]
  /\ UNCHANGED <<viewerVars, gateVars, callVars, outcome, snapshot,
                 adapterVars, tokenVars>>

\* A race or a check between two awaits observes the cancelled token.
LoaderObservesCancellation(l) ==
  /\ stage[l] \in {"acquiring", "preparing"}
  /\ Cancelled(l)
  /\ LoaderReturns(l, "cancelled")
  /\ UNCHANGED <<viewerVars, gateVars, callVars, snapshot, adapterVars,
                 tokenVars>>

\* A source, size, budget, capability, decoder or preflight error, or a
\* timeout of the source or of the preflight.
LoaderFails(l) ==
  /\ stage[l] \in {"acquiring", "preparing"}
  /\ LoaderReturns(l, "failed")
  /\ UNCHANGED <<viewerVars, gateVars, callVars, snapshot, adapterVars,
                 tokenVars>>

\* The rewritten, checked bytes go to the adapter.
ImportStarts(l) ==
  /\ stage[l] = "preparing"
  /\ ~Cancelled(l)
  /\ stage' = [stage EXCEPT ![l] = "importing"]
  /\ import' = [import EXCEPT ![l] = "staging"]
  /\ UNCHANGED <<viewerVars, gateVars, callVars, outcome, snapshot, liveScene,
                 tokenVars>>

\* The timer on the import fires; the import itself goes on.
ImportTimesOut(l) ==
  /\ stage[l] = "importing"
  /\ import[l] = "staging"
  /\ LoaderReturns(l, "failed")
  /\ UNCHANGED <<viewerVars, gateVars, callVars, snapshot, adapterVars,
                 tokenVars>>

\* The loader resumes after the import and reads the adapter's live nodes.
ImportReturns(l) ==
  /\ stage[l] = "importing"
  /\ \/ /\ import[l] = "published"
        /\ LoaderReturns(l, IF Cancelled(l) THEN "cancelled" ELSE "success")
        /\ snapshot' = [snapshot EXCEPT ![l] = liveScene]
     \/ /\ import[l] = "superseded"
        /\ LoaderReturns(l, "superseded")
        /\ UNCHANGED snapshot
     \/ /\ import[l] = "rejected"
        /\ LoaderReturns(l, IF TokenOf[l] = NoToken THEN "superseded"
                                                    ELSE "cancelled")
        /\ UNCHANGED snapshot
     \/ /\ import[l] = "failed"
        /\ LoaderReturns(l, "failed")
        /\ UNCHANGED snapshot
  /\ UNCHANGED <<viewerVars, gateVars, callVars, adapterVars, tokenVars>>

-----------------------------------------------------------------------------
(* The adapter's import; its commit is the last thing it does, without an   *)
(* await.                                                                  *)

AdapterFails(l) ==
  /\ import[l] = "staging"
  /\ import' = [import EXCEPT ![l] = "failed"]
  /\ UNCHANGED <<viewerVars, gateVars, callVars, loaderVars, liveScene,
                 tokenVars>>

\* The authored mips are bound image by image, with a look at the token.
AdapterObservesCancellation(l) ==
  /\ import[l] = "staging"
  /\ Cancelled(l)
  /\ import' = [import EXCEPT ![l] = "rejected"]
  /\ UNCHANGED <<viewerVars, gateVars, callVars, loaderVars, liveScene,
                 tokenVars>>

\* The loader's publicationClosed: it returned before the import finished.
CommitRefusedByLoader(l) ==
  /\ import[l] = "staging"
  /\ stage[l] = "done"
  /\ import' = [import EXCEPT ![l] = "rejected"]
  /\ UNCHANGED <<viewerVars, gateVars, callVars, loaderVars, liveScene,
                 tokenVars>>

\* Seeded bug: the controller does not check that the load is current.
ControllerAcceptsStale(l) == call[l] # "done"

\* The controller's tryAcceptPublication.
ControllerAccepts(l) == call[l] # "done" /\ IsCurrentLoadAttempt(l)

CommitSuperseded(l) ==
  /\ import[l] = "staging"
  /\ stage[l] = "importing"
  /\ ~ControllerAccepts(l)
  /\ import' = [import EXCEPT ![l] = "superseded"]
  /\ UNCHANGED <<viewerVars, gateVars, callVars, loaderVars, liveScene,
                 tokenVars>>

\* Seeded bug: onPublicationRejected does not release the gate.
CommitRefusedKeepsGate(l) ==
  /\ import[l] = "staging"
  /\ stage[l] = "importing"
  /\ ControllerAccepts(l)
  /\ TokenRefuses(l)
  /\ import' = [import EXCEPT ![l] = "rejected"]
  /\ acceptedFinalization' = OpenedBy(l)
  /\ UNCHANGED <<viewerVars, waiting, resuming, callVars, loaderVars,
                 liveScene, tokenVars>>

\* The controller opens the gate, the token refuses, onPublicationRejected
\* ends the gate again.
CommitRefusedByToken(l) ==
  /\ import[l] = "staging"
  /\ stage[l] = "importing"
  /\ ControllerAccepts(l)
  /\ TokenRefuses(l)
  /\ import' = [import EXCEPT ![l] = "rejected"]
  /\ EndFinalization(acceptedFinalization)
  /\ UNCHANGED <<viewerVars, callVars, loaderVars, liveScene, tokenVars>>

\* Both accept: the gate is open, the token is closed, the scene is live.
Publish(l) ==
  /\ import[l] = "staging"
  /\ stage[l] = "importing"
  /\ ControllerAccepts(l)
  /\ ~TokenRefuses(l)
  /\ import' = [import EXCEPT ![l] = "published"]
  /\ liveScene' = l
  /\ acceptedFinalization' = OpenedBy(l)
  /\ heldFinalization' = [heldFinalization EXCEPT ![l] = OpenedBy(l)]
  /\ publicationAccepted' = publicationAccepted \cup ({TokenOf[l]} \ {NoToken})
  /\ UNCHANGED <<viewerVars, waiting, resuming, call, terminal,
                 cancelDiagnostics, loaderVars, cancelled>>

-----------------------------------------------------------------------------
(* The controller after its await of the sink and the token.               *)

\* Seeded bug: the loader's place is taken for its result.
SinkReturnsStage(l) ==
  /\ call[l] = "loading"
  /\ terminal[l] = "none"
  /\ stage[l] = "done"
  /\ terminal' = [terminal EXCEPT ![l] = stage[l]]
  /\ UNCHANGED <<viewerVars, gateVars, call, heldFinalization,
                 cancelDiagnostics, loaderVars, adapterVars, tokenVars>>

\* Future.any completes with whichever comes first.
SinkReturns(l) ==
  /\ call[l] = "loading"
  /\ terminal[l] = "none"
  /\ stage[l] = "done"
  /\ terminal' = [terminal EXCEPT ![l] = outcome[l]]
  /\ UNCHANGED <<viewerVars, gateVars, call, heldFinalization,
                 cancelDiagnostics, loaderVars, adapterVars, tokenVars>>

CancellationReturns(l) ==
  /\ call[l] = "loading"
  /\ terminal[l] = "none"
  /\ Cancelled(l)
  /\ terminal' = [terminal EXCEPT ![l] = "cancelled"]
  /\ UNCHANGED <<viewerVars, gateVars, call, heldFinalization,
                 cancelDiagnostics, loaderVars, adapterVars, tokenVars>>

\* The finally clause: publication is closed for the adapter, the gate ends.
Finish(l) ==
  /\ call' = [call EXCEPT ![l] = "done"]
  /\ EndFinalization(heldFinalization[l])

\* Seeded bug: the last settled state is not restored.
FinishCancellationInPlace(l) ==
  /\ cancelDiagnostics' = [cancelDiagnostics EXCEPT ![l] = @ + 1]
  /\ UNCHANGED viewerVars
  /\ Finish(l)

\* _finishLoadCancellation: one diagnostic, and the current load gives the
\* viewer back its last settled state.
FinishLoadCancellation(l) ==
  /\ cancelDiagnostics' = [cancelDiagnostics EXCEPT ![l] = @ + 1]
  /\ loadState' = IF IsCurrentLoadAttempt(l) THEN lastSettledLoadState
                                             ELSE loadState
  /\ UNCHANGED <<attached, lastSettledLoadState, activeLoadAttempt, partTree,
                 materialOverrides>>
  /\ Finish(l)

\* An error settles the viewer: no parts, no overrides, the error state.
SettleError(l) ==
  /\ partTree' = NoLoad
  /\ materialOverrides' = {}
  /\ lastSettledLoadState' = State("error", l)
  /\ loadState' = State("error", l)
  /\ UNCHANGED <<attached, activeLoadAttempt>>

\* Seeded bug: a stale load drops its cancellation.
SettleStaleSilently(l) ==
  /\ call[l] = "loading"
  /\ terminal[l] # "none"
  /\ ~IsCurrentLoadAttempt(l)
  /\ Finish(l)
  /\ UNCHANGED <<viewerVars, heldFinalization, terminal, cancelDiagnostics,
                 loaderVars, adapterVars, tokenVars>>

\* A load that is no longer the current attempt reports at most that it was
\* cancelled.
SettleStale(l) ==
  /\ call[l] = "loading"
  /\ terminal[l] # "none"
  /\ ~IsCurrentLoadAttempt(l)
  /\ cancelDiagnostics' =
       IF terminal[l] = "cancelled"
         THEN [cancelDiagnostics EXCEPT ![l] = @ + 1] ELSE cancelDiagnostics
  /\ Finish(l)
  /\ UNCHANGED <<viewerVars, heldFinalization, terminal, loaderVars,
                 adapterVars, tokenVars>>

SettleCancelled(l) ==
  /\ call[l] = "loading"
  /\ IsCurrentLoadAttempt(l)
  /\ \/ terminal[l] = "cancelled"
     \/ terminal[l] = "success" /\ Cancelled(l)
  /\ FinishLoadCancellation(l)
  /\ UNCHANGED <<heldFinalization, terminal, loaderVars, adapterVars,
                 tokenVars>>

SettleFailed(l) ==
  /\ call[l] = "loading"
  /\ IsCurrentLoadAttempt(l)
  /\ terminal[l] \in {"failed", "superseded"}
  /\ SettleError(l)
  /\ Finish(l)
  /\ UNCHANGED <<heldFinalization, terminal, cancelDiagnostics, loaderVars,
                 adapterVars, tokenVars>>

\* The result's parts replace the controller's, the overrides are reset, and
\* the material patches are applied behind the gate.
FinalizationStarts(l) ==
  /\ call[l] = "loading"
  /\ IsCurrentLoadAttempt(l)
  /\ terminal[l] = "success"
  /\ ~Cancelled(l)
  /\ call' = [call EXCEPT ![l] = "authored"]
  /\ heldFinalization' = [heldFinalization EXCEPT
                            ![l] = IF @ = NoLoad THEN OpenedBy(l) ELSE @]
  /\ acceptedFinalization' = IF heldFinalization[l] = NoLoad
                               THEN OpenedBy(l) ELSE acceptedFinalization
  /\ partTree' = snapshot[l]
  /\ materialOverrides' = {}
  /\ UNCHANGED <<attached, loadState, lastSettledLoadState, activeLoadAttempt,
                 waiting, resuming, terminal, cancelDiagnostics, loaderVars,
                 adapterVars, tokenVars>>

AuthoredPatchesApplied(l) ==
  /\ call[l] = "authored"
  /\ \/ /\ Cancelled(l)
        /\ FinishLoadCancellation(l)
     \/ /\ ~Cancelled(l)
        /\ call' = [call EXCEPT ![l] = "initial"]
        /\ UNCHANGED <<viewerVars, gateVars, cancelDiagnostics>>
  /\ UNCHANGED <<heldFinalization, terminal, loaderVars, adapterVars,
                 tokenVars>>

\* A patch the sink accepts is recorded as an override of the load's parts.
InitialOverrideApplied(l) ==
  /\ call[l] = "initial"
  /\ materialOverrides' = materialOverrides \cup {l}
  /\ UNCHANGED <<attached, loadState, lastSettledLoadState, activeLoadAttempt,
                 partTree, gateVars, callVars, loaderVars, adapterVars,
                 tokenVars>>

\* No initial override is left: the load settles.
InitialOverridesDone(l) ==
  /\ call[l] = "initial"
  /\ \/ /\ Cancelled(l)
        /\ FinishLoadCancellation(l)
     \/ /\ ~Cancelled(l)
        /\ loadState' = State("success", l)
        /\ lastSettledLoadState' = State("success", l)
        /\ UNCHANGED <<attached, activeLoadAttempt, partTree,
                       materialOverrides, cancelDiagnostics>>
        /\ Finish(l)
  /\ UNCHANGED <<heldFinalization, terminal, loaderVars, adapterVars,
                 tokenVars>>

\* The sink throws while patches are applied: the catch clause.
FinalizationThrows(l) ==
  /\ call[l] \in {"authored", "initial"}
  /\ IF IsCurrentLoadAttempt(l) THEN SettleError(l) ELSE UNCHANGED viewerVars
  /\ Finish(l)
  /\ UNCHANGED <<heldFinalization, terminal, cancelDiagnostics, loaderVars,
                 adapterVars, tokenVars>>

-----------------------------------------------------------------------------

\* The caller's side: it calls load once per element of Loads.
Request(l) == LoadPreCancelled(l) \/ LoadWaits(l) \/ LoadStarts(l)

LoaderStep(l) ==
  \/ SourceAcquired(l) \/ LoaderObservesCancellation(l) \/ LoaderFails(l)
  \/ ImportStarts(l) \/ ImportTimesOut(l) \/ ImportReturns(l)

AdapterStep(l) ==
  \/ AdapterFails(l) \/ AdapterObservesCancellation(l)
  \/ CommitRefusedByLoader(l) \/ CommitSuperseded(l)
  \/ CommitRefusedByToken(l) \/ Publish(l)

\* The controller with the result of the loader or of the token.
ResultStep(l) ==
  \/ SinkReturns(l) \/ CancellationReturns(l)
  \/ SettleStale(l) \/ SettleCancelled(l) \/ SettleFailed(l)
  \/ FinalizationStarts(l)

\* The controller with the answer to a material patch.
PatchStep(l) ==
  \/ AuthoredPatchesApplied(l) \/ InitialOverrideApplied(l)
  \/ InitialOverridesDone(l) \/ FinalizationThrows(l)

ControllerStep(l) == ResultStep(l) \/ PatchStep(l)

\* Callbacks run after the microtasks queued before them: the loads that wait
\* for an ended gate resume before another load's await does.  Callers run
\* whenever they like.
Next ==
  \/ \E l \in Loads : Request(l)
  \/ \E t \in Tokens : Cancel(t)
  \/ Attach \/ Detach
  \/ LoadResumes
  \/ /\ resuming = <<>>
     /\ \E l \in Loads : LoaderStep(l) \/ AdapterStep(l) \/ ControllerStep(l)

\* The loader's awaits of the source, the decoders, the preflight and the
\* import are raced against timers, and what is ready on the event loop runs.
\* Nothing else is fair: the adapter may never end an import, and a patch may
\* never be answered, as its textures come from an http.get without a timer.
Fairness ==
  /\ WF_vars(LoadResumes)
  /\ \A l \in Loads :
       /\ WF_vars(resuming = <<>> /\ LoaderStep(l))
       /\ WF_vars(resuming = <<>> /\ ResultStep(l))

SafetySpec == Init /\ [][Next]_vars
Spec == SafetySpec /\ Fairness

-----------------------------------------------------------------------------
(* Properties.                                                             *)

\* A success the controller reports is about the scene that is live and the
\* part tree it exposes, and only that load's overrides are kept, also after
\* any number of later loads were cancelled, superseded or refused.
SuccessIsCoherent ==
  loadState.status = "success" =>
    /\ liveScene = loadState.source
    /\ partTree = loadState.source
    /\ materialOverrides \subseteq {loadState.source}

\* From the adapter's commit until the load's finally clause the load stays
\* the current attempt, its scene stays live and the gate is its own: the
\* awaits of finalization need no staleness check.
PublicationIsExclusive ==
  \A l \in Loads : import[l] = "published" /\ call[l] # "done" =>
    /\ IsCurrentLoadAttempt(l)
    /\ liveScene = l
    /\ acceptedFinalization = l

\* A load whose publication was accepted is never cancelled, by its own token
\* or one that it shares, and a finished call reported its cancellation exactly
\* once if cancellation won, and never otherwise, stale calls included.
CancellationIsCoherent ==
  \A l \in Loads :
    /\ import[l] = "published" => ~Cancelled(l) /\ terminal[l] # "cancelled"
    /\ call[l] = "done" =>
         cancelDiagnostics[l] = IF terminal[l] = "cancelled" THEN 1 ELSE 0

\* The viewer never keeps a loading state nobody will replace: the load it
\* names is the current attempt and its call is still running.
LoadingIsAlive ==
  loadState.status = "loading" =>
    /\ IsCurrentLoadAttempt(loadState.source)
    /\ call[loadState.source] \in {"loading", "authored", "initial"}

\* l awaits a material patch, its own or that of the load whose gate it is
\* parked on.
AwaitsPatch(l) ==
  LET patching == {m \in Loads : call[m] \in {"authored", "initial"}}
  IN \/ l \in patching
     \/ call[l] = "waiting" /\ acceptedFinalization \in patching

\* Every call of load ends, the ones parked on another load's gate included,
\* unless it awaits for ever a patch that is never answered: a hanging import,
\* a refused publication, a failure or a cancellation holds nobody up.
EveryLoadSettles ==
  \A l \in Loads : \/ call[l] # "idle" ~> call[l] = "done"
                    \/ <>[]AwaitsPatch(l)

\* The load pipeline keeps the promise of PublicationSlot.
Phase(l) ==
  CASE call[l] = "done" /\ import[l] = "published" -> "settled"
    [] call[l] = "done" /\ import[l] # "published" -> "dropped"
    [] call[l] \in {"idle", "waiting"}              -> "idle"
    [] OTHER -> IF import[l] = "published" THEN "committed" ELSE "pending"

Slot == INSTANCE PublicationSlot
          WITH phase <- [l \in Loads |-> Phase(l)],
               holder <- activeLoadAttempt,
               shown <- liveScene,
               withdrawn <- {l \in Loads : Cancelled(l)}

ImplementsSlot == Slot!SlotSpec

\* What test/viewer_controller_load_test.dart:449 asks for: a load that is
\* already cancelled does not supersede a pending load.
PreCancelledDoesNotSupersede ==
  [][\A l, m \in Loads :
       /\ activeLoadAttempt = m /\ call[m] = "loading"
       /\ activeLoadAttempt' = l /\ l # m
       => ~Cancelled(l)]_vars

\* What docs/PUBLIC_API.md says of controller.partTree: it exposes the last
\* successfully loaded hierarchy, so a tree is only ever replaced by a tree.
PartTreeIsLastSuccessful ==
  [][(partTree \in Loads) => (partTree' \in Loads)]_vars

-----------------------------------------------------------------------------
(* The inductive invariant behind the safety properties.                   *)

Running(l) == call[l] \in {"loading", "authored", "initial"}

\* A published load closed its token, and a closed token has no reason.
TokensAreClosed ==
  /\ cancelled \cap publicationAccepted = {}
  /\ \A l \in Loads : import[l] = "published" =>
       TokenOf[l] \in publicationAccepted \cup {NoToken}

\* Controller, loader and adapter agree on how far a load got.
StagesAgree ==
  \A l \in Loads :
    /\ call[l] \in {"idle", "waiting"} =>
         stage[l] = "idle" /\ terminal[l] = "none"
         /\ heldFinalization[l] = NoLoad
    /\ stage[l] \in {"idle", "acquiring", "preparing"} => import[l] = "none"
    /\ stage[l] # "done" => outcome[l] = "none"
    /\ terminal[l] \in {"success", "failed", "superseded"} =>
         outcome[l] = terminal[l]
    /\ terminal[l] = "cancelled" => Cancelled(l) \/ outcome[l] = "cancelled"
    /\ outcome[l] = "success" => import[l] = "published" /\ snapshot[l] = l
    /\ import[l] = "published" =>
         /\ outcome[l] \in {"none", "success"}
         /\ call[l] = "done" => outcome[l] = "success"
    /\ call[l] \in {"authored", "initial"} => terminal[l] = "success"

\* An open gate belongs to one running, published load, and a load holds no
\* gate but an open one of its own.
GateIsOwned ==
  /\ acceptedFinalization # NoLoad =>
       /\ import[acceptedFinalization] = "published"
       /\ Running(acceptedFinalization)
       /\ heldFinalization[acceptedFinalization] = acceptedFinalization
       /\ resuming = <<>>
  /\ acceptedFinalization = NoLoad => waiting = <<>>
  /\ \A l \in Loads : call[l] # "done" /\ heldFinalization[l] # NoLoad =>
       heldFinalization[l] = l /\ acceptedFinalization = l

\* Only waiting loads are queued, each once.
NoRepeats(queue) ==
  \A i, j \in 1..Len(queue) : queue[i] = queue[j] => i = j
AllWaiting(queue) == \A i \in 1..Len(queue) : call[queue[i]] = "waiting"
QueuesAreWaiting ==
  /\ NoRepeats(waiting) /\ NoRepeats(resuming)
  /\ AllWaiting(waiting) /\ AllWaiting(resuming)

\* The viewer is settled, or loading for the current attempt.
StateFollowsAttempt ==
  /\ lastSettledLoadState.status # "loading"
  /\ \/ loadState = lastSettledLoadState
     \/ /\ activeLoadAttempt \in Loads
        /\ Running(activeLoadAttempt)
        /\ loadState = State("loading", activeLoadAttempt)
  /\ \A l \in Loads : activeLoadAttempt = l /\ Running(l) =>
       loadState = State("loading", l)

\* The last settled success still describes the viewer until the next
\* published load replaces its scene and then its parts.
ShowsOnly(l) == partTree = l /\ materialOverrides \subseteq {l}
SettledIsShown ==
  IF acceptedFinalization # NoLoad
       /\ call[acceptedFinalization] \in {"authored", "initial"}
    THEN ShowsOnly(acceptedFinalization)
    ELSE lastSettledLoadState.status = "success" =>
           /\ ShowsOnly(lastSettledLoadState.source)
           /\ acceptedFinalization = NoLoad =>
                liveScene = lastSettledLoadState.source

DiagnosticsAreCounted ==
  \A l \in Loads : cancelDiagnostics[l] =
    IF call[l] = "done" /\ terminal[l] = "cancelled" THEN 1 ELSE 0

IInv ==
  /\ TypeOK
  /\ TokensAreClosed
  /\ StagesAgree
  /\ GateIsOwned
  /\ PublicationIsExclusive
  /\ QueuesAreWaiting
  /\ StateFollowsAttempt
  /\ SettledIsShown
  /\ DiagnosticsAreCounted
=============================================================================
