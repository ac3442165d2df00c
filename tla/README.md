# flutter_scene_viewer in TLA+

`flutter_scene_viewer` is a Flutter SDK that shows GLB models: an application
owns a `FlutterSceneViewerController` and puts a `FlutterSceneViewer` widget in
its tree; the controller loads models, patches materials and reports state, the
widget draws. Beside it the repository keeps Python tools that record evidence
about its rendering: run roots of captures, staged fixtures and a generated
harness, each shared by invocations that nothing keeps apart. This directory
holds TLA+ models of the parts that are hard to test, TLC
configurations that check them on small instances, and proofs of their main
properties for every size.

Line numbers below are of the files in `lib/src/`, for the modules of the tools
of the tool that is named.

## 1. Inventory

Dart code runs on one isolate: the code between two `await`s is atomic, and
concurrency is the interleaving of callbacks, microtasks, timers and frames.
Only the native decoders have threads. The Python tools have one thread each;
their concurrency is that of processes that share files and may be killed.

| Component | State it keeps | Operations | What is hard | What makes it correct |
| --- | --- | --- | --- | --- |
| Controller (`viewer_controller.dart`) | `_loadState`, `_lastSettledLoadState`, `_activeLoadAttempt`, the finalization gate, `_partTree`, `_materialOverrides`, diagnostics, the attached sink | `load`, `attach`/`detach`, `setPartMaterial`, `resetPart`, `fitCamera`, part queries | loads overlap; each one awaits the gate, the sink, every patch | a reported success describes the live scene, the parts and the overrides; superseded and cancelled loads leave no trace; every load settles |
| Load cancellation (`model_load_cancellation.dart`) | reason, `publicationAccepted`, listeners | `cancel`, `tryAcceptModelLoadPublication` | cancel races the commit; one token, two loads | a load is cancelled or published, never both |
| Model loader (`model_loader.dart`) | the stage of one load, `publicationClosed` | `load`: source race, decoders, preflight, adapter import with timeout | late answers after a timeout or a cancellation | exactly one result; no commit after it |
| Scene adapter (`internal/flutter_scene_adapter.dart`) | live scene, nodes, materials, environment | import, `configureEnvironment`, `applyMaterialPatch`, `resetMaterial` | commits and environment writes come after awaits | the commit is atomic; nothing stale is written |
| Widget (`viewer_widget.dart`) | frame callback id, gestures, preserved view, pending camera fit, environment attempt and generation | `build`, `didUpdateWidget`, `dispose`, pointer handlers, listener of the controller, `ViewerCommandSink` | rebuilds, notifications, frames and gestures in any order; callbacks after dispose | what is on screen follows the state; requested frames are drawn; rendering pauses |
| Render scheduler (`render_scheduler.dart`) | policy, loading, interacting, animations, tail, explicit request | setters, `beginInteraction`, `endInteraction`, `requestFrame`, `didRenderFrame` | tail and request must be used up | see widget |
| Environment loader (`internal/environment_source_loader.dart`) | Poly Haven cache | asset, bytes, Poly Haven | slow, fails, is cancelled | see widget and adapter |
| Material overrides (`material_override_store.dart`, `material_patch.dart`) | patches by part address | apply, reset | patch recorded for another model than it was applied to | overrides belong to the shown model |
| Part registry (`part_registry.dart`) | immutable tree, ambiguous addresses | `resolvePart` | duplicate names, suffix matches | resolves to the one part or to none |
| Native decoder probe (`internal/glb_native_decoder_probe.dart`) | one stage's terminal, shared deadline | invoke a stage on the platform channel, cancel it | answer, cancel and deadline race; messages may be lost or late | one terminal, at most one cancel, no stage after the deadline |
| Decode budget (`internal/glb_decode_budget.dart`) | totals | checked reservations | overflow of products of counts | failed reservations change nothing, totals stay within limits |
| Native request registries (`packages/*/`: Java, Objective-C++, C++) | active and finished requests, delivery flags, detached | register, cancel, shouldStart, finish, claimDelivery, detach, drain | worker threads, platform thread, engine detach | a request is answered at most once, a cancelled one never with success |
| Native decode control (`fsv_*_control.cc`) | live and peak bytes, stop reason | reserve, release, cancel | compare-and-swap loops racing a stop | live bytes within the limit, back to zero at the end |
| Capture recorder (`tools/run_plan018_ios_capture.py`) | a run root: `device.json`, and per model the log, the response with its screenshots, the Impeller proof, `manifest.json` or `failed.json`; `evidence.json`, `partial_evidence.json` | capture, plan, finalize, summarize, validate, audit | no lock; invocations overlap and are killed, a `flutter drive` outlives its invocation, the checkout is edited between checks | a manifest binds one capture; what is said of the whole root is true of it; nothing is overwritten |
| Fixture staging (`tools/stage_material_extension_fixtures.py`) | the staged files and their `.partial` files | verify, stage one of four corpora | two stagers use the same partial file | what is staged is whole, in order, and verified |
| Capture harness generator (`tools/generate_plan018_ios_harness.py`) | the output directory | generate, validate | the scaffold is made once, by a program that may be cut off; plain writes; sources edited meanwhile | an OK vouches for what is there |
| Repository checks and generators (the other tools) | none between runs | read the repository, print or write one output | input space, not interleaving | their unit tests |
| GLB rewriters, readers, material backends, orbit camera | documents, materials, matrices | pure transformations | size of the input space, not interleaving | round trips and conformance, which the test corpora cover |

How they interact: the application calls the controller; the controller calls
its sink, which is the attached widget; the widget calls the loader, the loader
the adapter; at the commit the adapter calls back through the loader into the
controller (`tryAcceptPublication`), and the token is closed in the same turn;
results travel back through three awaits. The controller notifies the widget
synchronously; the widget schedules frames and configures the environment. The
native probe talks to the plugins by method channel messages.

The tools meet in files only: staging and the frozen inputs provide the models,
the generator makes the Flutter project, and the recorder validates it (an
invocation of the generator's `validate`) and drives it on a Simulator with
`flutter drive`. Invocations of one tool share its output directory.

`PROJECT.json` lists the hazards line by line under `hazards`, with the
properties that cover each and a note where none does yet.

## 2. Modules

| Module | Models |
| --- | --- |
| `PublicationSlot` | abstract: what the viewer promises about loads |
| `LoadPublication` | controller, token, loader, adapter commit; implements `PublicationSlot` |
| `LoadPublicationProofs` | the proofs about it |
| `PartMaterials` | `setPartMaterial` and `resetPart` of one part beside the loads of `LoadPublication` |
| `PartMaterialsProofs` | the proofs about it, on top of `LoadPublicationProofs` |
| `ViewerFrames` | scheduler and the frame loop of the widget |
| `ViewerFramesProofs` | the proofs about it |
| `EnvironmentConfig` | the widget's environment on the adapter's scenes |
| `EnvironmentConfigProofs` | the proofs about it |
| `DecodePromise` | abstract: what a decoder plugin promises of each call |
| `NativeDecode` | one native decode from the probe's await to the plugin's workers and detach; implements `DecodePromise` |
| `NativeDecodeProofs` | the proofs about it |
| `WorkingByteLedger` | abstract: what the control of a decode promises of its bytes |
| `DecodeControl` | the atomics of one control, used by many threads; implements `WorkingByteLedger` |
| `DecodeControlProofs` | the proofs about it |
| `EvidenceLedger` | abstract: what the recorder promises of a run root |
| `CaptureRoot` | invocations of the recorder on one run root; implements `EvidenceLedger` |
| `FixtureStaging` | invocations of the staging tool on one directory |
| `HarnessScaffold` | invocations of the harness generator on one output directory |
| `CaptureRootProofs`, `ToolProofs` | the proofs about the recorder, and about staging and the harness |
| `MCLoadPublication`, `MCPartMaterials`, `MCViewerFrames`, `MCEnvironmentConfig`, `MCNativeDecode`, `MCDecodeControl`, `MCTools` | instances for TLC |

### LoadPublication

One load call stands for its attempt number and for its model. Per call:

- `call`: `idle`, `waiting` (await of the gate, 102-105), `loading` (await of
  `_loadFromSink`, 112-131), `authored` and `initial` (awaits of the patches,
  161-172), `done` (after `finally`, 215-221);
- `terminal`: what `Future.any` of the sink and the token completed with
  (276-292), read in a later turn than it was completed in;
- `stage`, `outcome`: the loader between its awaits; `import`: the adapter's
  future, which survives the loader's timeout;
- `heldFinalization`: the local variable that `finally` ends.

The commit is one action (`Publish`, or one of the three refusals) because the
adapter calls `acceptPublication`, the controller, the token and writes
`_scene` without an await (`flutter_scene_adapter.dart` 495-518,
`model_loader.dart` 612-628, `viewer_controller.dart` 117-130). Completing the
gate queues the waiting loads as microtasks; microtasks run before the next
event, hence `resuming = <<>>` in `Next`. The loader's preparation (167-610) is
one stage between two awaits: each of its checks may fail or observe the token,
which is all the controller can tell apart. The widget's
`load` (`viewer_widget.dart` 222-254) is in `ViewerFrames` and
`EnvironmentConfig`; here the sink passes the loader's result on.

`PublicationSlot` has neither gate, stages, timers nor tokens: a load takes the
slot, only its holder may commit, a cancelled load never commits, and nobody
takes the slot between a commit and its settling. `Phase` and `Slot` map the
detailed state to it.

### PartMaterials

One part, which all models have at one address, and the calls of
`setPartMaterial` (with the variants that only build its patch) and `resetPart`
that concern it. A call of `setPartMaterial` goes through three turns:
`PatchStarts` (validation, and the adapter resolves the part in the scene that is
live, `flutter_scene_adapter.dart` 689-1176), `PatchCaptures` (the textures are
there, 1177-1279; `putIfAbsent` of the original state, 1479-1494) and
`PatchSucceeds` (the shader is there, 1586-1604; the controller records the
patch, 349-358). `resetPart` never waits for anything but finished futures. A
load captures and records through its authored patches and initial overrides
(`LoadCaptures`, `InitialPatchSucceeds`), its commit clears `_originalMaterials`
(518) and its finalization or its error clears the overrides
(`ForgetsOverrides`).

What the adapter does after its last await and what the controller does with the
answer are one step: only microtasks lie between them, as many as the futures in
the chain, and a publication that ends in that turn still has its loader, the
sink and `Future.any` before it and its own `resetAll`.

`original` and `partOf` name the model whose state is held or shown; whether a
part of the right model is in a patched state is not told apart. `late` remembers
which patches took a step when the scene they found their part in was not live
any more: nothing in the code stops them.

The module extends `LoadPublication`. A step of the loads carries its effect on
the part with it; a step of a part leaves the loads' variables alone, but for
`InitialPatchSucceeds`, which is a step of both. So every behaviour of
`PartSafetySpec` is one of `SafetySpec`, and what is proved of the loads holds
here (`LoadsAreUndisturbed`).

### ViewerFrames

The scheduler is a record and its operations are functions of it; the widget's
handlers are actions. `callbackId` is `_renderFrameCallbackId != null` and
`callbacks` what the engine really holds: that they agree is proved, not
assumed. `display` is what the last build showed. The controller is reduced to
its status and to whether a settled state is a new object, which is what
`_handleControllerChanged` (454-482) compares. Gestures are begin and end; a
finger's or trackpad's end after dispose is an action, because hit test paths
outlive elements. `MaxInputs` bounds rebuilds, requests, gestures and load
calls.

### EnvironmentConfig

`configs` holds the calls of `_configureEnvironmentIfReady` (504-533) that wait,
each with its captured generation, environment and scene. `EnvironmentDecoded`
is the adapter's last step after its awaits, `WidgetResumes` the widget's next
turn. `applied[s]` is the environment on scene `s`; scenes are numbered by
commit, settled states by a counter, as object identity does in the code. A
load is reduced to begin, publish, return, settle or cancel. The bodies of the
environment sources are one action that succeeds or fails.

### NativeDecode

The one part with threads: the Dart isolate (`_invokeNativeStage` in
`internal/glb_native_decoder_probe.dart` 733-838), the platform thread, which
handles `decodeGlb` and `cancelDecode`, delivers answers and runs the detach,
and the workers. Draco and BasisU have the same protocol, written once in Java
and once in Objective-C++ and C++; `Platform` chooses where the two differ:

| | Android | iOS |
| --- | --- | --- |
| workers, queue | pool of 2, bounded, rejects | one serial queue, unbounded |
| detach | handler removed, waiting tasks dropped | handler stays, waiting tasks run (and skip the codec) |
| stopped codec | may still have a response | its response is dropped, the deadline is an answer |
| full history | forgets the oldest id | forgets any id |

- `stage` is the probe's terminal, `toPlatform` the channel (in order),
  `replies` and `acks` what the two methods were answered.
- `active`, `entry`, `delivered`, `finished` are the fields of
  `FsvDecodeRequestRegistry`, `control` the life of each native control. Each
  registry method runs under one lock and is one step, or a part of one step of
  its only caller.
- `queue`, `worker`, `posted` are where a request's task can be; `detach` is how
  far `onDetachedFromEngine` is. While it is `begun` or `draining` the platform
  thread is blocked and handles nothing.

A request stands for its id, which the probe never uses twice (660-682), so a
second `decodeGlb` with an active id cannot be sent. `MaxFinished` is 1024 and
`QueueCapacity` 32 in the code. Every task passes through `queue`; the pool's
direct hand-off to a thread it has yet to create is such a task taken at once.
Completions that two workers posted are delivered in any order. The plugin is
attached once.

`DecodePromise` has no queue, workers, registry or control: a request is
admitted or refused, revoked by an acknowledged cancel, answered once (with a
value only if it was not revoked, with "cancelled" only if it was), or dropped
by the close. `Fate` maps the detailed state to it.

### DecodeControl

The control of one decode (`fsv_draco_control.cc`, `fsv_basisu_control.cc`; they
differ in how they explain a refusal, `Codec`). One action is one operation on an
atomic; what a thread computes until its next one belongs to it. The atomics are
sequentially consistent, as the code names no weaker order. The number of a
reservation is given with its bytes, although `allocation_count_` is added to one
atomic later: only the statistics of a decode read that count.
A weak compare-and-exchange that fails for no reason changes nothing and is a
stutter. `pc` says which atomic a thread is at, `current` and `peak` are its
local copies, `reservation` the bytes it works on, named by the number
`allocation_count_` gave them as an allocation is named by its pointer;
`settled` are those handed out. `Cancel` and the deadline may stop the decode at
any time.

- `TryReserve`: `BeginReserve`, `LoadLive`, `AddBytes` or `AddBytesFails` or
  `ExceedBudget`, `Recheck`, `LoadPeak`, `RaisePeak`.
- `AllocateMemory`, `fsv_allocate`: `Explain` of a refusal, `HeapSucceeds`,
  `HeapReturnsNull` and the release it causes, `HeapFailure`.
- `Release`: its load and its compare-and-exchange, for what is freed, for a
  reservation that finds the decode stopped, and for one the heap refused.

`WorkingByteLedger` has no threads: a reservation is granted while the decode
goes on and fits under the limit together with all others, is given back once,
and the first reason to stop stays. A reservation is granted at the second look
at the stop reason: bytes that are added and taken back because the decode
stopped in between were never granted.

### CaptureRoot

An invocation `r` is one run of the recorder with the arguments `work[r]`; it is
at a `step`, has recorded a `guard` (the checkout as `repository_guard` saw it),
may have a `drive`, and ends with a `verdict`. The files are one variable for
each kind, per model where the code has one per model. A file is who created it
and whether it is whole; that is all the checks can tell apart, because what it
says of the checkout and of the Simulator is what its creator saw.

- Capture: `StartModel`, `Inspect` (`inspect_existing_run_root`), `Settle` (the
  second look, and `device.json`), `Launch` (exclusive creation of the log, then
  the drive), `DriveShoots` and `DriveExits`, `DriveStopped` (the watch of
  `stream_process` ends, the process group is terminated),
  `CollectImpellerEvidence`, `Certify`, `ManifestWritten`; or `CaptureFails` and
  `RecordFailure`. Every exclusive creation is two steps, open and written, with
  the other invocations in between.
- Whole root: `finalize`, `summarize`, `validate` (`recheck`) and `audit`, each
  from its first look to its write or verdict. A guard is read before, and again
  before an exclusive creation of a summary.
- Outside: an invocation is killed at any step (`Cut`); if it has a drive, the
  drive may go on and save screenshots and its response (`DriveShoots`,
  `OrphanEnds`), as may one that did not end when it was terminated.
  `EditSource` changes the checkout: `fixed` what a capture must not survive,
  `tool` the tool and its tests, which may change but not appear or disappear.

The two families of run roots (candidate evidence and renderer-native controls)
differ in their checks (`StillFree`, `ArtifactsOf`, `GatherNativeFinal`) and in
the modes they have.

`EvidenceLedger` has no files, processes or checks: a model is entered once,
with sources and a Simulator, all entries on one Simulator; the ledger is sealed
when all entries agree; nothing changes afterwards. `Entry` and `SealEntry` read
the manifests and `evidence.json` that are whole.

Two facts the model makes plain. A capture of the deferred model that is in
flight while the summary is written can leave `evidence.json` and
`partial_evidence.json` side by side, when the root is finalized afterwards;
audits then refuse the root for ever, which is why they never disagree
(`AuditsAgree`). And an invocation that loses the race for a log ends as failed
with a `failed.json` of the model the other one is capturing, which no later
check accepts: safe, but the root is lost.

### FixtureStaging

`job` is the option of a stager, `Order[j]` the files of a job in the order of
its writes. A file on disk is an inode named by its creator, so that a partial
moved by one stager while another has it open is the file the other goes on
writing (`_write_atomic`, 486-490). `torn` is the inodes that have a hole;
`spoiled` the stagers whose open file another truncated. The network, the local
directories and the hashes are one step that succeeds or stops the stager.

### HarnessScaffold

`content` is what a file of the output says: a version of its source, the
scaffold's own text, ours, or a part of it. `creators` are the `flutter create`
that run, which outlive a generator that is killed. `want` is what a generator
read before it wrote, or what a validator compares with; `todo` what is left.
Every write truncates first (`Opens`, `WriteEnds`); `shared` are those that had
a file open together. `EditTracked` changes a template or a frozen input.

## 3. Runs

| Run | Instance | Shows |
| --- | --- | --- |
| `load_safety` | 3 loads: no token, two share t1 | all safety properties and the refinement |
| `load_live` | 2 loads (no token, t1) and 2 calls for a part, fairness | every call of `load` ends unless a patch is never answered; a part keeps to its model |
| `load_precancelled` | 3 loads, one token | violated: see findings |
| `load_parttree` | 2 loads | violated: see findings |
| `part_reset` | as `load_live`, safety only | violated: see findings |
| `frames` | 2 pointers, policies adaptive and whileInteracting, tail 2, 5 inputs | frame loop, safety and liveness |
| `frames_ready` | 1 pointer, adaptive, tail 1, 3 inputs | violated: see findings |
| `environment` | 2 environments, 2 inputs | environment, safety and liveness |
| `environment_cancelled` | same | violated: see findings |
| `decode_android` | 3 requests, 2 workers, queue of 1, history of 1 | decode safety and the refinement |
| `decode_ios` | 2 requests, 1 worker, history of 1, fairness; apart from them the control: 2 threads, 2 reservations of 1 or 2 bytes, limit 3 | answers, detach and stages end; bytes, peak and outcomes of the control and its refinement |
| `evidence_tools` | recorder: up to 4 invocations of 2 models; staging: up to 3; harness: 2 generators, or one and a validation | run roots, staged files and the harness: safety, the ledger, and that every invocation ends |

Bounds. Three loads are one that is published or being finalized, one that waits
or supersedes, and one that resumes or arrives in between; every clause of the
invariant mentions at most two loads and the gate. Two of the three share a
token, which covers a token of its own as well: without the other's request it
is one. Beside a part two loads are the model a patch was meant for and the one
that is published meanwhile, two calls a patch and another patch or a reset. Two
pointers are needed to tell the last finger from another. A tail of 2 has a
first, a last and no frame left. Two environments and two inputs give a change,
a change back, and a change during a replacement load. Three requests with a
queue of one and two workers put one request at each place a task can be, fill
the queue and reject; a history of one overflows at the second request that
ends. On iOS two requests are one that runs and one that waits behind it. The
control is checked in behaviours of its own: `decode_ios` begins in the initial
states of both and whichever moves first has the behaviour for itself, so that
neither multiplies the states of the other. Two threads are one that lags behind
the other between any two atomics; with a limit of 3, sizes 1 and 2 fit together
and 2 and 2 do not. Requests and workers are symmetric, which `decode_android`
uses; `decode_ios` checks liveness and uses no symmetry.

`evidence_tools` is one of these instances at a time (403,171 distinct states
together), the other tools resting: two captures of one model and a summary,
with one kill; captures of both models against a summary (the second is the
deferred one); capture, summary, audit and validation with one edit of the
checkout; capture and plan with one edit; captures on two Simulators and a plan;
two captures, a finalization and an audit; and a pair of native controls.
Nothing in `CaptureRoot` relates more than a capture, another capture of the
same or of another model, and one look at the whole root; the kill comes at any
step of two captures or a summary, the edit between any two steps of a capture
and of those that look at it. Two stagers of the sheen corpus beside a
verification (several files, the pack last), two of the pinned GLB, and two
different corpora, with every subset of sound records. Two generators, or a
generator and a validator with one edit. `edits`, `kills`, `drift`
(`MaxEdits`, `MaxKills`, `MaxDrift`) and the sets of invocations are bounds; the
theorems do not depend on their values.

The unbounded statements are the theorems.

Deadlock. `frames`, `frames_ready`, `environment` and `environment_cancelled`
end when the inputs are used up and the widget is idle; `decode_android` and
`decode_ios` when all requests have ended, `evidence_tools` when all invocations
have, so they do not look for deadlock (`DetachCompletes` says that the threads
do not block each other). The other runs do: `Attach` and `Detach` are always
possible with loads, and which loads can get stuck is what `EveryLoadSettles` says.

### Properties

- `SuccessIsCoherent`: success is about the live scene, its parts, its overrides.
- `PublicationIsExclusive`: between commit and `finally` the load is current,
  its scene is live and the gate is its own.
- `CancellationIsCoherent`: acceptance and cancellation exclude each other, and
  a cancellation is reported once if it won, else never.
- `LoadingIsAlive`: a loading state has a running current load behind it.
- `ImplementsSlot`: refinement of `PublicationSlot`.
- `EveryLoadSettles`: every call ends, parked ones included, unless it awaits for
  ever a material patch that is never answered, its own or that of the load
  whose gate it is parked on. That exception is real: such a load has closed its
  token, so that it cannot be cancelled, and every later load waits behind it
  (`docs/PUBLIC_API.md` 203-205 says that the accepted load finishes normally).
- `PartIsOwn`: a success shows overrides made for its own model, the original
  state that is held is the live scene's, and no reset gave a part another
  model's, unless a patch went on after another model was published. That is the
  exact condition: `part_reset` shows that such a patch is enough.
- `RequestedFrameIsScheduled`, `InteractionRenders`: no frame is forgotten.
- `PausesWhenStatic`: rendering stops unless there is a lasting reason.
- `ErrorIsDisplayed`: an error reaches the screen.
- `AttemptIsReal`: an environment is only skipped if it was seen to.
- `NewModelIsConfigured`: a model that becomes visible gets the environment.
- `NoStaleEnvironment`: nothing but the wanted environment is written.
- `DiagnosticsAreCurrent`: failures are reported for the wanted environment.
- `AttemptsSettle`: an attempt ends applied or diagnosed.
- `RepliesAtMostOnce`: a decode is answered at most once
  (`docs/RUNTIME_GLB_PIPELINE.md` 96).
- `AcknowledgedCancelHolds`: after "cancelled", no output.
- `ControlsAreOwned`: the active requests are those whose control lives, and a
  running codec has one: controls neither leak nor die under a codec.
- `CancelSentOnce`: one `cancelDecode` at most, for a stage given up.
- `CancelFindsRequest`: why a cancel may find nothing.
- `KeepsPromise`: refinement of `DecodePromise`.
- `LiveBytesAreExact`: the live bytes are the sum of what is reserved and not yet
  released, and within the limit, at every atomic.
- `PeakCovers`: the reported peak covers all that is handed out and stays within
  the limit, though it is raised some atomics after the bytes were added.
- `OutcomeNamesReason`: a failed allocation says why.
- `KeepsByteLedger`: refinement of `WorkingByteLedger`.
- `DecodeIsAnswered`, `DetachCompletes`, `StageEnds`: nobody waits for ever.
- `RootInv`: whose file each file is and what an invocation has in hand; a
  manifest binds the log, the response and the backend proof of one invocation,
  on the root's Simulator, and no drive writes to them any more.
- `EvidenceIsCoherent`: what `evidence.json` and `partial_evidence.json` say of
  the models and sources is true of the root; audits never disagree.
- `NothingOverwritten`: a file stays, and only its creator completes it.
- `KeepsLedger`: refinement of `EvidenceLedger`.
- `CommandsEnd`: every invocation of the recorder ends.
- `StagedFilesAreWhole`: a staged file is torn only while another stager that
  has it open is writing, or was stopped there; files are staged in order, and
  an OK means all of a verified corpus.
- `HarnessIsValidated`: an OK means that nothing is missing, nothing differs but
  by the work of other generators, and the frozen inputs are the pinned ones;
  an incomplete scaffold is the work of a `flutter create` that was not waited for
  to its end or that returned a nonzero code.

### Fairness

- `LoadPublication`: weak fairness of each load's loader steps (`LoaderStep`),
  of the controller with their result (`ResultStep`) and of the queue of
  microtasks. The source, the preflight and the import have timers
  (`model_loader.dart` 835, 864, 644 and 660), decoders have deadlines, and a
  completed future resumes its waiter. Nothing is assumed of the adapter, whose
  import may hang, or of the material patches behind the gate (`PatchStep`,
  `viewer_controller.dart` 155 and 169): their textures may come from an
  `http.get` without a timer (`flutter_scene_adapter.dart` 2229). Callers are
  not fair.
- `PartMaterials`: that of `LoadPublication` and nothing more. An application
  need not patch, and a patch outside a load may wait for its textures for ever.
- `ViewerFrames`: weak fairness of the frame callback, the build of dirty
  elements and post-frame callbacks: the engine delivers a frame that was asked
  for. Neither the user nor the loader is fair.
- `EnvironmentConfig`: weak fairness of configurations in flight (HTTP sources
  have timeouts, asset bundles answer) and of the microtask of `_startLoad`.
- `NativeDecode`: weak fairness of the timer, of the answer's arrival, of the
  platform thread, of each worker (a codec call ends: the codecs have
  checkpoints and a budget) and of the two blocking steps of the detach. No
  caller has to cancel and no engine has to detach.
- `CaptureRoot`: weak fairness of each invocation that has begun: its commands
  and its watch of the drive have deadlines, after which it terminates the
  process group, and its writes are local. Nothing is assumed of the drive, of
  the start of an invocation, or of edits and kills. `FixtureStaging` and
  `HarnessScaffold` are checked for safety only: what they wait for (the
  network, `flutter create`) is not theirs.

### Findings

1. A load cancelled while it waits for the finalization gate supersedes a
   pending load when it resumes (`viewer_controller.dart` 103; compare
   `test/viewer_controller_load_test.dart` 449).
2. A failed replacement clears `partTree` (202-209), which
   `docs/PUBLIC_API.md` 220 calls the last successfully loaded hierarchy.
3. A patch that waits for its textures while another model is published captures
   the old model's part as the original state (`flutter_scene_adapter.dart` 1479,
   1491); `resetPart` then writes the old geometry and material to the new model
   (1673-1695; compare `README.md` 19 and `docs/PROJECT_CHARTER.md` 20).
4. A rebuild during a preserved replacement load shows the placeholder; if the
   load is cancelled, the ready view does not come back (`viewer_widget.dart`
   471-476; compare `test/viewer_widget_test.dart` 137).
5. An environment passed during a load that is then cancelled is never
   configured (`viewer_widget.dart` 505-507; `docs/PUBLIC_API.md` 112).

## 4. Proofs

All theorems hold for every value of the constants, from the named assumptions
only: `TokenAssumption`, `NoLoadAssumption`, `NoTokenAssumption`;
`PolicyAssumption`, `TailAssumption`; `EnvironmentAssumption`;
`NoRequestAssumption`, `BoundAssumption`, `PlatformAssumption`;
`SizesAssumption`, `LimitAssumption`, `MaxReservationsAssumption`,
`CodecAssumption`; of the tools
`ModelAssumption`, `BoundAssumption`, `WorkAssumption`, `SourceAssumption`,
`AbsentAssumption`; `OrderAssumption`, `NobodyAssumption`; `PathAssumption`,
`VersionAssumption`, `DriftAssumption`.

**LoadPublication.** No safety property is inductive. That a success is
coherent needs that a published load kept the viewer to itself; that needs that
other calls met the gate; that needs that no microtask of a waiting load is
queued while the gate is closed; and that needs that an open gate has one
owner, which is running, published and holds it. `IInv` is the conjunction:
`TypeOK`, `TokensAreClosed`, `StagesAgree`, `GateIsOwned`,
`PublicationIsExclusive`, `QueuesAreWaiting`, `StateFollowsAttempt`,
`SettledIsShown`, `DiagnosticsAreCounted`. One lemma per action shows that it
is kept, `NextIInv` collects them, and the theorems `TypeCorrect`,
`SuccessCoherent`, `PublicationExclusive`, `CancellationCoherent` and
`LoadingAlive` follow. `Refinement` shows that each step under `IInv` is a step of
`PublicationSlot` or a stutter.

**PartMaterials.** `LoadsAreUndisturbed` brings `IInv` along, and `PartInv` is
inductive beside it. `PartIsOwn` is not inductive: from its commit to its
finalization a load shows its scene while the store still has the overrides of
the model before. `Committing` names that window, and `PatchesAreOfLive` says
that outside it the overrides are of the live scene or of a late patch. The
proof needs four facts of the loads: the live scene changes in a commit only
(`SceneChangesInCommit`), a window has one owner, whose scene is live
(`CommittingLoad`), patches of loads are applied behind their own gate, to their
own scene (`PatchingLoad`), and the window ends with a reset of the overrides or
with an error (`CommittingEndsWithReset`), because a published load cannot be
cancelled. `PartInvariant` and `PartsAreOwn` follow.

**ViewerFrames.** `RequestedFrameIsScheduled` is not inductive, because
`_scheduleRenderFrame` trusts the callback id; `CallbackIdIsTrue` is what is
missing. `FrameTypes`, `RequestsAreScheduled`, `InteractionsAreRendered`.

**EnvironmentConfig.** `AttemptIsReal` speaks of the success state only; the
invariant says what a remembered attempt means in the other states, and that
configurations never come from a generation or scene of the future. From it
follow `RememberedAttemptIsReal`, `StaleEnvironmentIsDropped`,
`DiagnosticsAreOfTheEnvironment`, `VisibleModelIsConfigured`.

**NativeDecode.** That no output follows an acknowledged cancel depends on what
the entry's state was when its task finished, on the one place its task was at
until then, and on the order of the calls in the channel. `Inv` is the
conjunction: `ChannelInv` (a request's `decodeGlb` is sent once, before its
`cancelDecode`, and nothing is known of it before it arrives), `EntryInv`
(entry, `active`, completion and answer agree), `TaskInv` (a task is at one
place, and its entry active until it finishes), `DrainedInv`, `CancelInv`,
`OutputInv`, `HistoryInv`, and the properties themselves. One lemma per action
keeps it. From it follow `AnsweredAtMostOnce`, `CancelHolds`,
`ControlsHaveOwner`, `CancelIsSentOnce`,
`CancelsFindRequests`, and `Refinement`: each step under `Inv` gives one request
a new fate that `DecodePromise` allows, closes the plugin, or is a stutter.

**DecodeControl.** A sum over a set of reservations would be a recursive
definition, whose value for every set the provers cannot compute. The bytes of a
set of reservations are therefore the pairs of a reservation's number and 1, 2,
..., its size, and the sum is the number of those pairs: adding or taking away a
reservation changes it by its size (`BytesOfMore`, `BytesOfFewer`), by the
library's facts about finite sets. That the live bytes are exact needs that a
reservation is in the hands of one thread or handed out, never both (`OneHolder`),
and that numbers are fresh (`NumbersAreFresh`). The peak is harder: a thread
raises it long after it added its bytes, and in between others add, release and
raise. `LevelsCover` says that the level a thread is about to raise the peak to
covers all that was admitted up to its number and is still there, and
`PeakIsRaised` that the peak covers the same of every number that was handed
out. `Invariant`, `LiveBytesExact`, `PeakIsCovering`, `FailuresNameReason`,
`DestructorFindsNone` (idle threads and nothing handed out leave no live bytes,
on which the destructor would abort) and `ControlKeepsLedger`, the refinement, follow, for any
number of threads, any sizes and any limit.

**CaptureRoot.** `Inv` is `RootInv` with `EvidenceIsCoherent`, and is inductive.
The root has many checks and few reasons: a step either leaves all files alone
or touches one that its own invocation creates or has in hand, so that files
only grow by their creator (`NothingOverwritten`), and what was whole stays.
The log is created exclusively, which makes one invocation the owner of a
model (`OneCapturePerModel`); `InHand` ties the step of an invocation to its
files, so that the manifest it writes after its drive is gone binds its own
artifacts (`ManifestBindsOneCapture`). A check of whole files stays true once
it was (`SeenStaysTrue`), whatever goes on between it and the write; hence
`FilesAreCoherent`. `AuditsAgree` holds because an audit says "final"
only if it found no `partial_evidence.json`, and "partial" only if it found no
`evidence.json`, and neither ever goes away. `RootIsSound`,
`EvidenceCoherent`, `NeverOverwritten` follow, and `Refinement`: the step that
completes a manifest is `Enter`, the one that completes `evidence.json` is
`Seal`, every other one a stutter.

**FixtureStaging.** That torn files have a writer is not inductive: two stagers
may have one partial open, and the first to end its write is not the last to
have truncated it. `StagingInv` adds that the last one to truncate a torn file
is not spoiled and still writes it, how far each stager is in its job, and what
it has verified. `StagedAreWhole`.

**HarnessScaffold.** `HarnessInv` adds that files never disappear again, which
files a generator at each place has passed, what it wants is what the hashes
pin, and that what was passed stays passed. `HarnessValidated`.

Only model-checked, because tlapm has neither fairness nor `ENABLED`:
`EveryLoadSettles`, `PausesWhenStatic`, `ErrorIsDisplayed`, `AttemptsSettle`,
`DecodeIsAnswered`, `DetachCompletes`, `StageEnds`, `CommandsEnd`.

## 5. Not modelled

- Rewriters, readers, material backends, camera geometry, and the repository
  checks and generators: pure functions of large inputs, covered by corpora and
  unit tests (see `components`).
- Of the recorder: the fixture modes, which write no evidence, the historical
  validation of three captures, the layout of the records and the arithmetic of
  the GLB contract. What a record says is reduced to who wrote it and whether it
  is whole and conforms.
- Of the harness: the lock and `package_config.json`, which `flutter pub get`
  writes; the validation may refuse them.
- Replacing the widget's controller or adapter (`didUpdateWidget` 172-189).
- The part registry, the decode budget, the deadline that native stages share:
  see the plan.
- Of a part: the fields of its patches and their merge; a reset that overtakes a
  patch of the same model between its capture and its shader.
- Of the control: the count of owners, the counters that only report, and an
  alignment that is not a power of two, which `alignof` never yields.
- A second attachment of a plugin to an engine.
- A listener that calls `load` from inside a notification.

## 6. Plan

In this order, most important behaviour first:

1. `LoadPublication`, `PublicationSlot`: written, checked, proved.
2. `ViewerFrames`: written, checked, proved.
3. `EnvironmentConfig`: written, checked, proved.
4. `NativeDecode`, `DecodePromise`: written, checked, proved.
5. `CaptureRoot` with `EvidenceLedger`, `FixtureStaging`, `HarnessScaffold`:
   written, checked, proved.
6. `PartMaterials`: written, checked, proved. Left: patched and unpatched states
   of one model's part, for a reset that overtakes a patch.
7. `LoaderPipeline`: the stages of `ModelLoader.load` one by one, the network
   request with late headers (`model_loader.dart` 1091-1240), the native stages
   under one deadline. Abstract specification: one result, nothing after it.
8. `DecodeControl`, `WorkingByteLedger`: written, checked, proved.
9. `DecodeBudget`, `PartRegistry`: pure algorithms checked against reference
   definitions.
