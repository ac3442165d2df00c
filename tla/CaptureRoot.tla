---------------------------- MODULE CaptureRoot ----------------------------
(***************************************************************************)
(* The capture recorder, tools/run_plan018_ios_capture.py: invocations of  *)
(* the tool that share one run root.  An invocation captures one model,    *)
(* plans a capture, finalizes or summarizes the root, or validates what    *)
(* was recorded.  Nothing locks the root: invocations interleave, are      *)
(* killed, and leave a `flutter drive` running.  What protects the root    *)
(* are exclusive creations and checks made before and after.               *)
(*                                                                         *)
(* A file is who created it and whether it is whole: its writing ended,    *)
(* and what a drive says in it is what the frozen state prescribes.  What  *)
(* it tells of the checkout and of the Simulator is what its creator saw,  *)
(* guard[r] and Phone(r), which r does not change once it has read them.   *)
(***************************************************************************)
EXTENDS Naturals, FiniteSets

CONSTANTS
  Model,     \* EXPECTED_MODELS, or EXPECTED_NATIVE_CONTROL_MODELS
  Deferred,  \* EXPECTED_PARTIAL_MISSING_MODELS
  Runner,    \* the invocations of the tool: a bound on their number
  Device,    \* Simulators that can be the one booted
  Hash,      \* contents of a source file
  Missing,   \* the one of them that stands for a file that is not there
  Source,    \* what the dynamic sources of the checkout may be
  MaxEdits,  \* bound on edits of the checkout
  MaxKills,  \* bound on kills of invocations
  Work,      \* the arguments the invocations may have been given
  Absent     \* a file that does not exist

(* "none" is an invocation that does not come. *)
Op == {"capture", "plan", "finalize", "summarize", "recheck", "audit", "none"}
NativeOp == {"capture", "plan", "finalize", "none"}

(* What may differ between two calls of repository_guard that both pass:   *)
(* the dynamic sources.  All else is pinned.  The tool and its tests are   *)
(* POST_CAPTURE_MUTABLE_SOURCE_PATHS; the others are fixed by a capture.   *)
Checkout == [fixed : Hash, tool : Hash]

Written == [by : Runner, whole : BOOLEAN]
File == Written \cup {Absent}

ASSUME ModelAssumption == Deferred \subseteq Model /\ Deferred # Model
ASSUME BoundAssumption == MaxEdits \in Nat /\ MaxKills \in Nat
ASSUME WorkAssumption == Work \subseteq [Runner -> [op : Op, model : Model, udid : Device]]
ASSUME SourceAssumption == Missing \in Hash /\ Source \subseteq Checkout
ASSUME AbsentAssumption == Absent \notin Written

VARIABLES
  family,    \* the prefix of the run root's name
  work,      \* the arguments of each invocation
  source,    \* the dynamic sources of the checkout now
  edits,     \* how many edits of it are still to come, at most
  kills,     \* how many invocations are still to be killed, at most
  step,      \* where each invocation is
  verdict,   \* how it ended
  guard,     \* the guard it recorded before its work
  drive,     \* the process group of its `flutter drive`
  device, evidence, partial,             \* device.json, evidence.json, ...
  log, shots, impeller, manifest, failed \* the files of each model

root == <<device, evidence, partial, log, shots, impeller, manifest, failed>>
checkout == <<source, edits, kills>>
given == <<family, work>>
vars == <<given, checkout, step, verdict, guard, drive, root>>

Writing == {"device", "backend", "manifest", "failure", "evidence", "partial"}
Checking == {"inspect", "settle", "gather", "verify", "conclude",
             "health", "blocker"}
Step == {"idle", "launch", "drive", "collect", "certify", "failing", "done"}
          \cup Writing \cup Checking
Verdict == {"none", "ok", "final", "partial", "failed"}

TypeOK ==
  /\ family \in {"candidate", "native"}
  /\ work \in [Runner -> [op : Op, model : Model, udid : Device]]
  /\ source \in Source
  /\ edits \in 0..MaxEdits /\ kills \in 0..MaxKills
  /\ step \in [Runner -> Step]
  /\ verdict \in [Runner -> Verdict]
  /\ guard \in [Runner -> Source]
  /\ drive \in [Runner -> {"none", "alive", "gone"}]
  /\ device \in File /\ evidence \in File /\ partial \in File
  /\ log \in [Model -> File]
  /\ shots \in [Model -> File]
  /\ impeller \in [Model -> File]
  /\ manifest \in [Model -> File]
  /\ failed \in [Model -> File]

Init ==
  /\ family \in {"candidate", "native"}
  /\ work \in Work
  /\ family = "native" => \A r \in Runner : work[r].op \in NativeOp
  /\ source \in Source
  /\ edits \in 0..MaxEdits /\ kills \in 0..MaxKills
  /\ step = [r \in Runner |-> "idle"]
  /\ verdict = [r \in Runner |-> "none"]
  /\ guard = [r \in Runner |-> source]
  /\ drive = [r \in Runner |-> "none"]
  /\ device = Absent /\ evidence = Absent /\ partial = Absent
  /\ log = [m \in Model |-> Absent]
  /\ shots = [m \in Model |-> Absent]
  /\ impeller = [m \in Model |-> Absent]
  /\ manifest = [m \in Model |-> Absent]
  /\ failed = [m \in Model |-> Absent]

-----------------------------------------------------------------------------
(* What the checks read. *)

Opened(r) == [by |-> r, whole |-> FALSE]
Closed(r) == [by |-> r, whole |-> TRUE]
Whole(f) == f # Absent /\ f.whole

(* existing_model_paths is empty *)
Untouched(m) ==
  /\ log[m] = Absent /\ shots[m] = Absent /\ impeller[m] = Absent
  /\ manifest[m] = Absent /\ failed[m] = Absent

NoFailure == \A m \in Model : failed[m] = Absent

(* The log ends in success, its READY markers before one COMPLETE. *)
LogTellsSuccess(m) == Whole(log[m]) /\ shots[m] # Absent

(* The markers are the hashes of the payloads of the response.  Payloads   *)
(* are measurements: no other drive has the same.                          *)
ResponseAgrees(m) == shots[m].by = log[m].by

(* The READY records show the model, cameras, lights and materials of the  *)
(* frozen state, and every screenshot was saved.                           *)
ResponseConforms(m) == Whole(shots[m])

(* The Simulator an invocation works on: the one it was given, which has   *)
(* to be the sole eligible one that is booted.                             *)
Phone(r) == work[r].udid

\* Seeded bug: that a Simulator was recorded is enough.
DeviceRecorded(d) == Whole(device)

DeviceIs(d) == Whole(device) /\ Phone(device.by) = d

(* One process on the root's Simulator logged both Impeller and COMPLETE.  *)
BackendProof(m) ==
  /\ Whole(impeller[m])
  /\ device = Absent \/ DeviceIs(Phone(impeller[m].by))

(* The backend proof is of the capture window of c. *)
WindowIs(m, c) == impeller[m].by = c

(* The window is known from memory or, later, from the manifest. *)
ValidateModelArtifacts(m, c) ==
  /\ LogTellsSuccess(m) /\ ResponseAgrees(m) /\ ResponseConforms(m)
  /\ BackendProof(m) /\ WindowIs(m, c)

(* A renderer-native control has a frozen state and claims of its own, and *)
(* its window is left to the check of the manifest.                        *)
ValidateNativeArtifacts(m) ==
  /\ LogTellsSuccess(m) /\ ResponseAgrees(m) /\ ResponseConforms(m)
  /\ BackendProof(m)

ArtifactsOf(m, c) ==
  IF family = "native" THEN ValidateNativeArtifacts(m) ELSE ValidateModelArtifacts(m, c)

(* A success manifest of Simulator d, which binds the artifacts of its     *)
(* capture by their hashes.                                                *)
ValidateSuccessManifest(m, d) ==
  /\ Whole(manifest[m])
  /\ ArtifactsOf(m, manifest[m].by)
  /\ WindowIs(m, manifest[m].by)
  /\ log[m].by = manifest[m].by
  /\ Phone(manifest[m].by) = d

GuardOf(m) == guard[manifest[m].by]

(* A guard without what may change after a capture: of the mutable sources *)
(* only which of them exist.                                               *)
WithoutMutableSources(g) == <<g.fixed, g.tool = Missing>>

(* The exception for one retained evidence.json, known by its hash, does   *)
(* not concern roots that are still written.                               *)
DependencyUnchanged(captured, current) ==
  WithoutMutableSources(captured) = WithoutMutableSources(current)

(* Neither summary nor evidence is an entry a capture knows. *)
KnownEntries == evidence = Absent /\ partial = Absent

OtherModelsSucceeded(r) ==
  \A m \in Model \ {work[r].model} :
    Untouched(m) \/ (ValidateSuccessManifest(m, Phone(r)) /\ GuardOf(m) = guard[r])

InspectExistingRunRoot(r) ==
  /\ KnownEntries
  /\ device = Absent \/ DeviceIs(Phone(r))
  /\ NoFailure
  /\ Untouched(work[r].model)
  /\ OtherModelsSucceeded(r)

(* All the models in ms succeeded on the root's Simulator with guard g. *)
SucceededWith(ms, g) ==
  /\ Whole(device)
  /\ \A m \in ms : ValidateSuccessManifest(m, Phone(device.by)) /\ GuardOf(m) = g

(* The models of a partial summary. *)
Completed == Model \ Deferred

(* They succeeded with one guard, which agrees with g but for what may have *)
(* changed after the captures.                                              *)
CompletedBefore(g) ==
  \E captured \in Source :
    /\ SucceededWith(Completed, captured)
    /\ WithoutMutableSources(captured) = WithoutMutableSources(g)

DeferredAreAbsent == \A m \in Deferred : Untouched(m)

(* Exactly one log, response and backend proof of every model. *)
ExactInventory ==
  \A m \in Model : log[m] # Absent /\ shots[m] # Absent /\ impeller[m] # Absent

-----------------------------------------------------------------------------
(* Control of one invocation. *)

Goes(r, s) ==
  /\ step' = [step EXCEPT ![r] = s]
  /\ UNCHANGED verdict

Ends(r, v) ==
  /\ step' = [step EXCEPT ![r] = "done"]
  /\ verdict' = [verdict EXCEPT ![r] = v]

RepositoryGuard(r) == guard' = [guard EXCEPT ![r] = source]

(* plan_capture and capture_one begin alike. *)
StartModel(r) ==
  /\ step[r] = "idle" /\ work[r].op \in {"capture", "plan"}
  /\ RepositoryGuard(r)
  /\ Goes(r, "inspect")
  /\ UNCHANGED <<given, checkout, drive, root>>

Plan(r) ==
  /\ step[r] = "inspect" /\ work[r].op = "plan"
  /\ InspectExistingRunRoot(r)
  /\ Ends(r, "ok")
  /\ UNCHANGED <<given, checkout, guard, drive, root>>

Inspect(r) ==
  /\ step[r] = "inspect" /\ work[r].op = "capture"
  /\ InspectExistingRunRoot(r)
  /\ Goes(r, "settle")
  /\ UNCHANGED <<given, checkout, guard, drive, root>>

(* After creating the directories, what is looked at once more. *)
StillFree(r) ==
  IF family = "candidate" THEN Untouched(work[r].model) ELSE OtherModelsSucceeded(r)

Settle(r) ==
  /\ step[r] = "settle"
  /\ StillFree(r)
  /\ \/ DeviceIs(Phone(r)) /\ Goes(r, "launch") /\ UNCHANGED device
     \/ device = Absent /\ Goes(r, "device") /\ device' = Opened(r)
  /\ UNCHANGED <<given, checkout, guard, drive, evidence, partial,
                 log, shots, impeller, manifest, failed>>

DeviceWritten(r) ==
  /\ step[r] = "device"
  /\ device' = Closed(r)
  /\ Goes(r, "launch")
  /\ UNCHANGED <<given, checkout, guard, drive, evidence, partial,
                 log, shots, impeller, manifest, failed>>

\* Seeded bug: the log is opened whether or not it exists.
LaunchOver(r) ==
  /\ step[r] = "launch"
  /\ log' = [log EXCEPT ![work[r].model] = Opened(r)]
  /\ \/ Goes(r, "drive") /\ drive' = [drive EXCEPT ![r] = "alive"]
     \/ Goes(r, "failing") /\ UNCHANGED drive
  /\ UNCHANGED <<given, checkout, guard, device, evidence, partial,
                 shots, impeller, manifest, failed>>

(* stream_process: the log is created exclusively, then the drive starts,  *)
(* or its program cannot be executed.                                      *)
Launch(r) ==
  /\ step[r] = "launch"
  /\ log[work[r].model] = Absent
  /\ log' = [log EXCEPT ![work[r].model] = Opened(r)]
  /\ \/ Goes(r, "drive") /\ drive' = [drive EXCEPT ![r] = "alive"]
     \/ Goes(r, "failing") /\ UNCHANGED drive
  /\ UNCHANGED <<given, checkout, guard, device, evidence, partial,
                 shots, impeller, manifest, failed>>

(* The driver saves screenshots and the response over what is there. *)
DriveShoots(r) ==
  LET m == work[r].model IN
  /\ drive[r] = "alive"
  /\ shots[m] # Closed(r)
  /\ \E all \in BOOLEAN : shots' = [shots EXCEPT ![m] = [by |-> r, whole |-> all]]
  /\ UNCHANGED <<given, checkout, step, verdict, guard, drive, device,
                 evidence, partial, log, impeller, manifest, failed>>

(* End of the log and exit: the output may tell success or not, and so may *)
(* the exit code.                                                          *)
DriveExits(r) ==
  /\ step[r] = "drive" /\ drive[r] = "alive"
  /\ drive' = [drive EXCEPT ![r] = "gone"]
  /\ \E told \in BOOLEAN :
       log' = [log EXCEPT ![work[r].model] = [by |-> r, whole |-> told]]
  /\ Goes(r, "collect") \/ Goes(r, "failing")
  /\ UNCHANGED <<given, checkout, guard, device, evidence, partial,
                 shots, impeller, manifest, failed>>

(* terminate_then_kill returns after its waits, whether or not the group   *)
(* is gone.                                                                *)
AfterTerminateThenKill == {"gone", "alive"}

(* The deadline passes, or the log cannot be written any more.  What the   *)
(* drive still had to say is drained into the log.                         *)
DriveStopped(r) ==
  /\ step[r] = "drive"
  /\ \E d \in AfterTerminateThenKill : drive' = [drive EXCEPT ![r] = d]
  /\ \E told \in BOOLEAN :
       log' = [log EXCEPT ![work[r].model] = [by |-> r, whole |-> told]]
  /\ Goes(r, "failing")
  /\ UNCHANGED <<given, checkout, guard, device, evidence, partial,
                 shots, impeller, manifest, failed>>

(* A drive nobody waits for any more ends by itself. *)
OrphanEnds(r) ==
  /\ step[r] # "drive" /\ drive[r] = "alive"
  /\ drive' = [drive EXCEPT ![r] = "gone"]
  /\ UNCHANGED <<given, checkout, step, verdict, guard, root>>

(* collect_impeller_evidence: one COMPLETE in the log, then its file. *)
CollectImpellerEvidence(r) ==
  LET m == work[r].model IN
  /\ step[r] = "collect"
  /\ Whole(log[m]) /\ impeller[m] = Absent
  /\ impeller' = [impeller EXCEPT ![m] = Opened(r)]
  /\ Goes(r, "backend")
  /\ UNCHANGED <<given, checkout, guard, drive, device, evidence,
                 partial, log, shots, manifest, failed>>

BackendWritten(r) ==
  /\ step[r] = "backend"
  /\ impeller' = [impeller EXCEPT ![work[r].model] = Closed(r)]
  /\ Goes(r, "certify")
  /\ UNCHANGED <<given, checkout, guard, drive, device, evidence,
                 partial, log, shots, manifest, failed>>

(* Validation, the guard after the capture, and the success manifest. *)
Certify(r) ==
  LET m == work[r].model IN
  /\ step[r] = "certify"
  /\ ArtifactsOf(m, r) /\ WindowIs(m, r)
  /\ source = guard[r]
  /\ manifest[m] = Absent
  /\ manifest' = [manifest EXCEPT ![m] = Opened(r)]
  /\ Goes(r, "manifest")
  /\ UNCHANGED <<given, checkout, guard, drive, device, evidence,
                 partial, log, shots, impeller, failed>>

ManifestWritten(r) ==
  /\ step[r] = "manifest"
  /\ manifest' = [manifest EXCEPT ![work[r].model] = Closed(r)]
  /\ Ends(r, "ok")
  /\ UNCHANGED <<given, checkout, guard, drive, device, evidence,
                 partial, log, shots, impeller, failed>>

\* Seeded bug: the process is started before the try.
CaptureFailsAfterLaunch(r) ==
  /\ step[r] \in {"collect", "backend", "certify", "manifest"}
  /\ Goes(r, "failing")
  /\ UNCHANGED <<given, checkout, guard, drive, root>>

(* An Exception inside the try: a check, a bounded command, a write, or a  *)
(* file that another invocation created first.                             *)
CaptureFails(r) ==
  /\ step[r] \in {"launch", "collect", "backend", "certify", "manifest"}
  /\ Goes(r, "failing")
  /\ UNCHANGED <<given, checkout, guard, drive, root>>

\* Seeded bug: failed.json is written over.
RecordFailureAgain(r) ==
  /\ step[r] = "failing"
  /\ failed' = [failed EXCEPT ![work[r].model] = Opened(r)]
  /\ Goes(r, "failure")
  /\ UNCHANGED <<given, checkout, guard, drive, device, evidence,
                 partial, log, shots, impeller, manifest>>

RecordFailure(r) ==
  LET m == work[r].model IN
  /\ step[r] = "failing"
  /\ \/ failed[m] = Absent /\ failed' = [failed EXCEPT ![m] = Opened(r)]
        /\ Goes(r, "failure")
     \/ failed[m] # Absent /\ UNCHANGED failed /\ Ends(r, "failed")
  /\ UNCHANGED <<given, checkout, guard, drive, device, evidence,
                 partial, log, shots, impeller, manifest>>

FailureWritten(r) ==
  /\ step[r] = "failure"
  /\ failed' = [failed EXCEPT ![work[r].model] = Closed(r)]
  /\ Ends(r, "failed")
  /\ UNCHANGED <<given, checkout, guard, drive, device, evidence,
                 partial, log, shots, impeller, manifest>>

-----------------------------------------------------------------------------
(* The modes that look at the whole root. *)

StartFinalize(r) ==
  /\ step[r] = "idle" /\ work[r].op = "finalize"
  /\ evidence = Absent
  /\ RepositoryGuard(r)
  /\ Goes(r, "gather")
  /\ UNCHANGED <<given, checkout, drive, root>>

(* Every model succeeded with this guard, and there is no other manifest.  *)
GatherFinal(r) ==
  /\ step[r] = "gather" /\ work[r].op = "finalize" /\ family = "candidate"
  /\ SucceededWith(Model, guard[r])
  /\ NoFailure
  /\ ExactInventory
  /\ Goes(r, "conclude")
  /\ UNCHANGED <<given, checkout, guard, drive, root>>

(* Of the pair of controls, the analysis of the images may yet refuse it.  *)
GatherNativeFinal(r) ==
  /\ step[r] = "gather" /\ work[r].op = "finalize" /\ family = "native"
  /\ KnownEntries
  /\ SucceededWith(Model, guard[r])
  /\ NoFailure
  /\ ExactInventory
  /\ Goes(r, "conclude")
  /\ UNCHANGED <<given, checkout, guard, drive, root>>

(* The guard again, then evidence.json, created exclusively. *)
ConcludeFinal(r) ==
  /\ step[r] = "conclude" /\ work[r].op = "finalize"
  /\ source = guard[r]
  /\ evidence = Absent
  /\ evidence' = Opened(r)
  /\ Goes(r, "evidence")
  /\ UNCHANGED <<given, checkout, guard, drive, device, partial,
                 log, shots, impeller, manifest, failed>>

EvidenceWritten(r) ==
  /\ step[r] = "evidence"
  /\ evidence' = Closed(r)
  /\ Ends(r, "ok")
  /\ UNCHANGED <<given, checkout, guard, drive, device, partial,
                 log, shots, impeller, manifest, failed>>

StartSummary(r) ==
  /\ step[r] = "idle" /\ work[r].op = "summarize"
  /\ evidence = Absent /\ partial = Absent /\ NoFailure
  /\ RepositoryGuard(r)
  /\ Goes(r, "gather")
  /\ UNCHANGED <<given, checkout, drive, root>>

\* Seeded bug: the sources of the captures are not compared.
GatherSummaryStale(r) ==
  /\ step[r] = "gather" /\ work[r].op = "summarize"
  /\ \E captured \in Source : SucceededWith(Completed, captured)
  /\ DeferredAreAbsent
  /\ Goes(r, "conclude")
  /\ UNCHANGED <<given, checkout, guard, drive, root>>

GatherSummary(r) ==
  /\ step[r] = "gather" /\ work[r].op = "summarize"
  /\ CompletedBefore(guard[r])
  /\ DeferredAreAbsent
  /\ Goes(r, "conclude")
  /\ UNCHANGED <<given, checkout, guard, drive, root>>

ConcludeSummary(r) ==
  /\ step[r] = "conclude" /\ work[r].op = "summarize"
  /\ source = guard[r]
  /\ partial = Absent
  /\ partial' = Opened(r)
  /\ Goes(r, "partial")
  /\ UNCHANGED <<given, checkout, guard, drive, device, evidence,
                 log, shots, impeller, manifest, failed>>

PartialWritten(r) ==
  /\ step[r] = "partial"
  /\ partial' = Closed(r)
  /\ Ends(r, "ok")
  /\ UNCHANGED <<given, checkout, guard, drive, device, evidence,
                 log, shots, impeller, manifest, failed>>

(* validate_partial_summary_real, or audit_m3_status_real, which validates *)
(* the final evidence if there is one.                                     *)
StartAudit(r) ==
  /\ step[r] = "idle" /\ work[r].op \in {"audit", "recheck"}
  /\ NoFailure
  /\ \/ work[r].op = "audit" /\ Whole(evidence) /\ partial = Absent /\ Goes(r, "verify")
     \/ evidence = Absent /\ Whole(partial) /\ Goes(r, "gather")
  /\ RepositoryGuard(r)
  /\ UNCHANGED <<given, checkout, drive, root>>

(* The root still is what evidence.json says. *)
ValidateFinalEvidence(r) ==
  LET captured == guard[evidence.by] IN
  /\ step[r] = "verify"
  /\ DependencyUnchanged(captured, guard[r])
  /\ SucceededWith(Model, captured)
  /\ NoFailure
  /\ ExactInventory
  /\ Goes(r, "health")
  /\ UNCHANGED <<given, checkout, guard, drive, root>>

(* The analyzer is a program of its own that looks at the images. *)
HealthValidated(r) ==
  /\ step[r] = "health"
  /\ Ends(r, "final")
  /\ UNCHANGED <<given, checkout, guard, drive, root>>

ValidatePartialSummary(r) ==
  /\ step[r] = "gather" /\ work[r].op \in {"audit", "recheck"}
  /\ WithoutMutableSources(guard[partial.by]) = WithoutMutableSources(guard[r])
  /\ CompletedBefore(guard[r])
  /\ DeferredAreAbsent
  /\ IF work[r].op = "audit" THEN Goes(r, "blocker") ELSE Ends(r, "partial")
  /\ UNCHANGED <<given, checkout, guard, drive, root>>

(* What blocks the deferred model is read from its frozen GLB and from     *)
(* other run roots.                                                        *)
BlockerAudited(r) ==
  /\ step[r] = "blocker"
  /\ Ends(r, "partial")
  /\ UNCHANGED <<given, checkout, guard, drive, root>>

-----------------------------------------------------------------------------
(* A check raises outside the try: the tool exits with 2 and has written   *)
(* nothing.  Any bounded command (git, simctl, the harness validator) may  *)
(* fail or time out, so that every check may refuse.                       *)
Refuse(r) ==
  /\ step[r] \in Checking
  /\ Ends(r, "failed")
  /\ UNCHANGED <<given, checkout, guard, drive, root>>

RefuseStart(r) ==
  /\ step[r] = "idle" /\ work[r].op # "none"
  /\ Ends(r, "failed")
  /\ UNCHANGED <<given, checkout, guard, drive, root>>

(* A write outside the try, or of the failure itself, raises.  The file    *)
(* stays as it is.                                                         *)
WriteFails(r) ==
  /\ step[r] \in {"device", "failure", "evidence", "partial"}
  /\ Ends(r, "failed")
  /\ UNCHANGED <<given, checkout, guard, drive, root>>

(* The invocation is killed, or interrupted: `except Exception` does not   *)
(* see a KeyboardInterrupt, but stream_process stops the drive for it.     *)
Cut(r) ==
  /\ step[r] \notin {"idle", "done"} /\ kills > 0
  /\ Ends(r, "failed")
  /\ \/ UNCHANGED drive
     \/ step[r] = "drive" /\ drive' = [drive EXCEPT ![r] = "gone"]
  /\ kills' = kills - 1
  /\ UNCHANGED <<given, source, edits, guard, root>>

(* Somebody edits, or restores, a dynamic source. *)
EditSource ==
  /\ edits > 0
  /\ \E s \in Source \ {source} : source' = s
  /\ edits' = edits - 1
  /\ UNCHANGED <<given, kills, step, verdict, guard, drive, root>>

CaptureStep(r) ==
  \/ Plan(r) \/ Inspect(r) \/ Settle(r) \/ DeviceWritten(r)
  \/ Launch(r) \/ DriveStopped(r)
  \/ CollectImpellerEvidence(r) \/ BackendWritten(r)
  \/ Certify(r) \/ ManifestWritten(r)
  \/ CaptureFails(r) \/ RecordFailure(r) \/ FailureWritten(r)

RootStep(r) ==
  \/ GatherFinal(r) \/ GatherNativeFinal(r) \/ ConcludeFinal(r) \/ EvidenceWritten(r)
  \/ GatherSummary(r) \/ ConcludeSummary(r) \/ PartialWritten(r)
  \/ ValidateFinalEvidence(r) \/ HealthValidated(r)
  \/ ValidatePartialSummary(r) \/ BlockerAudited(r)
  \/ Refuse(r) \/ WriteFails(r)

Start(r) ==
  \/ StartModel(r) \/ StartFinalize(r) \/ StartSummary(r) \/ StartAudit(r)
  \/ RefuseStart(r)

Outside(r) == DriveShoots(r) \/ DriveExits(r) \/ OrphanEnds(r) \/ Cut(r)

Next ==
  \/ \E r \in Runner : Start(r) \/ CaptureStep(r) \/ RootStep(r) \/ Outside(r)
  \/ EditSource

(* An invocation that runs goes on: its commands and its drive are bounded *)
(* by deadlines, its writes are local.  Nothing is assumed of the drive.   *)
Fairness == \A r \in Runner : WF_vars(CaptureStep(r) \/ RootStep(r))

Spec == Init /\ [][Next]_vars
FairSpec == Spec /\ Fairness

-----------------------------------------------------------------------------
(* Properties. *)

(* What a manifest vouches for was made by one invocation: while others    *)
(* start, fail, are killed and leave drives behind, the log, the response, *)
(* the screenshots and the backend proof of a certified model are those of *)
(* the invocation that wrote the manifest, on the root's Simulator, and no *)
(* drive can change them any more (capture_one, 3626-3671).                *)
ManifestBindsOneCapture ==
  \A m \in Model : manifest[m] # Absent =>
    LET c == manifest[m].by IN
    /\ log[m] = Closed(c) /\ shots[m] = Closed(c) /\ impeller[m] = Closed(c)
    /\ DeviceIs(Phone(c))
    /\ \A r \in Runner : work[r].model = m => drive[r] # "alive"

(* The steps of a capture from the creation of its log on. *)
Capturing == {"drive", "collect", "backend", "certify", "manifest"}
Launched == Capturing \cup {"failing", "failure", "done"}

(* The files of a model are of the one capture that created its log, made  *)
(* on the root's Simulator.                                                *)
OneCapturePerModel ==
  \A m \in Model :
    /\ log[m] # Absent =>
         /\ work[log[m].by].model = m /\ step[log[m].by] \in Launched
         /\ DeviceIs(Phone(log[m].by))
    /\ shots[m] # Absent => log[m] # Absent /\ shots[m].by = log[m].by
    /\ impeller[m] # Absent =>
         /\ log[m] # Absent /\ impeller[m].by = log[m].by
         /\ step[log[m].by] \in Launched \ {"drive", "collect"}
         /\ drive[log[m].by] = "gone"
    /\ manifest[m] # Absent =>
         step[manifest[m].by] \in {"manifest", "failing", "failure", "done"}

(* Where an invocation is tells what it has in hand. *)
InHand ==
  \A r \in Runner :
    LET m == work[r].model IN
    /\ step[r] \in Capturing \/ drive[r] # "none" => log[m] # Absent /\ log[m].by = r
    /\ step[r] = "drive" => log[m] = Opened(r)
    /\ step[r] \in Capturing \ {"drive"} => drive[r] = "gone"
    /\ step[r] = "device" => device = Opened(r)
    /\ step[r] = "launch" => DeviceIs(Phone(r))
    /\ step[r] = "backend" => impeller[m] = Opened(r)
    /\ step[r] = "certify" => impeller[m] = Closed(r)
    /\ step[r] = "manifest" => manifest[m] = Opened(r)
    /\ step[r] = "failure" => failed[m] = Opened(r)
    /\ step[r] = "evidence" => evidence = Opened(r)
    /\ step[r] = "partial" => partial = Opened(r)

(* What a finalization or a summary has seen stays true while it concludes. *)
SeenStaysTrue ==
  \A r \in Runner : step[r] = "conclude" =>
    \/ work[r].op = "finalize" /\ SucceededWith(Model, guard[r])
    \/ work[r].op = "summarize" /\ CompletedBefore(guard[r])

(* evidence.json is of a root in which every model succeeded from the      *)
(* sources it names, and partial_evidence.json of one in which the others  *)
(* did, from sources that differ at most where they may: whatever captures *)
(* and edits go on between the checks and the write (4255-4298, 4464-4542). *)
FilesAreCoherent ==
  /\ evidence # Absent =>
       step[evidence.by] # "idle" /\ SucceededWith(Model, guard[evidence.by])
  /\ partial # Absent =>
       step[partial.by] # "idle" /\ CompletedBefore(guard[partial.by])

SaysFinal(r) == step[r] \in {"verify", "health"} \/ verdict[r] = "final"
SaysPartial(r) ==
  \/ step[r] = "gather" /\ work[r].op \in {"audit", "recheck"}
  \/ step[r] = "blocker" \/ verdict[r] = "partial"

(* No two audits of a root ever disagree about it: it is final for none    *)
(* for which, or before or after which, it is partial (5432-5528).         *)
AuditsAgree ==
  /\ \A r \in Runner : SaysFinal(r) => Whole(evidence)
  /\ \A r \in Runner : SaysPartial(r) => Whole(partial)
  /\ \A r, q \in Runner : ~(SaysFinal(r) /\ SaysPartial(q))

(* What is written about the whole root, and said of it, is true of it.    *)
EvidenceIsCoherent == FilesAreCoherent /\ AuditsAgree

(* Whose file each file is, and what an invocation has in hand, however    *)
(* captures of one root interleave, are killed and leave drives behind.    *)
RootInv ==
  /\ TypeOK
  /\ OneCapturePerModel /\ InHand /\ ManifestBindsOneCapture
  /\ SeenStaysTrue

(* "nothing was deleted or overwritten" (retentionBoundary, 3711): a file  *)
(* stays, and only who created it adds to it until it is whole.            *)
OnlyGrows(old, new) ==
  new = old \/ old = Absent \/ (new # Absent /\ new.by = old.by /\ ~old.whole)

NothingOverwritten ==
  [][ /\ OnlyGrows(device, device') /\ OnlyGrows(evidence, evidence')
      /\ OnlyGrows(partial, partial')
      /\ \A m \in Model :
           /\ OnlyGrows(log[m], log'[m]) /\ OnlyGrows(shots[m], shots'[m])
           /\ OnlyGrows(impeller[m], impeller'[m])
           /\ OnlyGrows(manifest[m], manifest'[m])
           /\ OnlyGrows(failed[m], failed'[m]) ]_root

(* Every invocation ends, also one whose drive hangs, whose log is taken   *)
(* by another, or that cannot record its failure (3033-3045, 3672-3720).   *)
CommandsEnd == []<>(\A r \in Runner : step[r] \in {"idle", "done"})

(* Read as a ledger of success manifests, sealed by evidence.json, the run *)
(* root is what EvidenceLedger promises.                                   *)
Entry(m) ==
  IF Whole(manifest[m])
  THEN [source |-> GuardOf(m), phone |-> Phone(manifest[m].by)]
  ELSE Absent

SealEntry ==
  IF Whole(evidence)
  THEN [source |-> guard[evidence.by], phone |-> Phone(device.by)]
  ELSE Absent

Ledger == INSTANCE EvidenceLedger WITH
  None <- Absent, entry <- [m \in Model |-> Entry(m)], seal <- SealEntry

KeepsLedger == Ledger!LedgerSpec
=============================================================================
