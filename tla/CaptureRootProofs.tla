------------------------- MODULE CaptureRootProofs -------------------------
(***************************************************************************)
(* Proofs about CaptureRoot, for any models, invocations, Simulators and   *)
(* sources, and any number of edits and kills.  Inv is inductive: whose    *)
(* file each file is, together with what evidence.json and the partial     *)
(* summary vouch for.  Most steps touch no file: they are treated at once, *)
(* as Quiet steps.                                                         *)
(***************************************************************************)
EXTENDS CaptureRoot, TLAPS

Inv == RootInv /\ EvidenceIsCoherent

\* A file that is there has a creator and a state.
LEMMA FileFields ==
  ASSUME NEW f \in File, f # Absent
  PROVE  f.by \in Runner /\ f.whole \in BOOLEAN
<1>1. f \in Written BY DEF File
<1> QED BY <1>1 DEF Written

\* A file as r writes it.
LEMMA FileOf ==
  ASSUME NEW r \in Runner, NEW b \in BOOLEAN
  PROVE  /\ [by |-> r, whole |-> b] \in File /\ [by |-> r, whole |-> b] # Absent
         /\ [by |-> r, whole |-> b].by = r /\ [by |-> r, whole |-> b].whole = b
BY AbsentAssumption DEF File, Written

\* A file that r has created, and one that it has finished.
LEMMA OpenedClosed ==
  ASSUME NEW r \in Runner
  PROVE  /\ Opened(r) \in File /\ Opened(r) # Absent
         /\ Opened(r).by = r /\ Opened(r).whole = FALSE
         /\ Closed(r) \in File /\ Closed(r) # Absent
         /\ Closed(r).by = r /\ Closed(r).whole = TRUE
BY FileOf DEF Opened, Closed

\* It is whole or still open.
LEMMA WholeIsClosed ==
  ASSUME NEW f \in File, f # Absent
  PROVE  /\ f.whole => f = Closed(f.by)
         /\ ~f.whole => f = Opened(f.by)
<1>1. f \in Written BY DEF File
<1>2. f = [by |-> f.by, whole |-> f.whole] BY <1>1 DEF Written
<1>3. f.whole \in BOOLEAN BY FileFields
<1> QED BY <1>2, <1>3 DEF Closed, Opened

-----------------------------------------------------------------------------
\* Control stays within its types.
LEMMA ControlType ==
  ASSUME TypeOK, NEW r \in Runner
  PROVE  /\ \A s \in Step : Goes(r, s) =>
              step' \in [Runner -> Step] /\ verdict' \in [Runner -> Verdict]
         /\ \A v \in Verdict : Ends(r, v) =>
              step' \in [Runner -> Step] /\ verdict' \in [Runner -> Verdict]
         /\ {"backend", "certify", "manifest", "failure"} \subseteq Step
         /\ {"ok", "failed"} \subseteq Verdict
BY DEF TypeOK, Goes, Ends, Step, Writing, Verdict

\* Type correctness, step by step.
LEMMA TypeStep ==
  ASSUME TypeOK, [Next]_vars
  PROVE  TypeOK'
<1> USE DEF TypeOK, given, checkout, root
<1>1. ASSUME NEW r \in Runner, Start(r)
      PROVE  TypeOK'
  <2>1. RepositoryGuard(r) => guard' \in [Runner -> Source]
    BY DEF RepositoryGuard
  <2>2. \A s \in Step : Goes(r, s) => step' \in [Runner -> Step] /\ verdict' = verdict
    BY DEF Goes
  <2>3. CASE StartModel(r) \/ StartFinalize(r) \/ StartSummary(r) \/ StartAudit(r)
    <3>1. {"inspect", "gather", "verify"} \subseteq Step
      BY DEF Step, Checking
    <3>2. \/ Goes(r, "inspect") \/ Goes(r, "gather") \/ Goes(r, "verify")
      BY <2>3 DEF StartModel, StartFinalize, StartSummary, StartAudit
    <3>3. RepositoryGuard(r) /\ UNCHANGED <<given, checkout, drive, root>>
      BY <2>3 DEF StartModel, StartFinalize, StartSummary, StartAudit
    <3> QED BY <3>1, <3>2, <3>3, <2>1, <2>2
  <2>4. CASE RefuseStart(r)
    BY <2>4 DEF RefuseStart, Ends, Step, Verdict
  <2> QED BY <1>1, <2>3, <2>4 DEF Start
<1>2. ASSUME NEW r \in Runner, CaptureStep(r)
      PROVE  TypeOK'
  <2> DEFINE m == work[r].model
  <2>1. /\ m \in Model
        /\ Opened(r) \in File /\ Closed(r) \in File
        /\ \A b \in BOOLEAN : [by |-> r, whole |-> b] \in File
    BY OpenedClosed, FileOf
  <2>2. CASE Plan(r) \/ Inspect(r) \/ CaptureFails(r)
    BY <2>2 DEF Plan, Inspect, CaptureFails, Goes, Ends, Step, Checking, Verdict
  <2>3. CASE Settle(r) \/ DeviceWritten(r)
    <3>1. device' \in File /\ {"launch", "device"} \subseteq Step
      BY <2>1, <2>3 DEF Settle, DeviceWritten, Step, Writing
    <3> QED BY <2>3, <3>1 DEF Settle, DeviceWritten, Goes
  <2>4. CASE Launch(r)
    <3>1. log' \in [Model -> File] /\ drive' \in [Runner -> {"none", "alive", "gone"}]
      BY <2>1, <2>4 DEF Launch
    <3>2. step' \in [Runner -> Step] /\ verdict' = verdict
      BY <2>4 DEF Launch, Goes, Step
    <3> QED BY <2>4, <3>1, <3>2 DEF Launch
  <2>5. CASE DriveStopped(r)
    <3>1. log' \in [Model -> File] /\ drive' \in [Runner -> {"none", "alive", "gone"}]
      BY <2>1, <2>5 DEF DriveStopped, AfterTerminateThenKill
    <3> QED BY <2>5, <3>1 DEF DriveStopped, Goes, Step
  <2>6. CASE CollectImpellerEvidence(r) \/ BackendWritten(r)
    <3>1. impeller' \in [Model -> File]
      BY <2>1, <2>6 DEF CollectImpellerEvidence, BackendWritten
    <3> QED BY <2>6, <3>1, ControlType DEF CollectImpellerEvidence, BackendWritten
  <2>7. CASE Certify(r) \/ ManifestWritten(r)
    <3>1. manifest' \in [Model -> File]
      BY <2>1, <2>7 DEF Certify, ManifestWritten
    <3> QED BY <2>7, <3>1, ControlType DEF Certify, ManifestWritten
  <2>8. CASE RecordFailure(r) \/ FailureWritten(r)
    <3>1. failed' \in [Model -> File]
      BY <2>1, <2>8 DEF RecordFailure, FailureWritten
    <3>2. \/ Goes(r, "failure") \/ Ends(r, "failed")
      BY <2>8 DEF RecordFailure, FailureWritten
    <3> QED BY <2>8, <3>1, <3>2, ControlType DEF RecordFailure, FailureWritten
  <2> QED BY <1>2, <2>2, <2>3, <2>4, <2>5, <2>6, <2>7, <2>8 DEF CaptureStep
<1>3. ASSUME NEW r \in Runner, RootStep(r)
      PROVE  TypeOK'
  <2>1. Opened(r) \in File /\ Closed(r) \in File
    BY OpenedClosed
  <2>2. CASE GatherFinal(r) \/ GatherNativeFinal(r) \/ GatherSummary(r)
    BY <2>2 DEF GatherFinal, GatherNativeFinal, GatherSummary, Goes, Step, Checking
  <2>3. CASE ConcludeFinal(r) \/ EvidenceWritten(r)
    BY <2>1, <2>3 DEF ConcludeFinal, EvidenceWritten, Goes, Ends, Step, Writing, Verdict
  <2>4. CASE ConcludeSummary(r) \/ PartialWritten(r)
    BY <2>1, <2>4 DEF ConcludeSummary, PartialWritten, Goes, Ends, Step, Writing, Verdict
  <2>5. CASE \/ ValidateFinalEvidence(r) \/ HealthValidated(r)
             \/ ValidatePartialSummary(r) \/ BlockerAudited(r)
    BY <2>5 DEF ValidateFinalEvidence, HealthValidated, ValidatePartialSummary,
      BlockerAudited, Goes, Ends, Step, Checking, Verdict
  <2>6. CASE Refuse(r) \/ WriteFails(r)
    BY <2>6 DEF Refuse, WriteFails, Ends, Step, Verdict
  <2> QED BY <1>3, <2>2, <2>3, <2>4, <2>5, <2>6 DEF RootStep
<1>4. ASSUME NEW r \in Runner, Outside(r)
      PROVE  TypeOK'
  <2>1. work[r].model \in Model /\ \A b \in BOOLEAN : [by |-> r, whole |-> b] \in File
    BY FileOf
  <2>2. CASE DriveShoots(r)
    BY <2>1, <2>2 DEF DriveShoots
  <2>3. CASE DriveExits(r)
    BY <2>1, <2>3 DEF DriveExits, Goes, Step
  <2>4. CASE OrphanEnds(r)
    BY <2>4 DEF OrphanEnds
  <2>5. CASE Cut(r)
    BY <2>5, BoundAssumption DEF Cut, Ends, Step, Verdict
  <2> QED BY <1>4, <2>2, <2>3, <2>4, <2>5 DEF Outside
<1>5. CASE EditSource
  BY <1>5, BoundAssumption DEF EditSource
<1>6. CASE UNCHANGED vars
  BY <1>6 DEF vars
<1> QED BY <1>1, <1>2, <1>3, <1>4, <1>5, <1>6 DEF Next

-----------------------------------------------------------------------------
\* Where a step that touches no file may lead.
Resting == {"inspect", "settle", "failing", "gather", "conclude",
            "verify", "health", "blocker", "done"}

\* What r has seen when it goes on to conclude.
Seen(r) ==
  \/ work[r].op = "finalize" /\ SucceededWith(Model, guard[r])
  \/ work[r].op = "summarize" /\ CompletedBefore(guard[r])

QuietMove(r, s) ==
  /\ step' = [step EXCEPT ![r] = s]
  /\ step[r] \in Launched => s \in {"failing", "done"}
  /\ s = "conclude" => step[r] = "gather" /\ Seen(r)

\* A step of r that touches no file: at most it ends its drive, and it reads
\* its guard when it starts.
Quiet(r) ==
  /\ UNCHANGED <<given, root>>
  /\ \/ drive' = drive
     \/ /\ drive' = [drive EXCEPT ![r] = "gone"]
        /\ drive[r] # "none" \/ step[r] = "drive"
  /\ \/ guard' = guard
     \/ step[r] = "idle" /\ guard' = [guard EXCEPT ![r] = source]
  /\ step' = step \/ \E s \in Resting : QuietMove(r, s)

\* The steps that do.
Touches(r) ==
  \/ Settle(r) \/ DeviceWritten(r) \/ Launch(r)
  \/ DriveShoots(r) \/ DriveExits(r) \/ DriveStopped(r)
  \/ CollectImpellerEvidence(r) \/ BackendWritten(r)
  \/ Certify(r) \/ ManifestWritten(r) \/ RecordFailure(r) \/ FailureWritten(r)
  \/ ConcludeFinal(r) \/ EvidenceWritten(r)
  \/ ConcludeSummary(r) \/ PartialWritten(r)

\* Every step is of one of these kinds.
LEMMA StepKinds ==
  ASSUME Next
  PROVE  EditSource \/ \E r \in Runner : Quiet(r) \/ Touches(r)
<1> USE DEF Resting, Launched, Capturing
<1>1. ASSUME NEW r \in Runner, Start(r)
      PROVE  Quiet(r)
  <2>1. CASE RefuseStart(r)
    BY <2>1 DEF RefuseStart, Quiet, QuietMove, Ends
  <2>2. CASE StartModel(r) \/ StartFinalize(r) \/ StartSummary(r) \/ StartAudit(r)
    <3>1. /\ step[r] = "idle" /\ RepositoryGuard(r)
          /\ UNCHANGED <<given, checkout, drive, root>>
          /\ Goes(r, "inspect") \/ Goes(r, "gather") \/ Goes(r, "verify")
      BY <2>2 DEF StartModel, StartFinalize, StartSummary, StartAudit
    <3> QED BY <3>1 DEF Quiet, QuietMove, RepositoryGuard, Goes
  <2> QED BY <1>1, <2>1, <2>2 DEF Start
<1>2. ASSUME NEW r \in Runner, CaptureStep(r)
      PROVE  Quiet(r) \/ Touches(r)
  <2>1. CASE Plan(r) \/ Inspect(r) \/ CaptureFails(r)
    BY <2>1 DEF Plan, Inspect, CaptureFails, Quiet, QuietMove, Goes, Ends
  <2> QED BY <1>2, <2>1 DEF CaptureStep, Touches
<1>3. ASSUME NEW r \in Runner, RootStep(r)
      PROVE  Quiet(r) \/ Touches(r)
  <2>1. CASE GatherFinal(r) \/ GatherNativeFinal(r) \/ GatherSummary(r)
    <3>1. Goes(r, "conclude") /\ Seen(r) /\ step[r] = "gather"
      BY <2>1 DEF GatherFinal, GatherNativeFinal, GatherSummary, Seen
    <3>2. UNCHANGED <<given, checkout, guard, drive, root>>
      BY <2>1 DEF GatherFinal, GatherNativeFinal, GatherSummary
    <3> QED BY <3>1, <3>2 DEF Quiet, QuietMove, Goes
  <2>2. CASE \/ ValidateFinalEvidence(r) \/ HealthValidated(r)
             \/ ValidatePartialSummary(r) \/ BlockerAudited(r)
             \/ Refuse(r) \/ WriteFails(r)
    <3>1. UNCHANGED <<given, checkout, guard, drive, root>>
      BY <2>2 DEF ValidateFinalEvidence, HealthValidated, ValidatePartialSummary,
        BlockerAudited, Refuse, WriteFails
    <3>2. \/ \E v \in Verdict : Ends(r, v)
          \/ step[r] \notin Launched /\ (Goes(r, "health") \/ Goes(r, "blocker"))
      BY <2>2 DEF ValidateFinalEvidence, HealthValidated, ValidatePartialSummary,
        BlockerAudited, Refuse, WriteFails, Verdict
    <3> QED BY <3>1, <3>2 DEF Quiet, QuietMove, Goes, Ends
  <2> QED BY <1>3, <2>1, <2>2 DEF RootStep, Touches
<1>4. ASSUME NEW r \in Runner, Outside(r)
      PROVE  Quiet(r) \/ Touches(r)
  <2>1. CASE OrphanEnds(r)
    BY <2>1 DEF OrphanEnds, Quiet
  <2>2. CASE Cut(r)
    BY <2>2 DEF Cut, Quiet, QuietMove, Ends
  <2> QED BY <1>4, <2>1, <2>2 DEF Outside, Touches
<1> QED BY <1>1, <1>2, <1>3, <1>4 DEF Next

-----------------------------------------------------------------------------
(* Files grow.                                                             *)

\* Of a family of files one grows.
LEMMA OneGrows ==
  ASSUME NEW f \in [Model -> File], NEW g, NEW m \in Model, NEW x,
         g = [f EXCEPT ![m] = x], OnlyGrows(f[m], x)
  PROVE  \A n \in Model : OnlyGrows(f[n], g[n])
<1> SUFFICES ASSUME NEW n \in Model PROVE OnlyGrows(f[n], g[n])
  OBVIOUS
<1>1. CASE n = m
  BY <1>1
<1>2. CASE n # m
  BY <1>2 DEF OnlyGrows
<1> QED BY <1>1, <1>2

Grow ==
  /\ OnlyGrows(device, device') /\ OnlyGrows(evidence, evidence')
  /\ OnlyGrows(partial, partial')
  /\ \A m \in Model :
       /\ OnlyGrows(log[m], log'[m]) /\ OnlyGrows(shots[m], shots'[m])
       /\ OnlyGrows(impeller[m], impeller'[m])
       /\ OnlyGrows(manifest[m], manifest'[m])
       /\ OnlyGrows(failed[m], failed'[m])

\* A step that leaves the files alone.
LEMMA RootStays ==
  ASSUME UNCHANGED root
  PROVE  Grow
BY DEF Grow, OnlyGrows, root

\* A file that is absent, or that r has open, may become what r writes.
LEMMA WriterGrows ==
  ASSUME NEW r \in Runner, NEW f, f = Absent \/ f = Opened(r), NEW b \in BOOLEAN
  PROVE  OnlyGrows(f, [by |-> r, whole |-> b])
BY FileOf DEF OnlyGrows, Opened

\* The root's own files.
LEMMA RootFileGrows ==
  ASSUME NEW r \in Runner, NEW b \in BOOLEAN,
         UNCHANGED <<log, shots, impeller, manifest, failed>>,
         \/ /\ device = Absent \/ device = Opened(r)
            /\ device' = [by |-> r, whole |-> b] /\ UNCHANGED <<evidence, partial>>
         \/ /\ evidence = Absent \/ evidence = Opened(r)
            /\ evidence' = [by |-> r, whole |-> b] /\ UNCHANGED <<device, partial>>
         \/ /\ partial = Absent \/ partial = Opened(r)
            /\ partial' = [by |-> r, whole |-> b] /\ UNCHANGED <<device, evidence>>
  PROVE  Grow
<1>1. OnlyGrows(device, device') /\ OnlyGrows(evidence, evidence') /\ OnlyGrows(partial, partial')
  BY WriterGrows DEF OnlyGrows
<1> QED BY <1>1 DEF Grow, OnlyGrows

\* A file of one model.
LEMMA ModelFileGrows ==
  ASSUME TypeOK, NEW r \in Runner, NEW m \in Model, NEW b \in BOOLEAN,
         UNCHANGED <<device, evidence, partial>>,
         LET new == [by |-> r, whole |-> b] IN
         \/ /\ OnlyGrows(log[m], new) /\ log' = [log EXCEPT ![m] = new]
            /\ UNCHANGED <<shots, impeller, manifest, failed>>
         \/ /\ OnlyGrows(shots[m], new) /\ shots' = [shots EXCEPT ![m] = new]
            /\ UNCHANGED <<log, impeller, manifest, failed>>
         \/ /\ OnlyGrows(impeller[m], new) /\ impeller' = [impeller EXCEPT ![m] = new]
            /\ UNCHANGED <<log, shots, manifest, failed>>
         \/ /\ OnlyGrows(manifest[m], new) /\ manifest' = [manifest EXCEPT ![m] = new]
            /\ UNCHANGED <<log, shots, impeller, failed>>
         \/ /\ OnlyGrows(failed[m], new) /\ failed' = [failed EXCEPT ![m] = new]
            /\ UNCHANGED <<log, shots, impeller, manifest>>
  PROVE  Grow
<1> DEFINE new == [by |-> r, whole |-> b]
<1>1. \A f \in File : OnlyGrows(f, f)
  BY DEF OnlyGrows
<1>2. /\ log \in [Model -> File] /\ shots \in [Model -> File] /\ impeller \in [Model -> File]
      /\ manifest \in [Model -> File] /\ failed \in [Model -> File]
  BY DEF TypeOK
<1>3. /\ OnlyGrows(device, device') /\ OnlyGrows(evidence, evidence')
      /\ OnlyGrows(partial, partial')
  BY DEF OnlyGrows
<1>4. CASE OnlyGrows(log[m], new) /\ log' = [log EXCEPT ![m] = new]
           /\ UNCHANGED <<shots, impeller, manifest, failed>>
  <2>1. \A n \in Model : OnlyGrows(log[n], log'[n])
    BY <1>2, <1>4, OneGrows
  <2> QED BY <2>1, <1>1, <1>2, <1>3, <1>4 DEF Grow
<1>5. CASE OnlyGrows(shots[m], new) /\ shots' = [shots EXCEPT ![m] = new]
           /\ UNCHANGED <<log, impeller, manifest, failed>>
  <2>1. \A n \in Model : OnlyGrows(shots[n], shots'[n])
    BY <1>2, <1>5, OneGrows
  <2> QED BY <2>1, <1>1, <1>2, <1>3, <1>5 DEF Grow
<1>6. CASE OnlyGrows(impeller[m], new) /\ impeller' = [impeller EXCEPT ![m] = new]
           /\ UNCHANGED <<log, shots, manifest, failed>>
  <2>1. \A n \in Model : OnlyGrows(impeller[n], impeller'[n])
    BY <1>2, <1>6, OneGrows
  <2> QED BY <2>1, <1>1, <1>2, <1>3, <1>6 DEF Grow
<1>7. CASE OnlyGrows(manifest[m], new) /\ manifest' = [manifest EXCEPT ![m] = new]
           /\ UNCHANGED <<log, shots, impeller, failed>>
  <2>1. \A n \in Model : OnlyGrows(manifest[n], manifest'[n])
    BY <1>2, <1>7, OneGrows
  <2> QED BY <2>1, <1>1, <1>2, <1>3, <1>7 DEF Grow
<1>8. CASE OnlyGrows(failed[m], new) /\ failed' = [failed EXCEPT ![m] = new]
           /\ UNCHANGED <<log, shots, impeller, manifest>>
  <2>1. \A n \in Model : OnlyGrows(failed[n], failed'[n])
    BY <1>2, <1>8, OneGrows
  <2> QED BY <2>1, <1>1, <1>2, <1>3, <1>8 DEF Grow
<1> QED BY <1>4, <1>5, <1>6, <1>7, <1>8

\* What a step that touches a file does to it.
LEMMA TouchGrows ==
  ASSUME Inv, NEW r \in Runner, Touches(r)
  PROVE  Grow
<1> DEFINE m == work[r].model
<1>1. TypeOK /\ m \in Model /\ TRUE \in BOOLEAN /\ FALSE \in BOOLEAN
  BY DEF Inv, RootInv, TypeOK
<1>2. /\ Opened(r) = [by |-> r, whole |-> FALSE]
      /\ Closed(r) = [by |-> r, whole |-> TRUE]
  BY DEF Opened, Closed
<1>3. /\ step[r] = "drive" => log[m] = Opened(r)
      /\ step[r] = "device" => device = Opened(r)
      /\ step[r] = "backend" => impeller[m] = Opened(r)
      /\ step[r] = "manifest" => manifest[m] = Opened(r)
      /\ step[r] = "failure" => failed[m] = Opened(r)
      /\ step[r] = "evidence" => evidence = Opened(r)
      /\ step[r] = "partial" => partial = Opened(r)
  BY DEF Inv, RootInv, InHand
<1>4. CASE Settle(r)
  BY <1>1, <1>2, <1>4, RootStays, RootFileGrows DEF Settle, root
<1>5. CASE DeviceWritten(r)
  BY <1>1, <1>2, <1>3, <1>5, RootFileGrows DEF DeviceWritten
<1>6. CASE ConcludeFinal(r)
  BY <1>1, <1>2, <1>6, RootFileGrows DEF ConcludeFinal
<1>7. CASE EvidenceWritten(r)
  BY <1>1, <1>2, <1>3, <1>7, RootFileGrows DEF EvidenceWritten
<1>8. CASE ConcludeSummary(r)
  BY <1>1, <1>2, <1>8, RootFileGrows DEF ConcludeSummary
<1>9. CASE PartialWritten(r)
  BY <1>1, <1>2, <1>3, <1>9, RootFileGrows DEF PartialWritten
<1>10. CASE Launch(r)
  <2>1. OnlyGrows(log[m], [by |-> r, whole |-> FALSE])
    BY <1>1, <1>10, WriterGrows DEF Launch
  <2> QED BY <2>1, <1>1, <1>2, <1>10, ModelFileGrows DEF Launch
<1>11. CASE DriveExits(r) \/ DriveStopped(r)
  <2>1. PICK b \in BOOLEAN : log' = [log EXCEPT ![m] = [by |-> r, whole |-> b]]
    BY <1>11 DEF DriveExits, DriveStopped
  <2>2. OnlyGrows(log[m], [by |-> r, whole |-> b])
    BY <1>3, <1>11, WriterGrows DEF DriveExits, DriveStopped
  <2>3. UNCHANGED <<device, evidence, partial, shots, impeller, manifest, failed>>
    BY <1>11 DEF DriveExits, DriveStopped
  <2> QED BY <2>1, <2>2, <2>3, <1>1, ModelFileGrows
<1>12. CASE DriveShoots(r)
  <2>1. PICK b \in BOOLEAN : shots' = [shots EXCEPT ![m] = [by |-> r, whole |-> b]]
    BY <1>12 DEF DriveShoots
  <2>2. shots[m] # Absent => shots[m].by = r /\ ~shots[m].whole
    <3>1. drive[r] = "alive" /\ shots[m] # Closed(r)
      BY <1>12 DEF DriveShoots
    <3>2. shots[m] # Absent => shots[m].by = r
      BY <3>1, <1>1 DEF Inv, RootInv, InHand, OneCapturePerModel
    <3>3. shots[m] \in File
      BY <1>1 DEF TypeOK
    <3> QED BY <3>1, <3>2, <3>3, WholeIsClosed
  <2>3. OnlyGrows(shots[m], [by |-> r, whole |-> b])
    BY <2>2, FileOf DEF OnlyGrows
  <2>4. UNCHANGED <<device, evidence, partial, log, impeller, manifest, failed>>
    BY <1>12 DEF DriveShoots
  <2> QED BY <2>1, <2>3, <2>4, <1>1, ModelFileGrows
<1>13. CASE CollectImpellerEvidence(r)
  <2>1. OnlyGrows(impeller[m], [by |-> r, whole |-> FALSE])
    BY <1>1, <1>13, WriterGrows DEF CollectImpellerEvidence
  <2> QED BY <2>1, <1>1, <1>2, <1>13, ModelFileGrows DEF CollectImpellerEvidence
<1>14. CASE BackendWritten(r)
  <2>1. OnlyGrows(impeller[m], [by |-> r, whole |-> TRUE])
    BY <1>1, <1>3, <1>14, WriterGrows DEF BackendWritten
  <2> QED BY <2>1, <1>1, <1>2, <1>14, ModelFileGrows DEF BackendWritten
<1>15. CASE Certify(r)
  <2>1. OnlyGrows(manifest[m], [by |-> r, whole |-> FALSE])
    BY <1>1, <1>15, WriterGrows DEF Certify
  <2> QED BY <2>1, <1>1, <1>2, <1>15, ModelFileGrows DEF Certify
<1>16. CASE ManifestWritten(r)
  <2>1. OnlyGrows(manifest[m], [by |-> r, whole |-> TRUE])
    BY <1>1, <1>3, <1>16, WriterGrows DEF ManifestWritten
  <2> QED BY <2>1, <1>1, <1>2, <1>16, ModelFileGrows DEF ManifestWritten
<1>17. CASE RecordFailure(r)
  <2>1. CASE failed[m] = Absent /\ failed' = [failed EXCEPT ![m] = Opened(r)]
    <3>1. OnlyGrows(failed[m], [by |-> r, whole |-> FALSE])
      BY <1>1, <2>1, WriterGrows
    <3> QED BY <2>1, <3>1, <1>1, <1>2, <1>17, ModelFileGrows DEF RecordFailure
  <2>2. CASE UNCHANGED failed
    BY <2>2, <1>17, RootStays DEF RecordFailure, root
  <2> QED BY <2>1, <2>2, <1>17 DEF RecordFailure
<1>18. CASE FailureWritten(r)
  <2>1. OnlyGrows(failed[m], [by |-> r, whole |-> TRUE])
    BY <1>1, <1>3, <1>18, WriterGrows DEF FailureWritten
  <2> QED BY <2>1, <1>1, <1>2, <1>18, ModelFileGrows DEF FailureWritten
<1> QED BY <1>4, <1>5, <1>6, <1>7, <1>8, <1>9, <1>10, <1>11, <1>12, <1>13, <1>14,
  <1>15, <1>16, <1>17, <1>18 DEF Touches

\* Nothing of the root is overwritten by any step.
LEMMA Grows ==
  ASSUME Inv, [Next]_vars
  PROVE  Grow
<1>1. CASE UNCHANGED vars
  BY <1>1, RootStays DEF vars
<1>2. CASE EditSource
  BY <1>2, RootStays DEF EditSource
<1>3. ASSUME NEW r \in Runner, Quiet(r) \/ Touches(r)
      PROVE  Grow
  BY <1>3, RootStays, TouchGrows DEF Quiet
<1> QED BY <1>1, <1>2, <1>3, StepKinds

-----------------------------------------------------------------------------
(* What was seen stays.                                                    *)

\* Where a step that touches a file leads.
Busy == Writing \cup {"launch", "drive", "collect", "certify", "failing", "done"}

\* It changes neither arguments nor guards.
LEMMA TouchControl ==
  ASSUME NEW r \in Runner, Touches(r)
  PROVE  /\ UNCHANGED <<given, guard>>
         /\ step' = step \/ \E s \in Busy : step' = [step EXCEPT ![r] = s]
<1>1. UNCHANGED <<given, guard>>
  BY DEF Touches, Settle, DeviceWritten, Launch, DriveShoots, DriveExits,
    DriveStopped, CollectImpellerEvidence, BackendWritten, Certify,
    ManifestWritten, RecordFailure, FailureWritten, ConcludeFinal,
    EvidenceWritten, ConcludeSummary, PartialWritten
<1>2. \/ UNCHANGED step
      \/ \E s \in Busy : Goes(r, s)
      \/ \E v \in Verdict : Ends(r, v)
  BY DEF Touches, Settle, DeviceWritten, Launch, DriveShoots, DriveExits,
    DriveStopped, CollectImpellerEvidence, BackendWritten, Certify,
    ManifestWritten, RecordFailure, FailureWritten, ConcludeFinal,
    EvidenceWritten, ConcludeSummary, PartialWritten, Busy, Writing, Verdict
<1> QED BY <1>1, <1>2 DEF Goes, Ends, Busy

\* An invocation that has started keeps its guard.
LEMMA GuardStays ==
  ASSUME Inv, [Next]_vars
  PROVE  /\ UNCHANGED given
         /\ \A q \in Runner : step[q] # "idle" =>
              guard'[q] = guard[q] /\ step'[q] # "idle"
<1>1. step \in [Runner -> Step] /\ guard \in [Runner -> Source]
  BY DEF Inv, RootInv, TypeOK
<1>2. "idle" \notin Resting \cup Busy
  BY DEF Resting, Busy, Writing
<1>3. CASE UNCHANGED vars \/ EditSource
  BY <1>3 DEF vars, EditSource
<1>4. ASSUME NEW r \in Runner, Quiet(r)
      PROVE  /\ UNCHANGED given
             /\ \A q \in Runner : step[q] # "idle" =>
                  guard'[q] = guard[q] /\ step'[q] # "idle"
  BY <1>1, <1>2, <1>4 DEF Quiet, QuietMove
<1>5. ASSUME NEW r \in Runner, Touches(r)
      PROVE  /\ UNCHANGED given
             /\ \A q \in Runner : step[q] # "idle" =>
                  guard'[q] = guard[q] /\ step'[q] # "idle"
  BY <1>1, <1>2, <1>5, TouchControl
<1> QED BY <1>3, <1>4, <1>5, StepKinds

\* A whole file stays as it is.
LEMMA WholeStays ==
  ASSUME NEW f \in File, NEW g, OnlyGrows(f, g), Whole(f)
  PROVE  g = f
BY FileFields DEF OnlyGrows, Whole

\* The root keeps its Simulator.
LEMMA DeviceStays ==
  ASSUME Inv, [Next]_vars, NEW d, DeviceIs(d)
  PROVE  device' = device /\ DeviceIs(d)'
<1>1. device' = device
  BY Grows, WholeStays DEF Inv, RootInv, TypeOK, Grow, DeviceIs
<1> QED BY <1>1, GuardStays DEF DeviceIs, Phone, Whole, given

\* A successful model keeps its files and its manifest.
LEMMA ModelStays ==
  ASSUME Inv, [Next]_vars, NEW m \in Model, NEW d, ValidateSuccessManifest(m, d)
  PROVE  /\ manifest'[m] = manifest[m]
         /\ ValidateSuccessManifest(m, d)'
         /\ GuardOf(m)' = GuardOf(m)
<1>1. /\ Whole(manifest[m]) /\ Whole(log[m]) /\ Whole(shots[m]) /\ Whole(impeller[m])
  BY DEF ValidateSuccessManifest, ArtifactsOf, ValidateModelArtifacts,
    ValidateNativeArtifacts, LogTellsSuccess, ResponseConforms, BackendProof
<1>2. /\ log \in [Model -> File] /\ shots \in [Model -> File] /\ impeller \in [Model -> File]
      /\ manifest \in [Model -> File]
  BY DEF Inv, RootInv, TypeOK
<1>3. /\ log'[m] = log[m] /\ shots'[m] = shots[m] /\ impeller'[m] = impeller[m]
      /\ manifest'[m] = manifest[m]
  BY <1>1, <1>2, Grows, WholeStays DEF Grow
<1>4. manifest[m].by \in Runner /\ step[manifest[m].by] # "idle"
  BY <1>1, <1>2, FileFields DEF Inv, RootInv, OneCapturePerModel, Whole
<1>5. family' = family /\ work' = work
  BY GuardStays DEF given
<1>6. DeviceIs(Phone(impeller[m].by))'
  <2>1. manifest[m] # Absent /\ impeller[m].by = manifest[m].by
    BY <1>1 DEF ValidateSuccessManifest, WindowIs, Whole
  <2>2. PICK p \in Device : p = Phone(impeller[m].by)
    BY <1>4, <2>1 DEF Inv, RootInv, TypeOK, Phone
  <2>3. DeviceIs(p)
    BY <2>1, <2>2 DEF Inv, RootInv, ManifestBindsOneCapture
  <2>4. DeviceIs(p)'
    BY <2>3, DeviceStays
  <2>5. Phone(impeller[m].by)' = p
    BY <1>3, <1>5, <2>2 DEF Phone
  <2> QED BY <2>4, <2>5 DEF DeviceIs
<1>7. BackendProof(m)'
  BY <1>1, <1>3, <1>6 DEF BackendProof
<1>8. ArtifactsOf(m, manifest[m].by)'
  BY <1>3, <1>5, <1>7 DEF ValidateSuccessManifest, ArtifactsOf, ValidateModelArtifacts,
    ValidateNativeArtifacts, LogTellsSuccess, ResponseAgrees, ResponseConforms, WindowIs
<1>9. ValidateSuccessManifest(m, d)'
  BY <1>3, <1>5, <1>8 DEF ValidateSuccessManifest, WindowIs, Phone
<1>10. GuardOf(m)' = GuardOf(m)
  BY <1>3, <1>4, GuardStays DEF GuardOf
<1> QED BY <1>3, <1>9, <1>10

\* So does a set of models that succeeded with one guard.
LEMMA SuccessStays ==
  ASSUME Inv, [Next]_vars, NEW ms \in SUBSET Model, NEW g, SucceededWith(ms, g)
  PROVE  SucceededWith(ms, g)' /\ device' = device
<1>1. device' = device
  BY Grows, WholeStays DEF Inv, RootInv, TypeOK, Grow, SucceededWith
<1>2. device.by \in Runner
  BY FileFields DEF Inv, RootInv, TypeOK, SucceededWith, Whole
<1>3. PICK d \in Device : d = Phone(device.by)
  BY <1>2 DEF Inv, RootInv, TypeOK, Phone
<1>4. Phone(device.by)' = d
  BY <1>1, <1>3, GuardStays DEF Phone, given
<1>5. \A m \in ms : ValidateSuccessManifest(m, d) /\ GuardOf(m) = g
  BY <1>3 DEF SucceededWith
<1>6. \A m \in ms : ValidateSuccessManifest(m, d)' /\ GuardOf(m)' = g
  BY <1>5, ModelStays
<1>7. Whole(device)'
  BY <1>1 DEF SucceededWith, Whole
<1> QED BY <1>1, <1>4, <1>6, <1>7 DEF SucceededWith

\* And what a summary needs.
LEMMA CompletedStays ==
  ASSUME Inv, [Next]_vars, NEW g, CompletedBefore(g)
  PROVE  CompletedBefore(g)'
<1>1. Completed \in SUBSET Model
  BY DEF Completed
<1> QED BY <1>1, SuccessStays DEF CompletedBefore

\* The root's Simulator stays that of r.
LEMMA PhoneStays ==
  ASSUME Inv, [Next]_vars, NEW r \in Runner, DeviceIs(Phone(r))
  PROVE  DeviceIs(Phone(r))'
<1>1. PICK d \in Device : d = Phone(r)
  BY DEF Inv, RootInv, TypeOK, Phone
<1>2. DeviceIs(d) /\ Phone(r)' = d
  BY <1>1, GuardStays DEF Phone, given
<1>3. DeviceIs(d)'
  BY <1>2, DeviceStays
<1> QED BY <1>2, <1>3 DEF DeviceIs

\* What r has seen stays.
LEMMA SeenStays ==
  ASSUME Inv, [Next]_vars, NEW r \in Runner, step[r] # "idle", Seen(r)
  PROVE  Seen(r)'
<1>1. PICK g \in Source : g = guard[r]
  BY DEF Inv, RootInv, TypeOK
<1>2. guard'[r] = g /\ work' = work
  BY <1>1, GuardStays DEF given
<1>3. CASE work[r].op = "finalize" /\ SucceededWith(Model, guard[r])
  <2>1. SucceededWith(Model, g)'
    BY <1>1, <1>3, SuccessStays
  <2> QED BY <1>2, <1>3, <2>1 DEF Seen
<1>4. CASE work[r].op = "summarize" /\ CompletedBefore(guard[r])
  <2>1. CompletedBefore(g)'
    BY <1>1, <1>4, CompletedStays
  <2> QED BY <1>2, <1>4, <2>1 DEF Seen
<1> QED BY <1>3, <1>4 DEF Seen

\* What was seen before concluding is true after any step.
LEMMA SeenStep ==
  ASSUME Inv, [Next]_vars
  PROVE  SeenStaysTrue'
<1> SUFFICES ASSUME NEW q \in Runner, step'[q] = "conclude" PROVE Seen(q)'
  BY DEF SeenStaysTrue, Seen
<1>1. step \in [Runner -> Step] /\ "conclude" \notin Busy
  BY DEF Inv, RootInv, TypeOK, Busy, Writing
<1>2. step[q] = "conclude" => Seen(q)
  BY DEF Inv, RootInv, SeenStaysTrue, Seen
<1>3. CASE UNCHANGED vars \/ EditSource
  BY <1>2, <1>3, SeenStays DEF vars, EditSource
<1>4. ASSUME NEW r \in Runner, Quiet(r)
      PROVE  Seen(q)'
  <2>1. step[q] = "conclude" \/ (step[q] = "gather" /\ Seen(q))
    BY <1>1, <1>4 DEF Quiet, QuietMove
  <2> QED BY <1>2, <2>1, SeenStays
<1>5. ASSUME NEW r \in Runner, Touches(r)
      PROVE  Seen(q)'
  <2>1. step[q] = "conclude"
    BY <1>1, <1>5, TouchControl
  <2> QED BY <1>2, <2>1, SeenStays
<1> QED BY <1>3, <1>4, <1>5, StepKinds

\* evidence.json and the partial summary are created by who has seen.
LEMMA Created ==
  ASSUME [Next]_vars, TypeOK
  PROVE  /\ evidence = Absent /\ evidence' # Absent =>
              \E r \in Runner : ConcludeFinal(r) \/ (EvidenceWritten(r))
         /\ partial = Absent /\ partial' # Absent =>
              \E r \in Runner : ConcludeSummary(r) \/ PartialWritten(r)
<1>1. CASE UNCHANGED vars \/ EditSource
  BY <1>1 DEF vars, EditSource, root
<1>2. ASSUME NEW r \in Runner, Quiet(r)
      PROVE  evidence' = evidence /\ partial' = partial
  BY <1>2 DEF Quiet, root
<1>3. ASSUME NEW r \in Runner, Touches(r)
      PROVE  /\ ConcludeFinal(r) \/ EvidenceWritten(r) \/ evidence' = evidence
             /\ ConcludeSummary(r) \/ PartialWritten(r) \/ partial' = partial
  BY <1>3 DEF Touches, Settle, DeviceWritten, Launch, DriveShoots, DriveExits,
    DriveStopped, CollectImpellerEvidence, BackendWritten, Certify,
    ManifestWritten, RecordFailure, FailureWritten, ConcludeFinal,
    EvidenceWritten, ConcludeSummary, PartialWritten
<1> QED BY <1>1, <1>2, <1>3, StepKinds

\* What is written about the whole root stays true of it.
LEMMA CoherentStep ==
  ASSUME Inv, [Next]_vars
  PROVE  FilesAreCoherent'
<1>1. TypeOK /\ TypeOK'
  BY TypeStep DEF Inv, RootInv
<1>2. ASSUME evidence' # Absent
      PROVE  (step[evidence.by] # "idle" /\ SucceededWith(Model, guard[evidence.by]))'
  <2>1. \E r \in Runner : /\ evidence'.by = r /\ step[r] # "idle"
                          /\ SucceededWith(Model, guard[r])
    <3>1. CASE evidence # Absent
      <4>1. evidence.by \in Runner /\ evidence'.by = evidence.by
        BY <1>1, <1>2, <3>1, FileFields, Grows DEF TypeOK, Grow, OnlyGrows
      <4> QED BY <3>1, <4>1 DEF Inv, EvidenceIsCoherent, FilesAreCoherent
    <3>2. CASE evidence = Absent
      <4>1. PICK r \in Runner : ConcludeFinal(r) \/ EvidenceWritten(r)
        BY <1>1, <1>2, <3>2, Created
      <4>2. ~EvidenceWritten(r)
        BY <3>2, OpenedClosed DEF EvidenceWritten, Inv, RootInv, InHand
      <4>3. step[r] = "conclude" /\ work[r].op = "finalize" /\ evidence' = Opened(r)
        BY <4>1, <4>2 DEF ConcludeFinal
      <4>4. SucceededWith(Model, guard[r])
        BY <4>3 DEF Inv, RootInv, SeenStaysTrue
      <4> QED BY <4>3, <4>4, OpenedClosed
    <3> QED BY <3>1, <3>2
  <2>2. PICK r \in Runner : /\ evidence'.by = r /\ step[r] # "idle"
                            /\ SucceededWith(Model, guard[r])
    BY <2>1
  <2>3. PICK g \in Source : g = guard[r]
    BY <1>1 DEF TypeOK
  <2>4. SucceededWith(Model, g)' /\ guard'[r] = g /\ step'[r] # "idle"
    BY <2>2, <2>3, SuccessStays, GuardStays
  <2> QED BY <2>2, <2>4
<1>3. ASSUME partial' # Absent
      PROVE  (step[partial.by] # "idle" /\ CompletedBefore(guard[partial.by]))'
  <2>1. \E r \in Runner : /\ partial'.by = r /\ step[r] # "idle"
                          /\ CompletedBefore(guard[r])
    <3>1. CASE partial # Absent
      <4>1. partial.by \in Runner /\ partial'.by = partial.by
        BY <1>1, <1>3, <3>1, FileFields, Grows DEF TypeOK, Grow, OnlyGrows
      <4> QED BY <3>1, <4>1 DEF Inv, EvidenceIsCoherent, FilesAreCoherent
    <3>2. CASE partial = Absent
      <4>1. PICK r \in Runner : ConcludeSummary(r) \/ PartialWritten(r)
        BY <1>1, <1>3, <3>2, Created
      <4>2. ~PartialWritten(r)
        BY <3>2, OpenedClosed DEF PartialWritten, Inv, RootInv, InHand
      <4>3. step[r] = "conclude" /\ work[r].op = "summarize" /\ partial' = Opened(r)
        BY <4>1, <4>2 DEF ConcludeSummary
      <4>4. CompletedBefore(guard[r])
        BY <4>3 DEF Inv, RootInv, SeenStaysTrue
      <4> QED BY <4>3, <4>4, OpenedClosed
    <3> QED BY <3>1, <3>2
  <2>2. PICK r \in Runner : /\ partial'.by = r /\ step[r] # "idle"
                            /\ CompletedBefore(guard[r])
    BY <2>1
  <2>3. PICK g \in Source : g = guard[r]
    BY <1>1 DEF TypeOK
  <2>4. CompletedBefore(g)' /\ guard'[r] = g /\ step'[r] # "idle"
    BY <2>2, <2>3, CompletedStays, GuardStays
  <2> QED BY <2>2, <2>4
<1> QED BY <1>2, <1>3 DEF FilesAreCoherent

-----------------------------------------------------------------------------
(* Audits.                                                                 *)

\* A step after which nothing is said that was not said before.
SaysNoMore ==
  \A q \in Runner : /\ SaysFinal(q)' => SaysFinal(q)
                    /\ SaysPartial(q)' => SaysPartial(q)

\* r goes on, or ends without an audit's verdict, or with what it says.
Mute(r) ==
  \/ UNCHANGED <<step, verdict>>
  \/ \E s \in Step \ {"verify", "health", "gather", "blocker"} : Goes(r, s)
  \/ \E v \in {"ok", "failed"} : Ends(r, v)
  \/ step[r] = "verify" /\ Goes(r, "health")
  \/ step[r] = "health" /\ Ends(r, "final")
  \/ step[r] = "gather" /\ work[r].op = "audit" /\ Goes(r, "blocker")
  \/ step[r] = "gather" /\ work[r].op = "recheck" /\ Ends(r, "partial")
  \/ step[r] = "blocker" /\ Ends(r, "partial")
  \/ work[r].op \notin {"audit", "recheck"} /\ Goes(r, "gather")

\* Such steps say no more than before.
LEMMA MuteSaysNoMore ==
  ASSUME TypeOK, NEW r \in Runner, Mute(r), UNCHANGED given
  PROVE  SaysNoMore
<1> SUFFICES ASSUME NEW q \in Runner
             PROVE  /\ SaysFinal(q)' => SaysFinal(q)
                    /\ SaysPartial(q)' => SaysPartial(q)
  BY DEF SaysNoMore
<1>1. /\ step \in [Runner -> Step] /\ verdict \in [Runner -> Verdict]
      /\ work' = work
  BY DEF TypeOK, given
<1>2. CASE q # r
  <2>1. step'[q] = step[q] /\ verdict'[q] = verdict[q]
    BY <1>1, <1>2 DEF Mute, Goes, Ends
  <2> QED BY <1>1, <2>1 DEF SaysFinal, SaysPartial
<1>3. CASE q = r
  <2>1. CASE UNCHANGED <<step, verdict>>
    BY <1>1, <2>1 DEF SaysFinal, SaysPartial
  <2>2. ASSUME NEW s \in Step, Goes(r, s)
        PROVE  step'[r] = s /\ verdict'[r] = verdict[r]
    BY <1>1, <2>2 DEF Goes
  <2>3. ASSUME NEW v \in Verdict, Ends(r, v)
        PROVE  step'[r] = "done" /\ verdict'[r] = v
    BY <1>1, <2>3 DEF Ends
  <2>4. {"verify", "health", "gather", "blocker"} \subseteq Step
    BY DEF Step, Checking
  <2>5. {"ok", "failed", "final", "partial"} \subseteq Verdict
    BY DEF Verdict
  <2> QED BY <1>1, <1>3, <2>1, <2>2, <2>3, <2>4, <2>5 DEF Mute, SaysFinal, SaysPartial
<1> QED BY <1>2, <1>3

\* All steps but the start of an audit.
LEMMA OthersAreMute ==
  ASSUME TypeOK, Next
  PROVE  \/ EditSource
         \/ \E r \in Runner : StartAudit(r) \/ (Mute(r) /\ UNCHANGED given)
<1>1. ASSUME NEW r \in Runner, Start(r)
      PROVE  StartAudit(r) \/ (Mute(r) /\ UNCHANGED given)
  <2>1. {"inspect"} \subseteq Step \ {"verify", "health", "gather", "blocker"}
    BY DEF Step, Checking
  <2> QED BY <1>1, <2>1 DEF Start, StartModel, StartFinalize, StartSummary,
        RefuseStart, Mute
<1>2. ASSUME NEW r \in Runner, CaptureStep(r)
      PROVE  Mute(r) /\ UNCHANGED given
  <2>1. {"settle", "launch", "device", "drive", "failing", "backend", "certify",
         "manifest", "failure"} \subseteq Step \ {"verify", "health", "gather", "blocker"}
    BY DEF Step, Checking, Writing
  <2>2. UNCHANGED given
    BY <1>2 DEF CaptureStep, Plan, Inspect, Settle, DeviceWritten, Launch,
      DriveStopped, CollectImpellerEvidence, BackendWritten, Certify,
      ManifestWritten, CaptureFails, RecordFailure, FailureWritten
  <2> QED BY <1>2, <2>1, <2>2 DEF CaptureStep, Plan, Inspect, Settle, DeviceWritten,
      Launch, DriveStopped, CollectImpellerEvidence, BackendWritten, Certify,
      ManifestWritten, CaptureFails, RecordFailure, FailureWritten, Mute
<1>3. ASSUME NEW r \in Runner, RootStep(r)
      PROVE  Mute(r) /\ UNCHANGED given
  <2>1. {"conclude", "evidence", "partial"}
           \subseteq Step \ {"verify", "health", "gather", "blocker"}
    BY DEF Step, Checking, Writing
  <2>2. UNCHANGED given
    BY <1>3 DEF RootStep, GatherFinal, GatherNativeFinal, ConcludeFinal,
      EvidenceWritten, GatherSummary, ConcludeSummary, PartialWritten,
      ValidateFinalEvidence, HealthValidated, ValidatePartialSummary,
      BlockerAudited, Refuse, WriteFails
  <2>3. CASE ValidatePartialSummary(r)
    BY <2>2, <2>3 DEF ValidatePartialSummary, Mute
  <2>4. CASE BlockerAudited(r)
    BY <2>2, <2>4 DEF BlockerAudited, Mute
  <2> QED BY <1>3, <2>1, <2>2, <2>3, <2>4 DEF RootStep, GatherFinal,
      GatherNativeFinal, ConcludeFinal, EvidenceWritten, GatherSummary,
      ConcludeSummary, PartialWritten, ValidateFinalEvidence, HealthValidated,
      Refuse, WriteFails, Mute
<1>4. ASSUME NEW r \in Runner, Outside(r)
      PROVE  Mute(r) /\ UNCHANGED given
  <2>1. {"collect", "failing"} \subseteq Step \ {"verify", "health", "gather", "blocker"}
    BY DEF Step, Checking
  <2> QED BY <1>4, <2>1 DEF Outside, DriveShoots, DriveExits, OrphanEnds, Cut, Mute
<1> QED BY <1>1, <1>2, <1>3, <1>4 DEF Next

\* A step that says no more keeps the audits in agreement.
LEMMA NoMoreAgrees ==
  ASSUME Inv, [Next]_vars, SaysNoMore
  PROVE  AuditsAgree'
<1>1. Whole(evidence) => Whole(evidence)'
  BY Grows, WholeStays DEF Inv, RootInv, TypeOK, Grow, Whole
<1>2. Whole(partial) => Whole(partial)'
  BY Grows, WholeStays DEF Inv, RootInv, TypeOK, Grow, Whole
<1>3. AuditsAgree
  BY DEF Inv, EvidenceIsCoherent
<1>4. \A q \in Runner : /\ SaysFinal(q)' => SaysFinal(q)
                        /\ SaysPartial(q)' => SaysPartial(q)
  BY DEF SaysNoMore
<1>5. \A q \in Runner : SaysFinal(q)' => Whole(evidence)'
  BY <1>1, <1>3, <1>4 DEF AuditsAgree
<1>6. \A q \in Runner : SaysPartial(q)' => Whole(partial)'
  BY <1>2, <1>3, <1>4 DEF AuditsAgree
<1>7. \A q, p \in Runner : ~(SaysFinal(q)' /\ SaysPartial(p)')
  BY <1>3, <1>4 DEF AuditsAgree
<1> QED BY <1>5, <1>6, <1>7 DEF AuditsAgree

\* An audit starts where either evidence.json or the partial summary is.
LEMMA StartAgrees ==
  ASSUME Inv, NEW r \in Runner, StartAudit(r)
  PROVE  AuditsAgree'
<1>1. /\ step \in [Runner -> Step] /\ AuditsAgree
      /\ UNCHANGED <<verdict, work, evidence, partial>>
  BY DEF Inv, RootInv, TypeOK, EvidenceIsCoherent, StartAudit, Goes, given, root
<1>2. \A q \in Runner \ {r} : step'[q] = step[q]
  BY <1>1 DEF StartAudit, Goes
<1>3. CASE Whole(evidence) /\ partial = Absent /\ Goes(r, "verify")
  <2>1. \A q \in Runner : ~SaysPartial(q)
    BY <1>1, <1>3 DEF AuditsAgree, Whole
  <2>2. step'[r] = "verify"
    BY <1>1, <1>3 DEF Goes
  <2>3. \A q \in Runner : ~SaysPartial(q)'
    BY <1>1, <1>2, <2>1, <2>2 DEF SaysPartial
  <2> QED BY <1>1, <1>3, <2>3 DEF AuditsAgree, Whole
<1>4. CASE evidence = Absent /\ Whole(partial) /\ Goes(r, "gather")
  <2>1. \A q \in Runner : ~SaysFinal(q)
    BY <1>1, <1>4 DEF AuditsAgree, Whole
  <2>2. step'[r] = "gather"
    BY <1>1, <1>4 DEF Goes
  <2>3. \A q \in Runner : ~SaysFinal(q)'
    BY <1>1, <1>2, <2>1, <2>2 DEF SaysFinal
  <2> QED BY <1>1, <1>4, <2>3 DEF AuditsAgree, Whole
<1> QED BY <1>3, <1>4 DEF StartAudit

\* No step makes two audits disagree.
LEMMA AgreeStep ==
  ASSUME Inv, [Next]_vars
  PROVE  AuditsAgree'
<1>1. CASE UNCHANGED vars \/ EditSource
  <2>1. SaysNoMore
    BY <1>1 DEF SaysNoMore, SaysFinal, SaysPartial, vars, EditSource, given
  <2> QED BY <2>1, NoMoreAgrees
<1>2. ASSUME NEW r \in Runner, Mute(r), UNCHANGED given
      PROVE  AuditsAgree'
  BY <1>2, MuteSaysNoMore, NoMoreAgrees DEF Inv, RootInv
<1>3. TypeOK
  BY DEF Inv, RootInv
<1> QED BY <1>1, <1>2, <1>3, OthersAreMute, StartAgrees

-----------------------------------------------------------------------------
(* What an invocation has in hand.                                         *)

\* A file changes only into one that r wrote.
Mine(r, old, new) == new = old \/ (new # Absent /\ new.by = r)

\* Of the files of a kind that r writes one of.
LEMMA OneMine ==
  ASSUME NEW r \in Runner, NEW f \in [Model -> File], NEW g, NEW m \in Model,
         g = f \/ \E b \in BOOLEAN : g = [f EXCEPT ![m] = [by |-> r, whole |-> b]]
  PROVE  \A n \in Model : Mine(r, f[n], g[n]) /\ (n # m => g[n] = f[n])
<1> SUFFICES ASSUME NEW n \in Model
             PROVE  Mine(r, f[n], g[n]) /\ (n # m => g[n] = f[n])
  OBVIOUS
<1>1. CASE g = f
  BY <1>1 DEF Mine
<1>2. ASSUME NEW b \in BOOLEAN, g = [f EXCEPT ![m] = [by |-> r, whole |-> b]]
      PROVE  Mine(r, f[n], g[n]) /\ (n # m => g[n] = f[n])
  BY <1>2, FileOf DEF Mine
<1> QED BY <1>1, <1>2

\* r leaves the others alone, and the files it changes are its own.
LEMMA TouchFrame ==
  ASSUME TypeOK, NEW r \in Runner, Touches(r)
  PROVE  /\ \A q \in Runner \ {r} : step'[q] = step[q] /\ drive'[q] = drive[q]
         /\ Mine(r, device, device') /\ Mine(r, evidence, evidence')
         /\ Mine(r, partial, partial')
         /\ \A m \in Model :
              /\ Mine(r, log[m], log'[m]) /\ Mine(r, shots[m], shots'[m])
              /\ Mine(r, impeller[m], impeller'[m])
              /\ Mine(r, manifest[m], manifest'[m])
              /\ Mine(r, failed[m], failed'[m])
              /\ m # work[r].model =>
                   /\ log'[m] = log[m] /\ shots'[m] = shots[m]
                   /\ impeller'[m] = impeller[m] /\ manifest'[m] = manifest[m]
<1> DEFINE m == work[r].model
           Writes(f, g) ==
             g = f \/ \E b \in BOOLEAN : g = [f EXCEPT ![m] = [by |-> r, whole |-> b]]
<1>1. drive' = drive \/ \E x \in {"alive", "gone"} : drive' = [drive EXCEPT ![r] = x]
  BY DEF Touches, Settle, DeviceWritten, Launch, DriveShoots, DriveExits,
    DriveStopped, AfterTerminateThenKill, CollectImpellerEvidence, BackendWritten, Certify,
    ManifestWritten, RecordFailure, FailureWritten, ConcludeFinal,
    EvidenceWritten, ConcludeSummary, PartialWritten
<1>2. \A q \in Runner \ {r} : step'[q] = step[q] /\ drive'[q] = drive[q]
  BY <1>1, TouchControl DEF TypeOK
<1>3. /\ m \in Model /\ TRUE \in BOOLEAN /\ FALSE \in BOOLEAN
      /\ log \in [Model -> File] /\ shots \in [Model -> File] /\ impeller \in [Model -> File]
      /\ manifest \in [Model -> File] /\ failed \in [Model -> File]
  BY DEF TypeOK
<1>4. Writes(log, log')
  BY <1>3 DEF Touches, Settle, DeviceWritten, Launch, DriveShoots, DriveExits,
    DriveStopped, CollectImpellerEvidence, BackendWritten, Certify,
    ManifestWritten, RecordFailure, FailureWritten, ConcludeFinal,
    EvidenceWritten, ConcludeSummary, PartialWritten, Opened, Closed
<1>5. Writes(shots, shots')
  BY <1>3 DEF Touches, Settle, DeviceWritten, Launch, DriveShoots, DriveExits,
    DriveStopped, CollectImpellerEvidence, BackendWritten, Certify,
    ManifestWritten, RecordFailure, FailureWritten, ConcludeFinal,
    EvidenceWritten, ConcludeSummary, PartialWritten, Opened, Closed
<1>6. Writes(impeller, impeller')
  BY <1>3 DEF Touches, Settle, DeviceWritten, Launch, DriveShoots, DriveExits,
    DriveStopped, CollectImpellerEvidence, BackendWritten, Certify,
    ManifestWritten, RecordFailure, FailureWritten, ConcludeFinal,
    EvidenceWritten, ConcludeSummary, PartialWritten, Opened, Closed
<1>7. Writes(manifest, manifest')
  BY <1>3 DEF Touches, Settle, DeviceWritten, Launch, DriveShoots, DriveExits,
    DriveStopped, CollectImpellerEvidence, BackendWritten, Certify,
    ManifestWritten, RecordFailure, FailureWritten, ConcludeFinal,
    EvidenceWritten, ConcludeSummary, PartialWritten, Opened, Closed
<1>8. Writes(failed, failed')
  BY <1>3 DEF Touches, Settle, DeviceWritten, Launch, DriveShoots, DriveExits,
    DriveStopped, CollectImpellerEvidence, BackendWritten, Certify,
    ManifestWritten, RecordFailure, FailureWritten, ConcludeFinal,
    EvidenceWritten, ConcludeSummary, PartialWritten, Opened, Closed
<1>9. /\ Mine(r, device, device') /\ Mine(r, evidence, evidence')
      /\ Mine(r, partial, partial')
  BY OpenedClosed DEF Touches, Settle, DeviceWritten, Launch, DriveShoots, DriveExits,
    DriveStopped, CollectImpellerEvidence, BackendWritten, Certify,
    ManifestWritten, RecordFailure, FailureWritten, ConcludeFinal,
    EvidenceWritten, ConcludeSummary, PartialWritten, Mine
<1> HIDE DEF m
<1>10. \A n \in Model : Mine(r, log[n], log'[n]) /\ (n # m => log'[n] = log[n])
  BY <1>3, <1>4, OneMine
<1>11. \A n \in Model : Mine(r, shots[n], shots'[n]) /\ (n # m => shots'[n] = shots[n])
  BY <1>3, <1>5, OneMine
<1>12. \A n \in Model :
         Mine(r, impeller[n], impeller'[n]) /\ (n # m => impeller'[n] = impeller[n])
  BY <1>3, <1>6, OneMine
<1>13. \A n \in Model :
         Mine(r, manifest[n], manifest'[n]) /\ (n # m => manifest'[n] = manifest[n])
  BY <1>3, <1>7, OneMine
<1>14. \A n \in Model : Mine(r, failed[n], failed'[n]) /\ (n # m => failed'[n] = failed[n])
  BY <1>3, <1>8, OneMine
<1> QED BY <1>2, <1>9, <1>10, <1>11, <1>12, <1>13, <1>14 DEF m

\* Of a file that grows and that only r changes, who created it stays, and one
\* that another created stays as it is.
LEMMA OwnerStays ==
  ASSUME NEW r \in Runner, NEW f, NEW g, OnlyGrows(f, g), Mine(r, f, g), f # Absent
  PROVE  g # Absent /\ g.by = f.by /\ (f.by # r => g = f)
BY DEF OnlyGrows, Mine

\* InHand, of one invocation.
Hand(r) ==
  LET m == work[r].model IN
  /\ step[r] \in Capturing \/ drive[r] # "none" => log[m] # Absent /\ log[m].by = r
  /\ step[r] = "drive" => log[m] = Opened(r)
  /\ step[r] \in Capturing \ {"drive"} => drive[r] = "gone"
  /\ step[r] = "device" => device = Opened(r)
  /\ step[r] = "launch" => DeviceIs(Phone(r))
  /\ step[r] = "backend" => impeller[m] = Opened(r)
  /\ step[r] = "certify" => impeller[m] = Closed(r)
  /\ step[r] = "manifest" => manifest[m] = Opened(r)
  /\ step[r] = "failure" => failed[m] = Opened(r)
  /\ step[r] = "evidence" => evidence = Opened(r)
  /\ step[r] = "partial" => partial = Opened(r)

\* Together they are InHand.
LEMMA HandIsInHand == (InHand <=> \A r \in Runner : Hand(r))
                      /\ (InHand' <=> \A r \in Runner : Hand(r)')
BY DEF InHand, Hand

\* What q has in hand is not touched by the steps of r.
LEMMA HandStays ==
  ASSUME Inv, [Next]_vars, NEW r \in Runner, Touches(r), NEW q \in Runner, q # r
  PROVE  Hand(q)'
<1> DEFINE m == work[q].model
<1>1. TypeOK /\ m \in Model /\ work' = work
  BY GuardStays DEF Inv, RootInv, TypeOK, given
<1>2. Hand(q)
  BY HandIsInHand DEF Inv, RootInv
<1>3. step'[q] = step[q] /\ drive'[q] = drive[q]
  BY <1>1, TouchFrame
<1>4. Grow
  BY Grows
<1>5. log[m] # Absent => /\ log'[m] # Absent /\ log'[m].by = log[m].by
                         /\ log[m].by # r => log'[m] = log[m]
  BY <1>1, <1>4, TouchFrame, OwnerStays DEF Grow
<1>6. /\ impeller[m] # Absent /\ impeller[m].by = q => impeller'[m] = impeller[m]
      /\ manifest[m] # Absent /\ manifest[m].by = q => manifest'[m] = manifest[m]
      /\ failed[m] # Absent /\ failed[m].by = q => failed'[m] = failed[m]
  BY <1>1, <1>4, TouchFrame, OwnerStays DEF Grow
<1>7. /\ device # Absent /\ device.by = q => device' = device
      /\ evidence # Absent /\ evidence.by = q => evidence' = evidence
      /\ partial # Absent /\ partial.by = q => partial' = partial
  BY <1>1, <1>4, TouchFrame, OwnerStays DEF Grow
<1>8. DeviceIs(Phone(q)) => DeviceIs(Phone(q))'
  BY PhoneStays
<1>9. /\ Opened(q) # Absent /\ Opened(q).by = q
      /\ Closed(q) # Absent /\ Closed(q).by = q
  BY OpenedClosed
<1>10. (Opened(q))' = Opened(q) /\ (Closed(q))' = Closed(q)
  BY DEF Opened, Closed
<1> HIDE DEF m
<1>11. step[q] \in Capturing \/ drive[q] # "none" =>
         log'[m] # Absent /\ log'[m].by = q
  BY <1>2, <1>5 DEF Hand, m
<1>12. step[q] = "drive" => log'[m] = Opened(q)
  BY <1>2, <1>5, <1>9 DEF Hand, m
<1>13. /\ step[q] = "backend" => impeller'[m] = Opened(q)
       /\ step[q] = "certify" => impeller'[m] = Closed(q)
       /\ step[q] = "manifest" => manifest'[m] = Opened(q)
       /\ step[q] = "failure" => failed'[m] = Opened(q)
  BY <1>2, <1>6, <1>9 DEF Hand, m
<1>14. /\ step[q] = "device" => device' = Opened(q)
       /\ step[q] = "evidence" => evidence' = Opened(q)
       /\ step[q] = "partial" => partial' = Opened(q)
  BY <1>2, <1>7, <1>9 DEF Hand
<1>15. step[q] \in Capturing \ {"drive"} => drive[q] = "gone"
  BY <1>2 DEF Hand
<1>16. step[q] = "launch" => DeviceIs(Phone(q))'
  BY <1>2, <1>8 DEF Hand
<1>17. work'[q].model = m
  BY <1>1 DEF m
<1> QED BY <1>3, <1>10, <1>11, <1>12, <1>13, <1>14, <1>15, <1>16, <1>17 DEF Hand

\* A step of r that touches no file takes nothing out of a hand.
LEMMA QuietHands ==
  ASSUME Inv, [Next]_vars, NEW r \in Runner, Quiet(r), NEW q \in Runner
  PROVE  Hand(q)'
<1>1. /\ step \in [Runner -> Step] /\ drive \in [Runner -> {"none", "alive", "gone"}]
      /\ work' = work /\ log' = log /\ impeller' = impeller /\ manifest' = manifest
      /\ failed' = failed /\ device' = device /\ evidence' = evidence
      /\ partial' = partial
  BY DEF Inv, RootInv, TypeOK, Quiet, given, root
<1>2. Hand(q)
  BY HandIsInHand DEF Inv, RootInv
<1>3. DeviceIs(Phone(q)) => DeviceIs(Phone(q))'
  BY PhoneStays
<1>4. step'[q] = step[q] \/ step'[q] \in Resting
  BY <1>1 DEF Quiet, QuietMove
<1>5. \/ drive'[q] = drive[q]
      \/ drive'[q] = "gone" /\ (drive[q] # "none" \/ step[q] = "drive")
  BY <1>1 DEF Quiet
<1>6. (Opened(q))' = Opened(q) /\ (Closed(q))' = Closed(q)
  BY DEF Opened, Closed
<1>7. Resting \cap (Capturing \cup Writing \cup {"launch"}) = {}
  BY DEF Resting, Capturing, Writing
<1>8. {"device", "backend", "manifest", "failure", "evidence", "partial"} \subseteq Writing
      /\ {"drive", "certify"} \subseteq Capturing
  BY DEF Writing, Capturing
<1>9. CASE step'[q] \in Resting
  <2>1. step'[q] \notin Capturing \cup Writing \cup {"launch"}
    BY <1>7, <1>9
  <2>2. drive'[q] # "none" => log'[work'[q].model] # Absent /\ log'[work'[q].model].by = q
    BY <1>1, <1>2, <1>5, <1>8 DEF Hand
  <2> QED BY <1>8, <2>1, <2>2 DEF Hand
<1>10. CASE step'[q] = step[q]
  BY <1>1, <1>2, <1>3, <1>5, <1>6, <1>8, <1>10 DEF Hand
<1> QED BY <1>4, <1>9, <1>10

\* What r takes in hand itself.
LEMMA OwnHand ==
  ASSUME Inv, [Next]_vars, NEW r \in Runner, Touches(r)
  PROVE  Hand(r)'
<1> DEFINE m == work[r].model
<1>1. /\ m \in Model /\ work' = work
      /\ step \in [Runner -> Step] /\ drive \in [Runner -> {"none", "alive", "gone"}]
      /\ log \in [Model -> File] /\ impeller \in [Model -> File]
      /\ manifest \in [Model -> File] /\ failed \in [Model -> File]
  BY GuardStays DEF Inv, RootInv, TypeOK, given
<1>2. Hand(r)
  BY HandIsInHand DEF Inv, RootInv
<1>3. DeviceIs(Phone(r)) => DeviceIs(Phone(r))'
  BY PhoneStays
<1>4. (Opened(r))' = Opened(r) /\ (Closed(r))' = Closed(r)
  BY DEF Opened, Closed
<1>5. Opened(r) # Absent /\ Opened(r).by = r /\ Closed(r) # Absent /\ Closed(r).by = r
  BY OpenedClosed
<1>6. \A s : Goes(r, s) => step'[r] = s
  BY <1>1 DEF Goes
<1>7. \A v : Ends(r, v) => step'[r] = "done"
  BY <1>1 DEF Ends
<1>8. work'[r].model = m
  BY <1>1
\* Most leave the drive, the log and the Simulator as they are.
<1>9. \/ log'[m] # Absent /\ log'[m].by = r
      \/ log'[m] = log[m]
  <2>1. Mine(r, log[m], log'[m])
    BY <1>1, TouchFrame DEF Inv, RootInv
  <2> QED BY <2>1 DEF Mine
<1> HIDE DEF m
<1>10. CASE Settle(r)
  <2>1. \/ step'[r] = "device" /\ device' = Opened(r)
        \/ step'[r] = "launch" /\ DeviceIs(Phone(r))
    <3>1. \/ Goes(r, "device") /\ device' = Opened(r)
          \/ Goes(r, "launch") /\ DeviceIs(Phone(r))
      BY <1>10 DEF Settle
    <3> QED BY <1>6, <3>1
  <2>2. drive' = drive /\ log' = log
    BY <1>10 DEF Settle
  <2> QED BY <1>2, <1>3, <1>4, <1>8, <2>1, <2>2 DEF Hand, Capturing, m
<1>11. CASE DeviceWritten(r)
  <2>1. step'[r] = "launch" /\ drive' = drive /\ log' = log /\ device' = Closed(r)
    BY <1>6, <1>11 DEF DeviceWritten
  <2>2. DeviceIs(Phone(r))'
    BY <1>1, <2>1, OpenedClosed DEF DeviceIs, Phone, Whole
  <2> QED BY <1>2, <1>8, <2>1, <2>2 DEF Hand, Capturing, m
<1>12. CASE Launch(r)
  <2>1. /\ log'[m] = Opened(r) /\ step'[r] \in {"drive", "failing"}
    BY <1>1, <1>6, <1>12 DEF Launch, m
  <2> QED BY <1>4, <1>5, <1>8, <2>1 DEF Hand, Capturing
<1>13. CASE DriveShoots(r)
  <2>1. /\ step' = step /\ drive' = drive /\ log' = log /\ impeller' = impeller
        /\ manifest' = manifest /\ failed' = failed /\ device' = device
        /\ evidence' = evidence /\ partial' = partial
    BY <1>13 DEF DriveShoots
  <2> QED BY <1>2, <1>3, <1>4, <1>8, <2>1 DEF Hand, m
<1>14. CASE DriveExits(r) \/ DriveStopped(r)
  <2>1. step'[r] \in {"collect", "failing"}
    BY <1>6, <1>14 DEF DriveExits, DriveStopped
  <2>2. step[r] = "drive"
    BY <1>14 DEF DriveExits, DriveStopped
  <2>3. log'[m] # Absent /\ log'[m].by = r
    BY <1>2, <1>5, <1>9, <2>2 DEF Hand, m
  <2>4. CASE step'[r] = "failing"
    BY <1>8, <2>3, <2>4 DEF Hand, Capturing
  <2>5. CASE step'[r] = "collect"
    <3>1. drive'[r] = "gone"
      BY <1>1, <1>6, <1>14, <2>5 DEF DriveExits, DriveStopped
    <3> QED BY <1>8, <2>3, <2>5, <3>1 DEF Hand, Capturing
  <2> QED BY <2>1, <2>4, <2>5
<1>15. CASE CollectImpellerEvidence(r)
  <2>1. step'[r] = "backend" /\ impeller'[m] = Opened(r) /\ drive' = drive /\ log' = log
        /\ step[r] = "collect"
    BY <1>1, <1>6, <1>15 DEF CollectImpellerEvidence, m
  <2> QED BY <1>2, <1>4, <1>8, <2>1 DEF Hand, Capturing, m
<1>16. CASE BackendWritten(r)
  <2>1. step'[r] = "certify" /\ impeller'[m] = Closed(r) /\ drive' = drive /\ log' = log
        /\ step[r] = "backend"
    BY <1>1, <1>6, <1>16 DEF BackendWritten, m
  <2> QED BY <1>2, <1>4, <1>8, <2>1 DEF Hand, Capturing, m
<1>17. CASE Certify(r)
  <2>1. step'[r] = "manifest" /\ manifest'[m] = Opened(r) /\ drive' = drive /\ log' = log
        /\ step[r] = "certify"
    BY <1>1, <1>6, <1>17 DEF Certify, m
  <2> QED BY <1>2, <1>4, <1>8, <2>1 DEF Hand, Capturing, m
<1>18. CASE ManifestWritten(r) \/ FailureWritten(r) \/ EvidenceWritten(r) \/ PartialWritten(r)
  <2>1. (Ends(r, "ok") \/ Ends(r, "failed")) /\ drive' = drive /\ log' = log
    BY <1>18 DEF ManifestWritten, FailureWritten, EvidenceWritten, PartialWritten
  <2>2. step'[r] = "done"
    BY <1>7, <2>1
  <2> QED BY <1>2, <1>8, <2>1, <2>2 DEF Hand, Capturing, m
<1>19. CASE RecordFailure(r)
  <2>1. /\ \/ Ends(r, "failed")
           \/ Goes(r, "failure") /\ failed' = [failed EXCEPT ![m] = Opened(r)]
        /\ drive' = drive /\ log' = log
    BY <1>19 DEF RecordFailure, m
  <2>2. failed' = [failed EXCEPT ![m] = Opened(r)] => failed'[m] = Opened(r)
    BY <1>1
  <2>3. Ends(r, "failed") => step'[r] = "done"
    BY <1>7
  <2>4. Goes(r, "failure") => step'[r] = "failure"
    BY <1>6
  <2> QED BY <1>2, <1>4, <1>8, <2>1, <2>2, <2>3, <2>4 DEF Hand, Capturing, m
<1>20. CASE ConcludeFinal(r) \/ ConcludeSummary(r)
  <2>1. /\ \/ step'[r] = "evidence" /\ evidence' = Opened(r)
           \/ step'[r] = "partial" /\ partial' = Opened(r)
        /\ drive' = drive /\ log' = log
    BY <1>6, <1>20 DEF ConcludeFinal, ConcludeSummary
  <2> QED BY <1>2, <1>4, <1>8, <2>1 DEF Hand, Capturing, m
<1> QED BY <1>10, <1>11, <1>12, <1>13, <1>14, <1>15, <1>16, <1>17, <1>18, <1>19, <1>20
  DEF Touches

\* What every invocation has in hand, after any step.
LEMMA HandStep ==
  ASSUME Inv, [Next]_vars
  PROVE  InHand'
<1> SUFFICES ASSUME NEW q \in Runner PROVE Hand(q)'
  BY HandIsInHand
<1>1. CASE UNCHANGED vars \/ EditSource
  <2>1. /\ UNCHANGED <<step, drive, root, given>>
    BY <1>1 DEF vars, EditSource
  <2>2. Hand(q) /\ (DeviceIs(Phone(q)) => DeviceIs(Phone(q))')
    BY HandIsInHand, PhoneStays DEF Inv, RootInv
  <2>3. (Opened(q))' = Opened(q) /\ (Closed(q))' = Closed(q)
    BY DEF Opened, Closed
  <2> QED BY <2>1, <2>2, <2>3 DEF Hand, root, given
<1>2. ASSUME NEW r \in Runner, Quiet(r)
      PROVE  Hand(q)'
  BY <1>2, QuietHands
<1>3. ASSUME NEW r \in Runner, Touches(r)
      PROVE  Hand(q)'
  BY <1>3, HandStays, OwnHand
<1> QED BY <1>1, <1>2, <1>3, StepKinds

-----------------------------------------------------------------------------
(* Whose the files of a model are.                                         *)

\* OneCapturePerModel and ManifestBindsOneCapture, of one model.
One(m) ==
  /\ log[m] # Absent =>
       /\ work[log[m].by].model = m /\ step[log[m].by] \in Launched
       /\ DeviceIs(Phone(log[m].by))
  /\ shots[m] # Absent => log[m] # Absent /\ shots[m].by = log[m].by
  /\ impeller[m] # Absent =>
       /\ log[m] # Absent /\ impeller[m].by = log[m].by
       /\ step[log[m].by] \in Launched \ {"drive", "collect"}
       /\ drive[log[m].by] = "gone"
  /\ manifest[m] # Absent =>
       step[manifest[m].by] \in {"manifest", "failing", "failure", "done"}

Binds(m) ==
  manifest[m] # Absent =>
    LET c == manifest[m].by IN
    /\ log[m] = Closed(c) /\ shots[m] = Closed(c) /\ impeller[m] = Closed(c)
    /\ DeviceIs(Phone(c))
    /\ \A r \in Runner : work[r].model = m => drive[r] # "alive"

\* Together they are the invariants.
LEMMA OneAndBinds ==
  /\ OneCapturePerModel <=> \A m \in Model : One(m)
  /\ OneCapturePerModel' <=> \A m \in Model : One(m)'
  /\ ManifestBindsOneCapture <=> \A m \in Model : Binds(m)
  /\ ManifestBindsOneCapture' <=> \A m \in Model : Binds(m)'
BY DEF OneCapturePerModel, One, ManifestBindsOneCapture, Binds

\* What is known of a model before a step.
LEMMA ModelFacts ==
  ASSUME Inv, NEW m \in Model
  PROVE  /\ TypeOK /\ One(m) /\ Binds(m)
         /\ log[m] \in File /\ shots[m] \in File /\ impeller[m] \in File
         /\ manifest[m] \in File
         /\ log[m] # Absent => log[m].by \in Runner
         /\ manifest[m] # Absent =>
              manifest[m].by \in Runner /\ log[m] # Absent /\ log[m].by = manifest[m].by
<1>1. TypeOK /\ One(m) /\ Binds(m)
  BY OneAndBinds DEF Inv, RootInv
<1>2. /\ log[m] \in File /\ shots[m] \in File /\ impeller[m] \in File
      /\ manifest[m] \in File
  BY <1>1 DEF TypeOK
<1>3. manifest[m] # Absent =>
        manifest[m].by \in Runner /\ log[m] # Absent /\ log[m].by = manifest[m].by
  BY <1>1, <1>2, FileFields, OpenedClosed DEF Binds
<1> QED BY <1>1, <1>2, <1>3, FileFields

\* The capture of a model, where r is not it, is not touched by r.
LEMMA OneAlone ==
  ASSUME Inv, [Next]_vars, NEW r \in Runner, NEW m \in Model,
         \A q \in Runner \ {r} : step'[q] = step[q] /\ drive'[q] = drive[q],
         log'[m] = log[m], shots'[m] = shots[m], impeller'[m] = impeller[m],
         manifest'[m] = manifest[m],
         log[m] # Absent => log[m].by # r
  PROVE  One(m)'
<1>1. One(m) /\ work' = work
  BY ModelFacts, GuardStays DEF given
<1>2. /\ log[m] # Absent => log[m].by \in Runner \ {r}
      /\ manifest[m] # Absent => manifest[m].by \in Runner \ {r}
  BY ModelFacts
<1>3. log[m] # Absent => DeviceIs(Phone(log[m].by))'
  <2>1. SUFFICES ASSUME log[m] # Absent PROVE DeviceIs(Phone(log[m].by))'
    OBVIOUS
  <2>2. PICK c \in Runner : c = log[m].by
    BY <1>2, <2>1
  <2>3. DeviceIs(Phone(c))'
    BY <1>1, <2>1, <2>2, PhoneStays DEF One
  <2> QED BY <2>2, <2>3
<1> QED BY <1>1, <1>2, <1>3 DEF One

\* No step but one that touches the files of the model does.
LEMMA OneQuiet ==
  ASSUME Inv, [Next]_vars, NEW r \in Runner, NEW m \in Model,
         UNCHANGED <<log, shots, impeller, manifest>>,
         \A q \in Runner \ {r} : step'[q] = step[q] /\ drive'[q] = drive[q],
         \/ step'[r] = step[r]
         \/ /\ step[r] \in Launched => step'[r] \in {"failing", "failure", "done"},
         drive'[r] = drive[r] \/ drive'[r] = "gone"
  PROVE  One(m)'
<1>1. One(m) /\ work' = work
  BY ModelFacts, GuardStays DEF given
<1>2. /\ log[m] # Absent => log[m].by \in Runner
      /\ manifest[m] # Absent => manifest[m].by \in Runner /\ log[m] # Absent
                                 /\ log[m].by = manifest[m].by
  BY ModelFacts
<1>3. log[m] # Absent => DeviceIs(Phone(log[m].by))'
  <2>1. SUFFICES ASSUME log[m] # Absent PROVE DeviceIs(Phone(log[m].by))'
    OBVIOUS
  <2>2. PICK c \in Runner : c = log[m].by
    BY <1>2, <2>1
  <2>3. DeviceIs(Phone(c))'
    BY <1>1, <2>1, <2>2, PhoneStays DEF One
  <2> QED BY <2>2, <2>3
<1>4. {"manifest", "failing", "failure", "done"} \subseteq Launched
  BY DEF Launched, Capturing
<1>5. ASSUME log[m] # Absent
      PROVE  /\ step'[log[m].by] \in Launched
             /\ step[log[m].by] \in Launched \ {"drive", "collect"} =>
                  step'[log[m].by] \in Launched \ {"drive", "collect"}
             /\ drive[log[m].by] = "gone" => drive'[log[m].by] = "gone"
             /\ step[log[m].by] \in {"manifest", "failing", "failure", "done"} =>
                  step'[log[m].by] \in {"manifest", "failing", "failure", "done"}
  <2>1. step[log[m].by] \in Launched
    BY <1>1, <1>5 DEF One
  <2>2. CASE log[m].by = r
    BY <1>4, <2>1, <2>2
  <2>3. CASE log[m].by # r
    BY <1>2, <1>5, <2>1, <2>3
  <2> QED BY <2>2, <2>3
<1> QED BY <1>1, <1>2, <1>3, <1>5 DEF One

\* A model that r does not capture.
LEMMA OneOther ==
  ASSUME Inv, [Next]_vars, NEW r \in Runner, Touches(r), NEW m \in Model,
         work[r].model # m
  PROVE  One(m)'
<1>1. TypeOK /\ One(m)
  BY ModelFacts
<1>2. /\ \A q \in Runner \ {r} : step'[q] = step[q] /\ drive'[q] = drive[q]
      /\ log'[m] = log[m] /\ shots'[m] = shots[m]
      /\ impeller'[m] = impeller[m] /\ manifest'[m] = manifest[m]
  BY <1>1, TouchFrame
<1>3. log[m] # Absent => log[m].by # r
  BY <1>1 DEF One
<1> QED BY <1>2, <1>3, OneAlone

\* The capture of a model is r.
LEMMA OneMade ==
  ASSUME NEW r \in Runner, NEW m \in Model, work[r].model = m, UNCHANGED given,
         log'[m] # Absent, log'[m].by = r, DeviceIs(Phone(r))', step'[r] \in Launched,
         shots'[m] # Absent => shots'[m].by = r,
         impeller'[m] # Absent => /\ impeller'[m].by = r /\ drive'[r] = "gone"
                                  /\ step'[r] \in Launched \ {"drive", "collect"},
         manifest'[m] # Absent =>
           /\ manifest'[m].by = r
           /\ step'[r] \in {"manifest", "failing", "failure", "done"}
  PROVE  One(m)'
BY DEF One, given

\* The model that r captures.
LEMMA OneOwn ==
  ASSUME Inv, [Next]_vars, NEW r \in Runner, Touches(r), NEW m \in Model,
         work[r].model = m
  PROVE  One(m)'
<1>1. /\ TypeOK /\ One(m) /\ Hand(r) /\ UNCHANGED given
  BY ModelFacts, GuardStays, HandIsInHand DEF Inv, RootInv
<1>2. /\ step \in [Runner -> Step] /\ drive \in [Runner -> {"none", "alive", "gone"}]
      /\ log \in [Model -> File] /\ shots \in [Model -> File]
      /\ impeller \in [Model -> File] /\ manifest \in [Model -> File]
  BY <1>1 DEF TypeOK
<1>3. \A q \in Runner \ {r} : step'[q] = step[q] /\ drive'[q] = drive[q]
  BY <1>1, TouchFrame
<1>4. Opened(r) # Absent /\ Opened(r).by = r /\ Closed(r) # Absent /\ Closed(r).by = r
  BY OpenedClosed
<1>5. manifest[m] # Absent => log[m] # Absent /\ log[m].by = manifest[m].by
  BY ModelFacts
<1>6. DeviceIs(Phone(r)) => DeviceIs(Phone(r))'
  BY PhoneStays
\* What the files of m are when r is its capture.
<1>7. log[m] # Absent /\ log[m].by = r =>
        /\ DeviceIs(Phone(r)) /\ step[r] \in Launched
        /\ shots[m] # Absent => shots[m].by = r
        /\ impeller[m] # Absent => /\ impeller[m].by = r /\ drive[r] = "gone"
                                   /\ step[r] \in Launched \ {"drive", "collect"}
        /\ manifest[m] # Absent =>
             /\ manifest[m].by = r
             /\ step[r] \in {"manifest", "failing", "failure", "done"}
  BY <1>1, <1>5 DEF One
<1>8. \A s \in {"drive", "failing", "collect", "backend", "certify", "manifest"} :
        Goes(r, s) => step'[r] = s
  BY <1>2 DEF Goes
<1>9. {"drive", "collect", "backend", "certify", "manifest", "failing", "failure", "done"}
         \subseteq Launched
  BY DEF Launched, Capturing
<1>10. CASE \/ Settle(r) \/ DeviceWritten(r) \/ ConcludeFinal(r) \/ EvidenceWritten(r)
            \/ ConcludeSummary(r) \/ PartialWritten(r)
  <2>1. UNCHANGED <<log, shots, impeller, manifest>>
    BY <1>10 DEF Settle, DeviceWritten, ConcludeFinal, EvidenceWritten,
      ConcludeSummary, PartialWritten
  <2>2. step[r] \in {"settle", "device", "conclude", "evidence", "partial"}
    BY <1>10 DEF Settle, DeviceWritten, ConcludeFinal, EvidenceWritten,
      ConcludeSummary, PartialWritten
  <2>3. log[m] # Absent => log[m].by # r
    BY <1>7, <2>2 DEF Launched, Capturing
  <2> QED BY <1>3, <2>1, <2>3, OneAlone
<1>11. CASE RecordFailure(r) \/ FailureWritten(r)
  <2>1. UNCHANGED <<log, shots, impeller, manifest, drive>>
    BY <1>11 DEF RecordFailure, FailureWritten
  <2>2. Goes(r, "failure") \/ Ends(r, "failed")
    BY <1>11 DEF RecordFailure, FailureWritten
  <2>3. step'[r] \in {"failure", "done"}
    BY <1>2, <2>2 DEF Goes, Ends
  <2> QED BY <1>3, <2>1, <2>3, OneQuiet
<1>12. CASE Launch(r)
  <2>1. /\ log[m] = Absent /\ log' = [log EXCEPT ![m] = Opened(r)]
        /\ UNCHANGED <<shots, impeller, manifest>> /\ step[r] = "launch"
        /\ Goes(r, "drive") \/ Goes(r, "failing")
    BY <1>12 DEF Launch
  <2>2. log'[m] # Absent /\ log'[m].by = r
    BY <1>2, <1>4, <2>1
  <2>3. shots[m] = Absent /\ impeller[m] = Absent /\ manifest[m] = Absent
    BY <1>1, <1>5, <2>1 DEF One
  <2>4. step'[r] \in Launched
    BY <1>8, <1>9, <2>1
  <2>5. DeviceIs(Phone(r))'
    BY <1>1, <1>6, <2>1 DEF Hand
  <2> QED BY <1>1, <2>1, <2>2, <2>3, <2>4, <2>5, OneMade
<1>13. CASE DriveShoots(r)
  <2>1. /\ drive[r] = "alive" /\ UNCHANGED <<step, drive, log, impeller, manifest>>
        /\ \E b \in BOOLEAN : shots' = [shots EXCEPT ![m] = [by |-> r, whole |-> b]]
    BY <1>1, <1>13 DEF DriveShoots
  <2>2. log[m] # Absent /\ log[m].by = r
    BY <1>1, <2>1 DEF Hand
  <2>3. shots'[m].by = r
    BY <1>2, <2>1
  <2> QED BY <1>1, <1>6, <1>7, <2>1, <2>2, <2>3, OneMade
<1>14. CASE DriveExits(r) \/ DriveStopped(r)
  <2>1. /\ step[r] = "drive" /\ UNCHANGED <<shots, impeller, manifest>>
        /\ \E b \in BOOLEAN : log' = [log EXCEPT ![m] = [by |-> r, whole |-> b]]
        /\ Goes(r, "collect") \/ Goes(r, "failing")
    BY <1>1, <1>14 DEF DriveExits, DriveStopped
  <2>2. log[m] # Absent /\ log[m].by = r
    BY <1>1, <1>4, <2>1 DEF Hand
  <2>3. log'[m] # Absent /\ log'[m].by = r
    BY <1>2, <2>1, FileOf
  <2>4. impeller[m] = Absent /\ manifest[m] = Absent
    BY <1>7, <2>1, <2>2
  <2>5. step'[r] \in Launched
    BY <1>8, <1>9, <2>1
  <2> QED BY <1>1, <1>6, <1>7, <2>1, <2>2, <2>3, <2>4, <2>5, OneMade
<1>15. CASE CollectImpellerEvidence(r) \/ BackendWritten(r)
  <2>1. /\ step[r] \in {"collect", "backend"} /\ UNCHANGED <<shots, log, manifest, drive>>
        /\ \E f \in {Opened(r), Closed(r)} : impeller' = [impeller EXCEPT ![m] = f]
        /\ Goes(r, "backend") \/ Goes(r, "certify")
    BY <1>1, <1>15 DEF CollectImpellerEvidence, BackendWritten
  <2>2. log[m] # Absent /\ log[m].by = r /\ drive[r] = "gone"
    BY <1>1, <2>1 DEF Hand, Capturing
  <2>3. impeller'[m].by = r
    BY <1>2, <1>4, <2>1
  <2>4. manifest[m] = Absent
    BY <1>7, <2>1, <2>2
  <2>5. step'[r] \in Launched \ {"drive", "collect"}
    BY <1>8, <1>9, <2>1
  <2> QED BY <1>1, <1>6, <1>7, <2>1, <2>2, <2>3, <2>4, <2>5, OneMade
<1>16. CASE Certify(r) \/ ManifestWritten(r)
  <2>1. /\ step[r] \in {"certify", "manifest"} /\ UNCHANGED <<shots, log, impeller, drive>>
        /\ \E f \in {Opened(r), Closed(r)} : manifest' = [manifest EXCEPT ![m] = f]
        /\ Goes(r, "manifest") \/ Ends(r, "ok")
    BY <1>1, <1>16 DEF Certify, ManifestWritten
  <2>2. log[m] # Absent /\ log[m].by = r /\ drive[r] = "gone"
    BY <1>1, <2>1 DEF Hand, Capturing
  <2>3. manifest'[m].by = r
    BY <1>2, <1>4, <2>1
  <2>4. Ends(r, "ok") => step'[r] = "done"
    BY <1>2 DEF Ends
  <2>5. step'[r] \in {"manifest", "done"}
    BY <1>8, <2>1, <2>4
  <2>6. step'[r] \in Launched \ {"drive", "collect"}
    BY <1>9, <2>5
  <2> QED BY <1>1, <1>6, <1>7, <2>1, <2>2, <2>3, <2>5, <2>6, OneMade
<1> QED BY <1>10, <1>11, <1>12, <1>13, <1>14, <1>15, <1>16 DEF Touches

\* The files of each model are of one capture, after any step.
LEMMA OneStep ==
  ASSUME Inv, [Next]_vars
  PROVE  OneCapturePerModel'
<1> SUFFICES ASSUME NEW m \in Model PROVE One(m)'
  BY OneAndBinds
<1>1. /\ step \in [Runner -> Step] /\ drive \in [Runner -> {"none", "alive", "gone"}]
  BY DEF Inv, RootInv, TypeOK
<1>2. ASSUME NEW r \in Runner, Quiet(r)
      PROVE  One(m)'
  <2>1. UNCHANGED <<log, shots, impeller, manifest>>
    BY <1>2 DEF Quiet, root
  <2>2. /\ \A q \in Runner \ {r} : step'[q] = step[q] /\ drive'[q] = drive[q]
        /\ drive'[r] = drive[r] \/ drive'[r] = "gone"
    BY <1>1, <1>2 DEF Quiet, QuietMove
  <2>3. \/ step'[r] = step[r]
        \/ step[r] \in Launched => step'[r] \in {"failing", "done"}
    BY <1>1, <1>2 DEF Quiet, QuietMove
  <2> QED BY <2>1, <2>2, <2>3, OneQuiet
<1>3. ASSUME NEW r \in Runner, Touches(r)
      PROVE  One(m)'
  BY <1>3, OneOther, OneOwn
<1>4. ASSUME Runner = {}
      PROVE  One(m)'
  <2>1. log[m] = Absent /\ manifest[m] = Absent
    BY <1>4, ModelFacts
  <2>2. log' = log /\ shots' = shots /\ impeller' = impeller /\ manifest' = manifest
    BY <1>4, StepKinds DEF vars, EditSource, root
  <2> QED BY <2>1, <2>2, ModelFacts DEF One
<1>5. CASE UNCHANGED vars \/ EditSource
  <2>1. UNCHANGED <<step, drive, log, shots, impeller, manifest>>
    BY <1>5 DEF vars, EditSource, root
  <2>2. CASE \E r \in Runner : TRUE
    BY <2>1, <2>2, OneQuiet
  <2> QED BY <1>4, <2>2
<1> QED BY <1>2, <1>3, <1>5, StepKinds

\* A drive is started by Launch alone.
LEMMA Driven ==
  ASSUME TypeOK, [Next]_vars, NEW q \in Runner, drive[q] # "alive", drive'[q] = "alive",
         Hand(q)
  PROVE  log[work[q].model] = Absent \/ log[work[q].model] = Opened(q)
<1>1. drive \in [Runner -> {"none", "alive", "gone"}]
  BY DEF TypeOK
<1>2. CASE UNCHANGED vars \/ EditSource
  BY <1>2 DEF vars, EditSource
<1>3. ASSUME NEW r \in Runner, Quiet(r)
      PROVE  FALSE
  BY <1>1, <1>3 DEF Quiet
<1>4. ASSUME NEW r \in Runner, Touches(r)
      PROVE  log[work[q].model] = Absent \/ log[work[q].model] = Opened(q)
  <2>1. q = r
    BY <1>4, TouchFrame
  <2>2. CASE Launch(r)
    BY <2>1, <2>2 DEF Launch
  <2>3. CASE DriveStopped(r)
    BY <2>1, <2>3 DEF DriveStopped, Hand
  <2>4. CASE DriveExits(r)
    BY <1>1, <2>1, <2>4 DEF DriveExits
  <2>5. CASE ~Launch(r) /\ ~DriveStopped(r) /\ ~DriveExits(r)
    <3>1. drive' = drive
      BY <1>4, <2>5 DEF Touches, Settle, DeviceWritten, DriveShoots,
        CollectImpellerEvidence, BackendWritten, Certify, ManifestWritten,
        RecordFailure, FailureWritten, ConcludeFinal, EvidenceWritten,
        ConcludeSummary, PartialWritten
    <3> QED BY <3>1
  <2> QED BY <2>2, <2>3, <2>4, <2>5
<1> QED BY <1>2, <1>3, <1>4, StepKinds

\* A manifest that is there still binds.
LEMMA BoundStays ==
  ASSUME Inv, [Next]_vars, NEW m \in Model, manifest[m] # Absent
  PROVE  Binds(m)'
<1>1. PICK c \in Runner : c = manifest[m].by
  BY ModelFacts
<1>2. /\ log[m] = Closed(c) /\ shots[m] = Closed(c) /\ impeller[m] = Closed(c)
      /\ DeviceIs(Phone(c))
      /\ \A q \in Runner : work[q].model = m => drive[q] # "alive"
  BY <1>1, ModelFacts DEF Binds
<1>3. Whole(Closed(c)) /\ Closed(c) # Opened(c) /\ Closed(c) # Absent
  BY OpenedClosed DEF Whole
<1>4. log'[m] = Closed(c) /\ shots'[m] = Closed(c) /\ impeller'[m] = Closed(c)
  BY <1>2, <1>3, ModelFacts, Grows, WholeStays DEF Grow
<1>5. manifest'[m] # Absent /\ manifest'[m].by = c
  BY <1>1, ModelFacts, Grows DEF Grow, OnlyGrows
<1>6. DeviceIs(Phone(c))' /\ work' = work
  BY <1>2, PhoneStays, GuardStays DEF given
<1>7. \A q \in Runner : work[q].model = m => drive'[q] # "alive"
  <2> SUFFICES ASSUME NEW q \in Runner, work[q].model = m, drive'[q] = "alive"
               PROVE  FALSE
    OBVIOUS
  <2>1. TypeOK /\ Hand(q)
    BY HandIsInHand DEF Inv, RootInv
  <2>2. log[m] = Absent \/ log[m] = Opened(q)
    BY <1>2, <2>1, Driven
  <2>3. Closed(c).by = c /\ Closed(c).whole = TRUE /\ Opened(q).whole = FALSE
    BY OpenedClosed
  <2> QED BY <1>2, <1>3, <2>2, <2>3
<1>8. (Closed(c))' = Closed(c)
  BY DEF Closed
<1> QED BY <1>4, <1>5, <1>6, <1>7, <1>8 DEF Binds, Closed

\* Certify binds one capture.
LEMMA CertifyBinds ==
  ASSUME Inv, [Next]_vars, NEW r \in Runner, Certify(r),
         NEW m \in Model, work[r].model = m
  PROVE  Binds(m)'
<1>1. TypeOK /\ Hand(r)
  BY HandIsInHand DEF Inv, RootInv
<1>2. One(m) /\ log[m] \in File /\ shots[m] \in File
  BY <1>1, ModelFacts
<1>3. /\ step[r] = "certify" /\ ArtifactsOf(m, r)
      /\ UNCHANGED <<given, drive, device, log, shots, impeller>>
      /\ manifest' = [manifest EXCEPT ![m] = Opened(r)]
  BY DEF Certify
<1>4. impeller[m] = Closed(r) /\ log[m] # Absent /\ log[m].by = r /\ drive[r] = "gone"
  BY <1>1, <1>3 DEF Hand, Capturing
<1>5. Whole(log[m]) /\ Whole(shots[m]) /\ shots[m].by = log[m].by
  BY <1>3 DEF ArtifactsOf, ValidateModelArtifacts, ValidateNativeArtifacts,
    LogTellsSuccess, ResponseAgrees, ResponseConforms
<1>6. log[m] = Closed(r) /\ shots[m] = Closed(r)
  BY <1>2, <1>4, <1>5, WholeIsClosed DEF Whole
<1>7. DeviceIs(Phone(r))'
  BY <1>2, <1>4, PhoneStays DEF One
<1>8. \A q \in Runner : work[q].model = m => drive[q] # "alive"
  <2> SUFFICES ASSUME NEW q \in Runner, work[q].model = m, drive[q] = "alive"
               PROVE  FALSE
    OBVIOUS
  <2>1. log[m].by = q
    BY HandIsInHand DEF Inv, RootInv, Hand
  <2> QED BY <1>4, <2>1
<1>9. manifest'[m] = Opened(r) /\ Opened(r).by = r
  BY <1>1, <1>3, OpenedClosed DEF TypeOK
<1>10. work' = work
  BY <1>3 DEF given
<1> QED BY <1>3, <1>4, <1>6, <1>7, <1>8, <1>9, <1>10 DEF Binds, Closed

\* A manifest binds one capture, after any step.
LEMMA BindStep ==
  ASSUME Inv, [Next]_vars
  PROVE  ManifestBindsOneCapture'
<1> SUFFICES ASSUME NEW m \in Model, manifest[m] = Absent, manifest'[m] # Absent
             PROVE  Binds(m)'
  <2>1. \A m \in Model : manifest'[m] = Absent => Binds(m)'
    BY DEF Binds
  <2> QED BY <2>1, BoundStays, OneAndBinds
<1>1. CASE UNCHANGED vars \/ EditSource
  BY <1>1 DEF vars, EditSource, root
<1>2. ASSUME NEW r \in Runner, Quiet(r)
      PROVE  FALSE
  BY <1>2 DEF Quiet, root
<1>3. ASSUME NEW r \in Runner, Touches(r)
      PROVE  Binds(m)'
  <2>1. m = work[r].model
    BY <1>3, TouchFrame DEF Inv, RootInv
  <2>2. ~ManifestWritten(r)
    <3>1. Hand(r)
      BY HandIsInHand DEF Inv, RootInv
    <3> QED BY <2>1, <3>1, OpenedClosed DEF ManifestWritten, Hand
  <2>3. CASE Certify(r)
    BY <2>1, <2>3, CertifyBinds
  <2>4. CASE ~Certify(r)
    <3>1. manifest' = manifest
      BY <1>3, <2>2, <2>4 DEF Touches, Settle, DeviceWritten, Launch, DriveShoots,
        DriveExits, DriveStopped, CollectImpellerEvidence, BackendWritten,
        RecordFailure, FailureWritten, ConcludeFinal, EvidenceWritten,
        ConcludeSummary, PartialWritten
    <3> QED BY <3>1
  <2> QED BY <2>3, <2>4
<1> QED BY <1>1, <1>2, <1>3, StepKinds

-----------------------------------------------------------------------------
\* Nothing is there at first.
LEMMA InvInit ==
  ASSUME Init
  PROVE  Inv
<1>1. TypeOK
  BY WorkAssumption DEF Init, TypeOK, File, Step, Verdict
<1>2. OneCapturePerModel /\ ManifestBindsOneCapture
  BY DEF Init, OneCapturePerModel, ManifestBindsOneCapture
<1>3. InHand
  BY DEF Init, InHand, Capturing
<1>4. SeenStaysTrue /\ FilesAreCoherent
  BY DEF Init, SeenStaysTrue, FilesAreCoherent
<1>5. AuditsAgree
  BY DEF Init, AuditsAgree, SaysFinal, SaysPartial
<1> QED BY <1>1, <1>2, <1>3, <1>4, <1>5 DEF Inv, RootInv, EvidenceIsCoherent

\* Inv is inductive.
LEMMA InvStep ==
  ASSUME Inv, [Next]_vars
  PROVE  Inv'
<1>1. TypeOK' /\ OneCapturePerModel' /\ InHand' /\ ManifestBindsOneCapture'
  BY TypeStep, OneStep, HandStep, BindStep DEF Inv, RootInv
<1>2. SeenStaysTrue' /\ FilesAreCoherent' /\ AuditsAgree'
  BY SeenStep, CoherentStep, AgreeStep
<1> QED BY <1>1, <1>2 DEF Inv, RootInv, EvidenceIsCoherent

\* Whose the files are, what they vouch for and what audits say of them are
\* one inductive invariant.
THEOREM Invariance == Spec => []Inv
<1>1. Init => Inv
  BY InvInit
<1>2. Inv /\ [Next]_vars => Inv'
  BY InvStep
<1> QED BY <1>1, <1>2, PTL DEF Spec

\* However invocations of one run root interleave, are killed and leave drives
\* behind, its files are of one capture per model, and a success manifest binds
\* the log, response and backend proof of the invocation that wrote it.
THEOREM RootIsSound == Spec => []RootInv
BY Invariance, PTL DEF Inv

\* evidence.json and partial_evidence.json are true of the root while it is
\* written by others, and no two audits disagree.
THEOREM EvidenceCoherent == Spec => []EvidenceIsCoherent
BY Invariance, PTL DEF Inv

\* "nothing was deleted or overwritten": a file only grows, by who created it.
THEOREM NeverOverwritten == Spec => NothingOverwritten
<1>1. Inv /\ [Next]_vars => [Grow]_root
  BY Grows
<1>2. [][Grow]_root => NothingOverwritten
  BY PTL DEF NothingOverwritten, Grow
<1> QED BY <1>1, <1>2, Invariance, PTL DEF Spec

-----------------------------------------------------------------------------
(* The ledger.                                                             *)

\* A ledger nothing happens to.
LEMMA LedgerRests ==
  ASSUME SealEntry' = SealEntry, \A m \in Model : Entry(m)' = Entry(m)
  PROVE  UNCHANGED <<[m \in Model |-> Entry(m)], SealEntry>>
OBVIOUS

\* An entry that is whole stays, with the seal.
LEMMA EntriesStay ==
  ASSUME Inv, [Next]_vars
  PROVE  /\ \A m \in Model : Whole(manifest[m]) => Entry(m)' = Entry(m)
         /\ Whole(evidence) => SealEntry' = SealEntry
<1>1. ASSUME NEW m \in Model, Whole(manifest[m])
      PROVE  Entry(m)' = Entry(m)
  <2>1. manifest'[m] = manifest[m]
    BY <1>1, ModelFacts, Grows, WholeStays DEF Grow
  <2>2. PICK c \in Runner : c = manifest[m].by /\ step[c] # "idle"
    <3>1. manifest[m] # Absent
      BY <1>1 DEF Whole
    <3> QED BY <3>1, ModelFacts DEF One
  <2>3. guard'[c] = guard[c] /\ work' = work
    BY <2>2, GuardStays DEF given
  <2> QED BY <1>1, <2>1, <2>2, <2>3 DEF Entry, GuardOf, Phone, Whole
<1>2. ASSUME Whole(evidence)
      PROVE  SealEntry' = SealEntry
  <2>1. evidence' = evidence
    BY <1>2, Grows, WholeStays DEF Grow, Inv, RootInv, TypeOK
  <2>2. PICK c \in Runner : c = evidence.by
    BY <1>2, FileFields DEF Inv, RootInv, TypeOK, Whole
  <2>3. step[c] # "idle" /\ SucceededWith(Model, guard[c])
    BY <1>2, <2>2 DEF Inv, EvidenceIsCoherent, FilesAreCoherent, Whole
  <2>4. device' = device
    BY <2>3, Grows, WholeStays DEF Inv, RootInv, TypeOK, Grow, SucceededWith
  <2>5. guard'[c] = guard[c] /\ work' = work
    BY <2>2, <2>3, GuardStays DEF given
  <2> QED BY <1>2, <2>1, <2>2, <2>4, <2>5 DEF SealEntry, Phone, Whole
<1> QED BY <1>1, <1>2

\* Only ManifestWritten makes a manifest whole, and only EvidenceWritten the
\* evidence.
LEMMA NewlyWhole ==
  ASSUME Inv, [Next]_vars
  PROVE  /\ \A m \in Model : ~Whole(manifest[m]) /\ Whole(manifest[m])' =>
              \E r \in Runner : ManifestWritten(r) /\ work[r].model = m
         /\ ~Whole(evidence) /\ Whole(evidence)' => \E r \in Runner : EvidenceWritten(r)
<1>1. TypeOK
  BY DEF Inv, RootInv
<1>2. CASE UNCHANGED vars \/ EditSource
  BY <1>2 DEF vars, EditSource, root, Whole
<1>3. ASSUME NEW r \in Runner, Quiet(r)
      PROVE  manifest' = manifest /\ evidence' = evidence
  BY <1>3 DEF Quiet, root
<1>4. ASSUME NEW r \in Runner, Touches(r), NEW m \in Model,
             ~Whole(manifest[m]), Whole(manifest[m])'
      PROVE  ManifestWritten(r) /\ work[r].model = m
  <2>1. m = work[r].model
    BY <1>1, <1>4, TouchFrame DEF Whole
  <2>2. CASE Certify(r)
    <3>1. manifest'[m] = Opened(r)
      BY <1>1, <2>1, <2>2 DEF Certify, TypeOK
    <3> QED BY <1>4, <3>1, OpenedClosed DEF Whole
  <2>3. CASE ~Certify(r) /\ ~ManifestWritten(r)
    <3>1. manifest' = manifest
      BY <1>4, <2>3 DEF Touches, Settle, DeviceWritten, Launch, DriveShoots,
        DriveExits, DriveStopped, CollectImpellerEvidence, BackendWritten,
        RecordFailure, FailureWritten, ConcludeFinal, EvidenceWritten,
        ConcludeSummary, PartialWritten
    <3> QED BY <1>4, <3>1 DEF Whole
  <2> QED BY <2>1, <2>2, <2>3
<1>5. ASSUME NEW r \in Runner, Touches(r), ~Whole(evidence), Whole(evidence)'
      PROVE  EvidenceWritten(r)
  <2>1. CASE ConcludeFinal(r)
    BY <1>5, <2>1, OpenedClosed DEF ConcludeFinal, Whole
  <2>2. CASE ~ConcludeFinal(r) /\ ~EvidenceWritten(r)
    <3>1. evidence' = evidence
      BY <1>5, <2>2 DEF Touches, Settle, DeviceWritten, Launch, DriveShoots,
        DriveExits, DriveStopped, CollectImpellerEvidence, BackendWritten, Certify,
        ManifestWritten, RecordFailure, FailureWritten,
        ConcludeSummary, PartialWritten
    <3> QED BY <1>5, <3>1 DEF Whole
  <2> QED BY <2>1, <2>2
<1> QED BY <1>2, <1>3, <1>4, <1>5, StepKinds DEF Whole

\* An entry, and the seal, change only then.
LEMMA EntryFrame ==
  ASSUME Inv, [Next]_vars
  PROVE  /\ \A m \in Model : Whole(manifest[m]) \/ ~Whole(manifest[m])' =>
              Entry(m)' = Entry(m)
         /\ Whole(evidence) \/ ~Whole(evidence)' => SealEntry' = SealEntry
<1>1. ASSUME NEW m \in Model, ~Whole(manifest[m]), ~Whole(manifest[m])'
      PROVE  Entry(m)' = Entry(m)
  BY <1>1 DEF Entry
<1>2. ASSUME ~Whole(evidence), ~Whole(evidence)'
      PROVE  SealEntry' = SealEntry
  BY <1>2 DEF SealEntry
<1>3. Whole(evidence) => Whole(evidence)'
  BY Grows, WholeStays DEF Inv, RootInv, TypeOK, Grow, Whole
<1> QED BY <1>1, <1>2, EntriesStay

\* A manifest that is written is entered.
LEMMA EnterStep ==
  ASSUME Inv, [Next]_vars, NEW r \in Runner, ManifestWritten(r)
  PROVE  \E m \in Model : Ledger!Enter(m)
<1>1. PICK m \in Model : m = work[r].model
  BY DEF Inv, RootInv, TypeOK
<1>2. TypeOK /\ Hand(r) /\ Binds(m)
  BY ModelFacts, HandIsInHand DEF Inv, RootInv
<1>3. /\ manifest' = [manifest EXCEPT ![m] = Closed(r)]
      /\ UNCHANGED <<given, guard, evidence>> /\ step[r] = "manifest"
  BY <1>1 DEF ManifestWritten
<1>4. manifest[m] = Opened(r) /\ manifest'[m] = Closed(r)
  BY <1>1, <1>2, <1>3 DEF Hand, TypeOK
<1>5. ~Whole(manifest[m]) /\ Whole(manifest[m])' /\ Closed(r).by = r
  BY <1>4, OpenedClosed DEF Whole
<1>6. SealEntry' = SealEntry
  BY <1>3, EntryFrame DEF Whole
<1>7. \A n \in Model \ {m} : Entry(n)' = Entry(n)
  <2>1. \A n \in Model \ {m} : manifest'[n] = manifest[n]
    BY <1>2, <1>3 DEF TypeOK
  <2> QED BY <2>1, EntryFrame DEF Whole
<1>8. Entry(m) = Absent /\ Entry(m)' = [source |-> guard[r], phone |-> Phone(r)]
  BY <1>3, <1>4, <1>5 DEF Entry, GuardOf, Phone, given
<1>9. guard[r] \in Source /\ Phone(r) \in Device
  BY <1>2 DEF TypeOK, Phone
<1>10. ASSUME NEW n \in Model, Entry(n) # Absent
       PROVE  Entry(n).phone = Phone(r)
  <2>1. Whole(manifest[n]) /\ Entry(n).phone = Phone(manifest[n].by)
    BY <1>10 DEF Entry
  <2>2. DeviceIs(Phone(manifest[n].by))
    BY <2>1, ModelFacts DEF Binds, Whole
  <2>3. manifest[m] # Absent /\ manifest[m].by = r
    BY <1>4, OpenedClosed
  <2>4. DeviceIs(Phone(r))
    BY <1>2, <2>3 DEF Binds
  <2> QED BY <2>1, <2>2, <2>4 DEF DeviceIs
<1> DEFINE en == [n \in Model |-> Entry(n)]
<1>11. en' = [en EXCEPT ![m] = en'[m]]
  BY <1>7
<1>12. en[m] = Absent /\ en'[m] = [source |-> guard[r], phone |-> Phone(r)]
  BY <1>8
<1>13. en'[m] \in [source : Source, phone : Device]
  BY <1>9, <1>12
<1>14. en'[m].phone = Phone(r)
  BY <1>12
<1>15. \A n \in Model : en[n] # Absent => en[n].phone = en'[m].phone
  BY <1>10, <1>14
<1> QED BY <1>6, <1>11, <1>12, <1>13, <1>15 DEF Ledger!Enter, Ledger!Entries

\* Evidence that is written seals.
LEMMA SealStep ==
  ASSUME Inv, [Next]_vars, NEW r \in Runner, EvidenceWritten(r)
  PROVE  Ledger!Seal
<1>1. TypeOK /\ Hand(r)
  BY HandIsInHand DEF Inv, RootInv
<1>2. step[r] = "evidence" /\ evidence' = Closed(r) /\ UNCHANGED <<given, guard, device, manifest>>
  BY DEF EvidenceWritten
<1>3. evidence = Opened(r)
  BY <1>1, <1>2 DEF Hand
<1>4. SucceededWith(Model, guard[r])
  BY <1>3, OpenedClosed DEF Inv, EvidenceIsCoherent, FilesAreCoherent
<1>5. ~Whole(evidence) /\ Whole(evidence)' /\ evidence'.by = r
  BY <1>2, <1>3, OpenedClosed DEF Whole
<1>6. SealEntry = Absent /\ SealEntry' = [source |-> guard[r], phone |-> Phone(device.by)]
  BY <1>2, <1>5 DEF SealEntry, Phone, given
<1>7. \A m \in Model : Entry(m) = [source |-> guard[r], phone |-> Phone(device.by)]
  BY <1>4 DEF SucceededWith, ValidateSuccessManifest, Entry
<1>8. \A m \in Model : Entry(m)' = Entry(m)
  BY <1>2, EntryFrame DEF Whole
<1>9. guard[r] \in Source /\ Phone(device.by) \in Device
  <2>1. device.by \in Runner
    BY <1>1, <1>4, FileFields DEF TypeOK, SucceededWith, Whole
  <2> QED BY <1>1, <2>1 DEF TypeOK, Phone
<1>10. SealEntry' \in [source : Source, phone : Device]
  BY <1>6, <1>9
<1>11. \A m \in Model : [n \in Model |-> Entry(n)][m] = SealEntry'
  BY <1>6, <1>7
<1>12. [n \in Model |-> Entry(n)]' = [n \in Model |-> Entry(n)]
  BY <1>8
<1> QED BY <1>6, <1>10, <1>11, <1>12 DEF Ledger!Seal, Ledger!Entries

\* Read as a ledger, a run root is what EvidenceLedger promises: models are
\* entered once, on one Simulator, and evidence.json seals equal entries.
THEOREM Refinement == Spec => KeepsLedger
<1>1. Init => Ledger!LedgerInit
  <2> SUFFICES ASSUME Init PROVE Ledger!LedgerInit
    OBVIOUS
  <2>1. \A m \in Model : Entry(m) = Absent
    BY DEF Init, Entry, Whole
  <2>2. SealEntry = Absent
    BY DEF Init, SealEntry, Whole
  <2> QED BY <2>1, <2>2 DEF Ledger!LedgerInit
<1>2. Inv /\ [Next]_vars => [Ledger!LedgerNext]_(Ledger!ledger)
  <2> SUFFICES ASSUME Inv, [Next]_vars PROVE [Ledger!LedgerNext]_(Ledger!ledger)
    OBVIOUS
  <2>1. CASE \E r \in Runner : ManifestWritten(r)
    BY <2>1, EnterStep DEF Ledger!LedgerNext
  <2>2. CASE \E r \in Runner : EvidenceWritten(r)
    BY <2>2, SealStep DEF Ledger!LedgerNext
  <2>3. CASE /\ ~\E r \in Runner : ManifestWritten(r)
             /\ ~\E r \in Runner : EvidenceWritten(r)
    <3>1. SealEntry' = SealEntry /\ \A m \in Model : Entry(m)' = Entry(m)
      BY <2>3, NewlyWhole, EntryFrame
    <3> QED BY <3>1, LedgerRests DEF Ledger!ledger
  <2> QED BY <2>1, <2>2, <2>3
<1> QED BY <1>1, <1>2, Invariance, PTL DEF Spec, KeepsLedger, Ledger!LedgerSpec

=============================================================================
