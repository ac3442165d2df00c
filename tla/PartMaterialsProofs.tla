------------------------ MODULE PartMaterialsProofs -------------------------
(***************************************************************************)
(* What is proved about patches and resets of a part, for any number of    *)
(* loads and of calls: they never disturb a load, so that everything       *)
(* LoadPublicationProofs proves holds beside them, and without a late      *)
(* patch the part stays that of its own model.                             *)
(***************************************************************************)
EXTENDS PartMaterials, LoadPublicationProofs

USE TokenAssumption, NoLoadAssumption, NoTokenAssumption
USE DEF viewerVars, gateVars, callVars, loaderVars, adapterVars, tokenVars,
        MaybeLoad, Outcomes, LoadState, State, Cancelled,
        IsCurrentLoadAttempt

\* A step of the composition is a step of the loads or leaves them alone.
LEMMA LoadsTakeTheirSteps == [PartNext]_<<vars, partVars>> => [Next]_vars
<1> SUFFICES ASSUME PartNext PROVE Next \/ UNCHANGED vars
  OBVIOUS
<1>1. ASSUME NEW l \in Loads, resuming = <<>>, InitialPatchSucceeds(l)
      PROVE  Next
  BY <1>1 DEF InitialPatchSucceeds, Next, ControllerStep, PatchStep
<1> QED
  BY <1>1 DEF PartNext, LoadsMove, PartsMove, PatchStarts, ResetPart,
              PatchCaptures, PatchSucceeds, PatchFails, LoadCaptures

\* setPartMaterial and resetPart leave the promises of load alone.
THEOREM LoadsAreUndisturbed == PartSafetySpec => SafetySpec
BY LoadsTakeTheirSteps, PTL DEF PartSafetySpec, SafetySpec

-----------------------------------------------------------------------------

LEMMA PartInitial == Init /\ PartInit => PartInv
BY DEF Init, PartInit, PartInv, PartTypeOK, PatchesHaveTarget,
       PatchesAreOfLive, OriginalIsOwn

\* The live scene changes in a commit only, and the load that commits has yet
\* to reset the overrides.
LEMMA SceneChangesInCommit ==
  ASSUME IInv, Next, liveScene' # liveScene
  PROVE  Committing'
<1>1. PICK l \in Loads : Publish(l)
  BY DEF Next, Request, LoadPreCancelled, LoadWaits, LoadStarts, Cancel,
         Attach, Detach, LoadResumes, LoaderStep, SourceAcquired,
         LoaderObservesCancellation, LoaderFails, ImportStarts,
         ImportTimesOut, ImportReturns, AdapterStep, AdapterFails,
         AdapterObservesCancellation, CommitRefusedByLoader,
         CommitSuperseded, CommitRefusedByToken, ControllerStep, ResultStep,
         PatchStep, SinkReturns, CancellationReturns, SettleStale, SettleCancelled, SettleFailed,
         FinalizationStarts, AuthoredPatchesApplied, InitialOverrideApplied,
         InitialOverridesDone, FinalizationThrows
<1>2. acceptedFinalization = NoLoad
  BY <1>1, NoGateBeforeCommit DEF Publish
<1>3. call[l] = "loading"
  BY <1>1 DEF Publish, ControllerAccepts, IInv, TypeOK, StagesAgree
<1> QED
  BY <1>1, <1>2, <1>3 DEF Publish, OpenedBy, Committing

\* A load that committed and has not yet finalized is the current attempt,
\* uncancelled, and cannot have failed.
LEMMA CommittingLoad ==
  ASSUME IInv, Committing
  PROVE  /\ acceptedFinalization \in Loads
         /\ activeLoadAttempt = acceptedFinalization
         /\ import[acceptedFinalization] = "published"
         /\ ~Cancelled(acceptedFinalization)
         /\ terminal[acceptedFinalization] \in {"none", "success"}
         /\ resuming = <<>>
<1> DEFINE a == acceptedFinalization
<1>1. a \in Loads /\ import[a] = "published" /\ resuming = <<>>
  BY DEF Committing, IInv, TypeOK, GateIsOwned
<1>2. activeLoadAttempt = a
  BY <1>1 DEF Committing, IInv, PublicationIsExclusive
<1>3. ~Cancelled(a)
  BY <1>1 DEF IInv, TypeOK, TokensAreClosed
<1>4. terminal[a] \in {"none", "success"}
  BY <1>1, <1>3 DEF IInv, TypeOK, StagesAgree
<1> QED
  BY <1>1, <1>2, <1>3, <1>4

\* A load that applies patches has committed, and holds the gate.
LEMMA PatchingLoad ==
  ASSUME IInv, NEW l \in Loads, call[l] \in {"authored", "initial"}
  PROVE  /\ acceptedFinalization = l
         /\ liveScene = l
         /\ ~Committing
BY DEF IInv, TypeOK, StagesAgree, PublicationIsExclusive, Committing

\* It leaves that place by resetting the overrides only.
LEMMA CommittingEndsWithReset ==
  ASSUME IInv, Next, Committing, ~Committing'
  PROVE  ForgetsOverrides
<1> DEFINE a == acceptedFinalization
<1> USE CommittingLoad DEF Committing
<1>1. ASSUME NEW l \in Loads, FinalizationStarts(l) PROVE ForgetsOverrides
  BY <1>1 DEF FinalizationStarts, ForgetsOverrides, IInv, TypeOK
<1>2. CASE call'[a] = call[a] /\ UNCHANGED acceptedFinalization
  BY <1>2
<1>3. ASSUME NEW l \in Loads, Request(l) PROVE FALSE
  BY <1>3, <1>2
  DEF Request, LoadPreCancelled, LoadWaits, LoadStarts, IInv, TypeOK
<1>4. ASSUME NEW l \in Loads, LoaderStep(l) PROVE FALSE
  BY <1>4, <1>2
  DEF LoaderStep, SourceAcquired, LoaderObservesCancellation, LoaderFails,
      ImportStarts, ImportTimesOut, ImportReturns
<1>5. ASSUME NEW l \in Loads, AdapterStep(l) PROVE FALSE
  BY <1>5, <1>2, NoGateBeforeCommit
  DEF AdapterStep, AdapterFails, AdapterObservesCancellation,
      CommitRefusedByLoader, CommitSuperseded, CommitRefusedByToken, Publish
<1>6. ASSUME NEW l \in Loads, ControllerStep(l) PROVE ForgetsOverrides
  <2>1. CASE SinkReturns(l) \/ CancellationReturns(l)
    BY <2>1, <1>2 DEF SinkReturns, CancellationReturns
  <2>2. CASE SettleStale(l)
    <3>1. l # a /\ heldFinalization[l] = NoLoad
      BY <2>2 DEF SettleStale, IInv, GateIsOwned
    <3> QED
      BY <2>2, <3>1, <1>2 DEF SettleStale, Finish, EndFinalization, IInv, TypeOK
  <2>3. CASE SettleCancelled(l) \/ SettleFailed(l)
    BY <2>3 DEF SettleCancelled, SettleFailed
  <2>4. CASE \/ AuthoredPatchesApplied(l) \/ InitialOverrideApplied(l)
             \/ InitialOverridesDone(l) \/ FinalizationThrows(l)
    BY <2>4, PatchingLoad
    DEF AuthoredPatchesApplied, InitialOverrideApplied, InitialOverridesDone,
        FinalizationThrows
  <2> QED
    BY <1>6, <1>1, <2>1, <2>2, <2>3, <2>4
    DEF ControllerStep, ResultStep, PatchStep
<1>7. CASE Attach \/ Detach \/ LoadResumes \/ \E t \in Tokens : Cancel(t)
  BY <1>7, <1>2 DEF Attach, Detach, LoadResumes, Cancel
<1> QED
  BY <1>3, <1>4, <1>5, <1>6, <1>7 DEF Next

-----------------------------------------------------------------------------

\* Loads keep the part: the commit forgets the original states in the step
\* that changes the scene, and the overrides are reset before they count.
LEMMA LoadsMoveStep ==
  ASSUME IInv, PartInv, LoadsMove
  PROVE  PartInv'
<1> USE DEF LoadsMove, OriginalsAfter
<1>1. PartTypeOK'
  BY DEF PartInv, PartTypeOK
<1>2. PatchesHaveTarget'
  BY DEF PartInv, PatchesHaveTarget
<1>3. PatchesAreOfLive'
  <2>1. CASE Committing
    BY <2>1, CommittingEndsWithReset DEF PatchesAreOfLive
  <2>2. CASE ~Committing /\ liveScene' = liveScene
    BY <2>2 DEF PartInv, PatchesAreOfLive
  <2>3. CASE liveScene' # liveScene
    BY <2>3, SceneChangesInCommit DEF PatchesAreOfLive
  <2> QED
    BY <2>1, <2>2, <2>3
<1>4. OriginalIsOwn'
  BY DEF PartInv, OriginalIsOwn
<1> QED
  BY <1>1, <1>2, <1>3, <1>4 DEF PartInv

\* What is captured is the part's own state, unless the patch is late.
LEMMA CapturedIsOwn ==
  ASSUME OriginalIsOwn, PartTypeOK, NEW l \in Loads
  PROVE  /\ Captured(l) \in Loads
         /\ late = {} /\ l = liveScene => Captured(l) = liveScene
BY DEF OriginalIsOwn, PartTypeOK, Captured

\* Calls of the application keep it.
LEMMA PartCallStep ==
  ASSUME IInv, PartInv, NEW p \in PartCalls,
         \/ PatchStarts(p) \/ ResetPart(p)
         \/ PatchCaptures(p) \/ PatchSucceeds(p) \/ PatchFails(p)
  PROVE  PartInv'
<1> USE DEF PartInv, PartTypeOK
<1>1. liveScene \in MaybeLoad /\ UNCHANGED vars
  BY DEF IInv, TypeOK, PatchStarts, ResetPart, PatchCaptures, PatchSucceeds,
         PatchFails
<1>2. UNCHANGED <<liveScene, acceptedFinalization, call, loadState>>
  BY <1>1 DEF vars
<1>3. CASE PatchStarts(p)
  <2>1. PartTypeOK'
    BY <1>1, <1>3 DEF PatchStarts
  <2>2. /\ PatchesHaveTarget'
        /\ \A q \in late : q \in late' /\ target'[q] = target[q]
    BY <1>1, <1>3 DEF PatchStarts, PatchesHaveTarget
  <2>3. PatchesAreOfLive' /\ OriginalIsOwn'
    BY <1>2, <1>3, <2>2
    DEF PatchStarts, PatchesAreOfLive, OriginalIsOwn, Committing
  <2> QED
    BY <2>1, <2>2, <2>3
<1>4. CASE ResetPart(p)
  <2>1. PartTypeOK' /\ OriginalIsOwn'
    BY <1>1, <1>2, <1>4 DEF ResetPart, OriginalIsOwn
  <2>2. PatchesHaveTarget' /\ PatchesAreOfLive'
    BY <1>4 DEF ResetPart, PatchesHaveTarget, PatchesAreOfLive
  <2> QED
    BY <2>1, <2>2
<1>5. CASE PatchCaptures(p)
  <2>1. target[p] \in Loads /\ Captured(target[p]) \in Loads
    BY <1>5, CapturedIsOwn DEF PatchCaptures, PatchesHaveTarget
  <2>2. PartTypeOK' /\ PatchesHaveTarget'
    BY <1>5, <2>1 DEF PatchCaptures, PatchesHaveTarget, LateBy
  <2>3. PatchesAreOfLive'
    BY <1>2, <1>5 DEF PatchCaptures, PatchesAreOfLive, Committing, LateBy
  <2>4. OriginalIsOwn'
    BY <1>2, <1>5, <2>1, CapturedIsOwn
    DEF PatchCaptures, OriginalIsOwn, LateBy
  <2> QED
    BY <2>2, <2>3, <2>4
<1>6. CASE PatchSucceeds(p)
  <2>1. target[p] \in Loads
    BY <1>6 DEF PatchSucceeds, PatchesHaveTarget
  <2>2. PartTypeOK' /\ PatchesHaveTarget'
    BY <1>6, <2>1 DEF PatchSucceeds, PatchesHaveTarget, LateBy
  <2>3. PatchesAreOfLive'
    BY <1>2, <1>6 DEF PatchSucceeds, PatchesAreOfLive, Committing, LateBy
  <2>4. OriginalIsOwn'
    BY <1>2, <1>6 DEF PatchSucceeds, OriginalIsOwn, LateBy
  <2> QED
    BY <2>2, <2>3, <2>4
<1>7. CASE PatchFails(p)
  <2>1. PartTypeOK' /\ PatchesHaveTarget'
    BY <1>7 DEF PatchFails, PatchesHaveTarget
  <2>2. PatchesAreOfLive' /\ OriginalIsOwn'
    BY <1>2, <1>7 DEF PatchFails, PatchesAreOfLive, Committing, OriginalIsOwn
  <2> QED
    BY <2>1, <2>2
<1> QED
  BY <1>3, <1>4, <1>5, <1>6, <1>7

\* What is captured during a load is the state of the scene it committed, and
\* what is recorded is a patch of its own model.
LEMMA LoadPatchStep ==
  ASSUME IInv, PartInv, NEW l \in Loads,
         LoadCaptures(l) \/ InitialPatchSucceeds(l)
  PROVE  PartInv'
<1> USE DEF PartInv, PartTypeOK
<1>1. /\ liveScene = l /\ ~Committing
      /\ UNCHANGED <<liveScene, acceptedFinalization, call>>
  BY PatchingLoad
  DEF LoadCaptures, InitialPatchSucceeds, InitialOverrideApplied, vars
<1>2. CASE LoadCaptures(l)
  <2>1. PartTypeOK' /\ OriginalIsOwn'
    BY <1>1, <1>2, CapturedIsOwn DEF LoadCaptures, OriginalIsOwn
  <2>2. PatchesHaveTarget' /\ PatchesAreOfLive'
    BY <1>1, <1>2
    DEF LoadCaptures, PatchesHaveTarget, PatchesAreOfLive, Committing
  <2> QED
    BY <2>1, <2>2
<1>3. CASE InitialPatchSucceeds(l)
  <2>1. PartTypeOK' /\ OriginalIsOwn'
    BY <1>1, <1>3 DEF InitialPatchSucceeds, OriginalIsOwn
  <2>2. PatchesHaveTarget' /\ PatchesAreOfLive'
    BY <1>1, <1>3
    DEF InitialPatchSucceeds, PatchesHaveTarget, PatchesAreOfLive, Committing
  <2> QED
    BY <2>1, <2>2
<1> QED
  BY <1>2, <1>3

LEMMA PartStep == IInv /\ PartInv /\ [PartNext]_<<vars, partVars>> => PartInv'
<1> SUFFICES ASSUME IInv, PartInv, [PartNext]_<<vars, partVars>> PROVE PartInv'
  OBVIOUS
<1>1. CASE UNCHANGED <<vars, partVars>>
  BY <1>1
  DEF vars, partVars, PartInv, PartTypeOK, PatchesHaveTarget,
      PatchesAreOfLive, OriginalIsOwn, Committing
<1>2. CASE PartsMove
  BY <1>2, PartCallStep, LoadPatchStep DEF PartsMove
<1> QED
  BY <1>1, <1>2, LoadsMoveStep DEF PartNext

\* The invariant of the composition: that of the loads, and that the part's
\* patches and original state are those of the live scene.
THEOREM PartInvariant == PartSafetySpec => [](IInv /\ PartInv)
<1>1. PartSafetySpec => []IInv
  BY LoadsAreUndisturbed, InvariantHolds, PTL
<1> QED
  BY <1>1, PartInitial, PartStep, PTL DEF PartSafetySpec

\* Whatever is patched, reset and loaded in between: a reported success has
\* only overrides of its own model and of late patches, and without a late
\* patch no part shows another model's state.
THEOREM PartsAreOwn == PartSafetySpec => []PartIsOwn
<1>1. SafetySpec => []SuccessIsCoherent
  BY SuccessCoherent
<1>2. ASSUME IInv, PartInv, SuccessIsCoherent PROVE PartIsOwn
  <2>1. OriginalIsOwn
    BY <1>2 DEF PartInv
  <2>2. ASSUME loadState.status = "success" PROVE ~Committing
    BY <1>2, <2>2, CommittingLoad
    DEF IInv, StateFollowsAttempt, Running, Committing
  <2> QED
    BY <1>2, <2>1, <2>2
    DEF PartInv, PatchesAreOfLive, PartIsOwn, SuccessIsCoherent
<1> QED
  BY <1>1, <1>2, LoadsAreUndisturbed, PartInvariant, PTL
=============================================================================
