---------------------------- MODULE PartMaterials ----------------------------
(***************************************************************************)
(* Material patches of one part beside the loads: setPartMaterial and      *)
(* resetPart of the controller (viewer_controller.dart) and what the       *)
(* adapter remembers to undo a patch (flutter_scene_adapter.dart).  A      *)
(* patch resolves its part in the scene that is live, awaits its textures, *)
(* captures the part's original state, perhaps awaits a shader, and is     *)
(* recorded; nothing ties it to the model it was meant for.                *)
(*                                                                         *)
(* All models have the part, at one address.  Its original state stands    *)
(* for the model it came with.  What the adapter does after its last await *)
(* and what the controller records follow each other in microtasks, before *)
(* a publication can get to its own reset of the overrides: one step.  A   *)
(* call that is refused at once changes nothing.                           *)
(***************************************************************************)
EXTENDS LoadPublication

CONSTANT PartCalls  \* the calls of setPartMaterial and resetPart

VARIABLES
  partCall,  \* where each call is
  target,    \* the scene in which a patch found its part
  late,      \* patches that went on when that scene was not live any more
  patchesOf, \* the models whose patches _materialOverrides holds of the part
  original,  \* whose state _originalMaterials holds of the part, or NoLoad
  partOf     \* whose state the part of each scene comes from

partVars == <<partCall, target, late, patchesOf, original, partOf>>

PartTypeOK ==
  /\ partCall \in [PartCalls -> {"idle", "patching", "captured", "patched",
                                 "failed", "reset"}]
  /\ target \in [PartCalls -> MaybeLoad]
  /\ late \in SUBSET PartCalls
  /\ patchesOf \in SUBSET Loads
  /\ original \in MaybeLoad
  /\ partOf \in [Loads -> Loads]

PartInit ==
  /\ partCall = [p \in PartCalls |-> "idle"]
  /\ target = [p \in PartCalls |-> NoLoad]
  /\ late = {}
  /\ patchesOf = {}
  /\ original = NoLoad
  /\ partOf = [l \in Loads |-> l]

\* putIfAbsent: the first patch since the last commit or reset captures.
Captured(l) == IF original = NoLoad THEN partOf[l] ELSE original

LateBy(p) == IF target[p] = liveScene THEN late ELSE late \cup {p}

-----------------------------------------------------------------------------
(* Calls of the application.                                               *)

\* setPartMaterial up to the adapter's first await.
PatchStarts(p) ==
  /\ partCall[p] = "idle"
  /\ attached
  /\ liveScene # NoLoad
  /\ partCall' = [partCall EXCEPT ![p] = "patching"]
  /\ target' = [target EXCEPT ![p] = liveScene]
  /\ UNCHANGED <<vars, late, patchesOf, original, partOf>>

\* The textures are there.
PatchCaptures(p) ==
  /\ partCall[p] = "patching"
  /\ partCall' = [partCall EXCEPT ![p] = "captured"]
  /\ original' = Captured(target[p])
  /\ late' = LateBy(p)
  /\ UNCHANGED <<vars, target, patchesOf, partOf>>

\* The part is patched and the controller records it.
PatchSucceeds(p) ==
  /\ partCall[p] = "captured"
  /\ partCall' = [partCall EXCEPT ![p] = "patched"]
  /\ patchesOf' = patchesOf \cup {target[p]}
  /\ late' = LateBy(p)
  /\ UNCHANGED <<vars, target, original, partOf>>

\* A texture or a shader is missing: what was captured stays.
PatchFails(p) ==
  /\ partCall[p] \in {"patching", "captured"}
  /\ partCall' = [partCall EXCEPT ![p] = "failed"]
  /\ UNCHANGED <<vars, target, late, patchesOf, original, partOf>>

\* resetPart has no await of its own: what was captured is written to the part
\* of the live scene, geometry and material, and the override is forgotten.
ResetPart(p) ==
  /\ partCall[p] = "idle"
  /\ attached
  /\ liveScene # NoLoad
  /\ partCall' = [partCall EXCEPT ![p] = "reset"]
  /\ partOf' = IF original = NoLoad
                 THEN partOf ELSE [partOf EXCEPT ![liveScene] = original]
  /\ original' = NoLoad
  /\ patchesOf' = {}
  /\ UNCHANGED <<vars, target, late>>

-----------------------------------------------------------------------------
(* What the loads do to the part.                                          *)

\* An authored patch or an initial override captures, too.
LoadCaptures(l) ==
  /\ call[l] \in {"authored", "initial"}
  /\ original' = Captured(liveScene)
  /\ UNCHANGED <<vars, partCall, target, late, patchesOf, partOf>>

\* An initial override is recorded; those of other parts do not matter here.
InitialPatchSucceeds(l) ==
  /\ InitialOverrideApplied(l)
  /\ patchesOf' = patchesOf \cup {l}
  /\ UNCHANGED <<partCall, target, late, original, partOf>>

\* Seeded bug: the commit keeps the original states of the previous scene.
OriginalsKept == original

\* The commit forgets the original states.
OriginalsAfter == IF liveScene' = liveScene THEN original ELSE NoLoad

\* resetAll, where a load finalizes or fails.
ForgetsOverrides ==
  \/ \E l \in Loads : call[l] = "loading" /\ call'[l] = "authored"
  \/ /\ lastSettledLoadState' # lastSettledLoadState
     /\ lastSettledLoadState'.status = "error"

\* A step of the loads, with its effect on the part.
LoadsMove ==
  /\ Next
  /\ original' = OriginalsAfter
  /\ patchesOf' = IF ForgetsOverrides THEN {} ELSE patchesOf
  /\ UNCHANGED <<partCall, target, late, partOf>>

PartsMove ==
  \/ \E p \in PartCalls : PatchStarts(p) \/ ResetPart(p)
  \/ /\ resuming = <<>>
     /\ \/ \E p \in PartCalls :
             PatchCaptures(p) \/ PatchSucceeds(p) \/ PatchFails(p)
        \/ \E l \in Loads : LoadCaptures(l) \/ InitialPatchSucceeds(l)

PartNext == LoadsMove \/ PartsMove

PartSafetySpec == Init /\ PartInit /\ [][PartNext]_<<vars, partVars>>
PartSpec == PartSafetySpec /\ Fairness

-----------------------------------------------------------------------------
(* Properties.                                                             *)

\* The original state that is remembered is that of the live scene, and no
\* reset ever gave a part another model's, unless a patch went on after
\* another model was published.
OriginalIsOwn ==
  late = {} =>
    /\ original \in {NoLoad, liveScene}
    /\ \A l \in Loads : partOf[l] = l

\* A success shows the part of its own model: the overrides that the
\* controller reports were made for it, but for those of such late patches,
\* and a reset gives the part its own state back.
PartIsOwn ==
  /\ loadState.status = "success" =>
       patchesOf \subseteq {loadState.source} \cup {target[p] : p \in late}
  /\ OriginalIsOwn

\* What docs/PROJECT_CHARTER.md and README.md promise of a reset: it restores
\* the original material, which is that of the model the part belongs to.
ResetRestoresOriginal ==
  [][\A p \in PartCalls :
       partCall[p] = "idle" /\ partCall'[p] = "reset" =>
         partOf'[liveScene] = liveScene]_<<vars, partVars>>

-----------------------------------------------------------------------------
(* The inductive invariant behind PartIsOwn, beside IInv of the loads.     *)

\* From its commit to its reset of the overrides a load has those of the model
\* before.
Committing == /\ acceptedFinalization # NoLoad
              /\ call[acceptedFinalization] = "loading"

PatchesAreOfLive ==
  ~Committing => patchesOf \subseteq {liveScene} \cup {target[p] : p \in late}

PatchesHaveTarget ==
  \A p \in PartCalls :
    /\ partCall[p] \in {"patching", "captured", "patched"} =>
         target[p] \in Loads
    /\ p \in late => partCall[p] \in {"captured", "patched", "failed"}

PartInv ==
  PartTypeOK /\ PatchesHaveTarget /\ PatchesAreOfLive /\ OriginalIsOwn
=============================================================================
