------------------------------- MODULE MCTools -------------------------------
(* The three recorders of evidence side by side: invocations that share a   *)
(* run root, a staging directory, or the generated harness.  An instance is *)
(* one assignment of arguments in one of the three; the other two rest.     *)
EXTENDS CaptureRoot, FixtureStaging, HarnessScaffold, TLC

CONSTANTS
  m1, m2, r1, r2, r3, r4, phone, other, h0, h1, h2,
  s1, s2, s3, gltf, license, pack, asset, assetLicense, coat, glb,
  g1, g2, g3, main, state, model, project, widget, v1, v2

Base == [fixed |-> h1, tool |-> h1]
MCSource == {Base, [Base EXCEPT !.fixed = h2], [Base EXCEPT !.tool = h0]}

Args(op, m, d) == [op |-> op, model |-> m, udid |-> d]
Rests == Args("none", m1, phone)
Capture(m) == Args("capture", m, phone)
On(op) == Args(op, m1, phone)
Four(a, b, c, d) == (r1 :> a) @@ (r2 :> b) @@ (r3 :> c) @@ (r4 :> d)
NoRunner == [r \in Runner |-> Rests]

(* Two captures of one model, one invocation of which may be killed. *)
SameModel  == Four(Capture(m1), Capture(m1), On("summarize"), Rests)
(* A late capture of the deferred model races the summary that defers it. *)
Deferral   == Four(Capture(m1), Capture(m2), On("summarize"), Rests)
(* Sources are edited between the capture, the summary and the audits. *)
Summarized == Four(Capture(m1), On("summarize"), On("audit"), On("recheck"))
Planned    == Four(Capture(m1), Args("plan", m2, phone), Rests, Rests)
TwoPhones  == Four(Capture(m1), Args("capture", m2, other), On("plan"), Rests)
Finalized  == Four(Capture(m1), Capture(m2), On("finalize"), On("audit"))
Pair       == Four(Capture(m1), Capture(m2), On("finalize"), Rests)

MCWork == {SameModel, Deferral, Summarized, Planned, TwoPhones,
           Finalized, Pair, NoRunner}

Events(e, k) == edits = e /\ kills = k

RootInstance ==
  \/ /\ family = "candidate"
     /\ \/ work = SameModel /\ Events(0, 1)
        \/ work \in {Summarized, Planned} /\ Events(1, 0)
        \/ work \in {Deferral, TwoPhones, Finalized} /\ Events(0, 0)
  \/ family = "native" /\ work = Pair /\ Events(0, 0)

MCOrder ==
  [j \in Job |-> CASE j = "sheen" -> <<gltf, license, pack>>
                   [] j = "khronos" -> <<asset, assetLicense>>
                   [] j = "clearcoat" -> <<coat>>
                   [] j = "a1b32" -> <<glb>>
                   [] OTHER -> <<>>]

Stagers(a, b, c) == (s1 :> a) @@ (s2 :> b) @@ (s3 :> c)
NoStager == Stagers("none", "none", "none")

StagingInstance ==
  job \in {Stagers("sheen", "sheen", "verify"), Stagers("a1b32", "a1b32", "none"),
           Stagers("khronos", "clearcoat", "none")}

Makers(a, b, c) == (g1 :> a) @@ (g2 :> b) @@ (g3 :> c)
NoMaker == Makers("none", "none", "none")

HarnessInstance ==
  \/ task = Makers("generate", "generate", "none") /\ drift = 0
  \/ task = Makers("generate", "none", "validate") /\ drift = 1

NoRoot == family = "candidate" /\ work = NoRunner /\ Events(0, 0)
NoStaging == job = NoStager /\ sound = {}
NoHarness == task = NoMaker /\ drift = 0

ToolsInit ==
  /\ \/ RootInstance /\ NoStaging /\ NoHarness
     \/ NoRoot /\ StagingInstance /\ NoHarness
     \/ NoRoot /\ NoStaging /\ HarnessInstance
  /\ source = Base /\ sources = [p \in Tracked |-> v1]
  /\ Init /\ StagingInit /\ HarnessInit

ToolsNext ==
  \/ Next /\ UNCHANGED <<stagingVars, harnessVars>>
  \/ StagingNext /\ UNCHANGED <<vars, harnessVars>>
  \/ HarnessNext /\ UNCHANGED <<vars, stagingVars>>

ToolsSpec ==
  /\ ToolsInit /\ [][ToolsNext]_<<vars, stagingVars, harnessVars>>
  /\ Fairness
=============================================================================
