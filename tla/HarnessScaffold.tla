--------------------------- MODULE HarnessScaffold --------------------------
(***************************************************************************)
(* The generated Flutter harness of the captures,                          *)
(* tools/generate_plan018_ios_harness.py: invocations that generate the    *)
(* output directory, or validate it.  `flutter create` scaffolds it once,  *)
(* when its Xcode project is missing; the sources are rendered from        *)
(* tracked templates and the frozen inputs are copied, each with a plain   *)
(* write; then everything but the scaffold is compared.                    *)
(*                                                                         *)
(* The frozen inputs are pinned by hashes in the tool, and verified before *)
(* they are used.  The templates are not pinned.                           *)
(***************************************************************************)
EXTENDS Naturals, FiniteSets

CONSTANTS
  Maker,        \* the invocations: a bound on their number
  Rendered,     \* _expected_rendered_files
  Copied,       \* the frozen inputs: states, HDR and models
  States,       \* those of them that are states
  Project,      \* ios/Runner.xcodeproj/project.pbxproj
  WidgetTest,   \* test/widget_test.dart
  Version,      \* what a source file may say
  Pinned,       \* what the hashes of the frozen inputs pin
  MaxDrift      \* bound on edits of the sources

Tracked == Rendered \cup Copied
Path == Tracked \cup {Project, WidgetTest}

(* What a file may be: what a source said; as flutter create made it; with *)
(* our bundle identifier, or our text; a part of the project with our      *)
(* identifier; or a part of what it should be.                             *)
Content == Version \cup {"absent", "foreign", "ours", "short", "torn"}

ASSUME PathAssumption ==
  /\ Project # WidgetTest
  /\ {Project, WidgetTest} \cap Tracked = {}
  /\ Rendered \cap Copied = {} /\ States \subseteq Copied
ASSUME VersionAssumption ==
  /\ Pinned \in Version
  /\ Version \cap {"absent", "foreign", "ours", "short", "torn"} = {}
ASSUME DriftAssumption == MaxDrift \in Nat

VARIABLES
  task,      \* what each invocation is to do
  sources,   \* what the templates render to, and the frozen inputs, now
  drift,     \* how many edits of them are still to come, at most
  place,     \* where each invocation is; it stays there when it is stopped
  outcome,   \* how it ended
  creators,  \* those whose `flutter create` runs
  want,      \* what it is to write, or compares with
  todo,      \* the files it has still to write, or to compare
  open,      \* the file it writes
  shared,    \* those that write, or wrote, a file while another did
  content,   \* the files of the output
  rest       \* whether all else that `flutter create` makes is there

mine == <<place, outcome, want, todo, open, shared>>
output == <<content, rest, creators>>
harnessVars == <<task, sources, drift, mine, output>>

Place == {"idle", "scaffold", "create", "render", "write", "writing", "patch",
          "validate", "check"}

HarnessTypeOK ==
  /\ task \in [Maker -> {"none", "generate", "validate"}]
  /\ sources \in [Tracked -> Version]
  /\ drift \in 0..MaxDrift
  /\ place \in [Maker -> Place]
  /\ outcome \in [Maker -> {"none", "ok", "failed"}]
  /\ creators \in SUBSET Maker
  /\ want \in [Maker -> [Path -> Content]]
  /\ todo \in [Maker -> SUBSET Path]
  /\ open \in [Maker -> Path]
  /\ shared \in SUBSET Maker
  /\ content \in [Path -> Content]
  /\ rest \in BOOLEAN

HarnessInit ==
  /\ task \in [Maker -> {"none", "generate", "validate"}]
  /\ sources \in [Tracked -> Version]
  /\ drift \in 0..MaxDrift
  /\ place = [g \in Maker |-> "idle"]
  /\ outcome = [g \in Maker |-> "none"]
  /\ creators = {}
  /\ want = [g \in Maker |-> [p \in Path |-> "ours"]]
  /\ todo = [g \in Maker |-> {}]
  /\ open = [g \in Maker |-> Project]
  /\ shared = {}
  /\ content = [p \in Path |-> "absent"]
  /\ rest = FALSE

-----------------------------------------------------------------------------

InPlace(g, s) == outcome[g] = "none" /\ place[g] = s
Moves(g, s) == place' = [place EXCEPT ![g] = s]

(* Both states, the inventories they define, the dependency pin and the    *)
(* frozen sources are verified before anything is touched.                 *)
FrozenSourcesVerified == \A p \in Copied : sources[p] = Pinned

(* What the files are to be.                                               *)
Expected ==
  [p \in Path |-> IF p \in Rendered THEN sources[p]
                  ELSE IF p \in Copied THEN Pinned ELSE "ours"]

StartGenerate(g) ==
  /\ InPlace(g, "idle") /\ task[g] = "generate"
  /\ FrozenSourcesVerified
  /\ Moves(g, "scaffold")
  /\ UNCHANGED <<task, sources, drift, outcome, want, todo, open, shared, output>>

EnsureIosScaffold(g) ==
  /\ InPlace(g, "scaffold")
  /\ \/ content[Project] # "absent" /\ Moves(g, "render") /\ UNCHANGED creators
     \/ content[Project] = "absent" /\ Moves(g, "create")
        /\ creators' = creators \cup {g}
  /\ UNCHANGED <<task, sources, drift, outcome, want, todo, open, shared,
                 content, rest>>

(* `flutter create` keeps what is there and makes the project before or    *)
(* after the rest.  It outlives an invocation that is killed.              *)
FlutterCreates(g) ==
  /\ g \in creators
  /\ \/ /\ content[Project] = "absent"
        /\ content' = [content EXCEPT ![Project] = "foreign"]
        /\ UNCHANGED rest
     \/ /\ ~rest /\ rest' = TRUE
        /\ content' \in {content, [content EXCEPT ![WidgetTest] = "foreign"]}
  /\ UNCHANGED <<task, sources, drift, mine, creators>>

\* Seeded bug: the exit code is not looked at.
FlutterReturns(g) ==
  /\ g \in creators
  /\ creators' = creators \ {g}
  /\ IF outcome[g] = "none" THEN Moves(g, "render") ELSE UNCHANGED place
  /\ UNCHANGED <<task, sources, drift, outcome, want, todo, open, shared,
                 content, rest>>

(* Its exit code tells success when it has made everything. *)
FlutterSucceeds(g) ==
  /\ g \in creators /\ content[Project] # "absent" /\ rest
  /\ creators' = creators \ {g}
  /\ IF outcome[g] = "none" THEN Moves(g, "render") ELSE UNCHANGED place
  /\ UNCHANGED <<task, sources, drift, outcome, want, todo, open, shared,
                 content, rest>>

FlutterFails(g) ==
  /\ g \in creators
  /\ creators' = creators \ {g}
  /\ outcome' = [outcome EXCEPT ![g] = "failed"]
  /\ UNCHANGED <<task, sources, drift, place, want, todo, open, shared,
                 content, rest>>

ReadTemplates(g) ==
  /\ InPlace(g, "render")
  /\ want' = [want EXCEPT ![g] = Expected]
  /\ todo' = [todo EXCEPT ![g] = Path]
  /\ Moves(g, "write")
  /\ UNCHANGED <<task, sources, drift, outcome, open, shared, output>>

(* g has p open, or was stopped while it had. *)
HasOpen(g, p) == place[g] = "writing" /\ open[g] = p

(* write_bytes and write_text truncate first. *)
Opens(g, p, data) ==
  LET others == {h \in Maker \ {g} : HasOpen(h, p)} IN
  /\ content' = [content EXCEPT ![p] = "torn"]
  /\ open' = [open EXCEPT ![g] = p]
  /\ want' = [want EXCEPT ![g][p] = data]
  /\ shared' = IF others = {} THEN shared \ {g} ELSE shared \cup others \cup {g}
  /\ Moves(g, "writing")
  /\ UNCHANGED <<task, sources, drift, outcome, todo, rest, creators>>

(* Nothing is to be written to p. *)
Leaves(g, p) ==
  /\ todo' = [todo EXCEPT ![g] = @ \ {p}]
  /\ UNCHANGED <<task, sources, drift, place, outcome, want, open, shared, output>>

WriteBytes(g, p, data) ==
  \/ content[p] # data /\ Opens(g, p, data)
  \/ content[p] = data /\ Leaves(g, p)

WriteRendered(g) ==
  /\ InPlace(g, "write")
  /\ \E p \in todo[g] \cap Rendered : WriteBytes(g, p, want[g][p])

(* The frozen inputs are read again to be copied. *)
CopyFrozen(g) ==
  /\ InPlace(g, "write") /\ todo[g] \cap Rendered = {}
  /\ \E p \in todo[g] \cap Copied : WriteBytes(g, p, sources[p])

RewriteWidgetTest(g) ==
  /\ InPlace(g, "write") /\ todo[g] = {WidgetTest, Project}
  /\ \/ content[WidgetTest] # "absent" /\ WriteBytes(g, WidgetTest, "ours")
     \/ content[WidgetTest] = "absent" /\ Leaves(g, WidgetTest)

(* The identifiers are replaced in what is read, of a torn project in a    *)
(* part of it; without one it raises.                                      *)
ReadProject(g) ==
  /\ InPlace(g, "write") /\ todo[g] = {Project}
  /\ \E patched \in {"ours", "short"} :
       /\ patched = "ours" => content[Project] \in {"foreign", "ours"}
       /\ patched = "short" => content[Project] \in {"short", "torn"}
       /\ want' = [want EXCEPT ![g][Project] = patched]
  /\ Moves(g, "patch")
  /\ UNCHANGED <<task, sources, drift, outcome, todo, open, shared, output>>

PatchBundleIdentifiers(g) ==
  InPlace(g, "patch") /\ Opens(g, Project, want[g][Project])

(* The end of a write.  If another had the file open, it may be what one   *)
(* of them wrote, or a mixture.                                            *)
WriteEnds(g) ==
  LET p == open[g] IN
  /\ InPlace(g, "writing")
  /\ \E c \in {want[g][p], "torn", content[p]} :
       /\ g \notin shared => c = want[g][p]
       /\ content' = [content EXCEPT ![p] = c]
  /\ todo' = [todo EXCEPT ![g] = @ \ {p}]
  /\ Moves(g, "write")
  /\ UNCHANGED <<task, sources, drift, outcome, want, open, shared, rest, creators>>

(* validate_output verifies and reads all sources again. *)
ReadSources(g) ==
  /\ \/ InPlace(g, "idle") /\ task[g] = "validate"
     \/ InPlace(g, "write") /\ todo[g] = {}
  /\ FrozenSourcesVerified
  /\ want' = [want EXCEPT ![g] = Expected]
  /\ todo' = [todo EXCEPT ![g] = Path \ {WidgetTest}]
  /\ Moves(g, "check")
  /\ UNCHANGED <<task, sources, drift, outcome, open, shared, output>>

(* A state is compared with the state as it is by now, the HDR and the     *)
(* models with their hashes, the rest with what was rendered.              *)
CompareFile(g) ==
  /\ InPlace(g, "check")
  /\ \E p \in todo[g] \ {Project} :
       /\ content[p] = IF p \in States THEN sources[p] ELSE want[g][p]
       /\ want' = [want EXCEPT ![g][p] = content[p]]
       /\ todo' = [todo EXCEPT ![g] = @ \ {p}]
  /\ UNCHANGED <<task, sources, drift, place, outcome, open, shared, output>>

(* Of the project only its identifiers are looked at, which a torn one may *)
(* have.  The lock and package_config.json of `flutter pub get` are paired *)
(* or refused; nothing here writes them.                                   *)
Validated(g) ==
  /\ InPlace(g, "check") /\ todo[g] = {Project}
  /\ content[Project] \in {"ours", "short", "torn"}
  /\ outcome' = [outcome EXCEPT ![g] = "ok"]
  /\ UNCHANGED <<task, sources, drift, place, want, todo, open, shared, output>>

(* A check or an OSError; or the invocation is killed. *)
MakerStops(g) ==
  /\ outcome[g] = "none" /\ task[g] # "none"
  /\ outcome' = [outcome EXCEPT ![g] = "failed"]
  /\ UNCHANGED <<task, sources, drift, place, want, todo, open, shared, output>>

(* Somebody edits, or restores, a template, the root's dependencies or a   *)
(* frozen input.                                                           *)
EditTracked ==
  /\ drift > 0
  /\ \E p \in Tracked, v \in Version :
       v # sources[p] /\ sources' = [sources EXCEPT ![p] = v]
  /\ drift' = drift - 1
  /\ UNCHANGED <<task, mine, output>>

MakerStep(g) ==
  \/ StartGenerate(g) \/ EnsureIosScaffold(g)
  \/ FlutterCreates(g) \/ FlutterSucceeds(g) \/ FlutterFails(g)
  \/ ReadTemplates(g) \/ WriteRendered(g) \/ CopyFrozen(g) \/ RewriteWidgetTest(g)
  \/ ReadProject(g) \/ PatchBundleIdentifiers(g) \/ WriteEnds(g)
  \/ ReadSources(g) \/ CompareFile(g) \/ Validated(g) \/ MakerStops(g)

HarnessNext == (\E g \in Maker : MakerStep(g)) \/ EditTracked

HarnessSpec == HarnessInit /\ [][HarnessNext]_harnessVars

-----------------------------------------------------------------------------
(* The scaffold is complete, or a flutter create left it so that was not   *)
(* waited for to its end or that returned a nonzero code: nothing completes *)
(* it afterwards, because the project is what _ensure_ios_scaffold looks   *)
(* for.                                                                    *)
ScaffoldCompleteUnlessCut ==
  content[Project] # "absent" => rest \/ \E g \in Maker : place[g] = "create"

(* h is a generator that has opened p, or had no need to. *)
Passed(h, p) ==
  \/ place[h] \in {"write", "writing", "patch"} /\ p \notin todo[h]
  \/ place[h] = "check" /\ task[h] = "generate"
  \/ HasOpen(h, p)

(* What a validation has compared still is as it was, but for the files    *)
(* that another generator wrote.                                           *)
ComparedUnlessRewritten ==
  \A g \in Maker : place[g] = "check" =>
    \A p \in Path \ ({Project, WidgetTest} \cup todo[g]) :
      content[p] = want[g][p] \/ \E h \in Maker \ {g} : Passed(h, p)

(* What an OK of the generator or the validator vouches for                *)
(* (validate_output, 611-764): nothing is missing, nothing differs but by  *)
(* what other generators, cut or at work, have done, and the frozen inputs *)
(* are the pinned ones, except for a state that was edited meanwhile.      *)
HarnessIsValidated ==
  /\ ScaffoldCompleteUnlessCut
  /\ ComparedUnlessRewritten
  /\ \A g \in Maker : outcome[g] = "ok" =>
       /\ \A p \in Path \ {WidgetTest} : content[p] # "absent"
       /\ \A p \in Copied \ States : want[g][p] = Pinned
=============================================================================
