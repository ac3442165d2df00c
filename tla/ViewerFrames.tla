----------------------------- MODULE ViewerFrames -----------------------------
(***************************************************************************)
(* When the viewer widget draws: the adaptive render scheduler             *)
(* (render_scheduler.dart), the widget's frame callback, its rebuilds, its *)
(* gestures and its reaction to the controller (viewer_widget.dart).  The  *)
(* widget keeps its controller and its adapter.                            *)
(*                                                                         *)
(* Everything runs on Flutter's UI thread; an action is one callback.  The *)
(* engine's side is the frame: transient callbacks, the build of dirty     *)
(* elements, post-frame callbacks.  Whatever comes from outside (rebuilds  *)
(* by the parent, gestures, controller calls) counts against MaxInputs.    *)
(***************************************************************************)
EXTENDS Naturals, FiniteSets

CONSTANTS Pointers,        \* touch pointers
          Policies,        \* the render policies the parent passes
          TailFrameCount,  \* frames after an interaction
          MaxInputs        \* bound: events from outside

ASSUME PolicyAssumption ==
  Policies \subseteq {"always", "onDemand", "whileInteracting", "adaptive"}
ASSUME TailAssumption == TailFrameCount \in Nat /\ MaxInputs \in Nat

VARIABLES
  \* the controller, as the widget sees it
  status,            \* loadState.status
  settled,           \* _lastSettledLoadState.status
  result,            \* what the loader returned for the running load
  \* the widget
  mounted,
  autoOrbit,         \* widget.autoOrbit
  hasResult,         \* _lastModelLoadResult != null
  preserving,        \* _preservingReadyDuringLoad
  callbackId,        \* _renderFrameCallbackId != null
  touches,           \* the pointers of _activeTouchPositions
  trackpad,          \* a trackpad gesture is going on
  fitPending,        \* _pendingFitCamera != null
  fitScheduled,      \* _pendingFitCameraFrameScheduled
  viewportKnown,     \* _viewportAspectRatio != null
  \* the scheduler
  sched,
  \* Flutter's binding and element tree
  callbacks,         \* transient frame callbacks of the widget
  postFrame,         \* a post-frame callback of the widget
  dirty,             \* setState since the last build
  display,           \* what the last build shows
  inputs             \* events from outside so far

controllerVars == <<status, settled, result>>
gestureVars == <<touches, trackpad>>
fitVars == <<fitPending, fitScheduled, viewportKnown, postFrame>>
loopVars == <<sched, callbackId, callbacks>>
vars == <<controllerVars, mounted, autoOrbit, hasResult, preserving,
          gestureVars, fitVars, loopVars, dirty, display, inputs>>

Statuses == {"idle", "loading", "success", "error"}
Scheduler == [policy : Policies, isLoading : BOOLEAN, isInteracting : BOOLEAN,
              animationsEnabled : BOOLEAN, tail : 0..TailFrameCount,
              explicit : 0..1]

TypeOK ==
  /\ status \in Statuses
  /\ settled \in Statuses \ {"loading"}
  /\ sched \in Scheduler
  /\ touches \subseteq Pointers
  /\ callbacks \in 0..1
  /\ display \in {"placeholder", "ready", "error"}
  /\ inputs \in 0..MaxInputs
  /\ result \in {"none", "success", "failure"}
  /\ mounted \in BOOLEAN /\ autoOrbit \in BOOLEAN /\ hasResult \in BOOLEAN
  /\ preserving \in BOOLEAN /\ callbackId \in BOOLEAN /\ trackpad \in BOOLEAN
  /\ fitPending \in BOOLEAN /\ fitScheduled \in BOOLEAN
  /\ viewportKnown \in BOOLEAN /\ postFrame \in BOOLEAN /\ dirty \in BOOLEAN

\* initState attaches the controller and starts the first load in a microtask.
Init ==
  /\ status = "idle" /\ settled = "idle" /\ result = "none"
  /\ mounted = TRUE /\ hasResult = FALSE /\ preserving = FALSE
  /\ autoOrbit \in BOOLEAN
  /\ \E policy \in Policies :
       sched = [policy |-> policy, isLoading |-> FALSE, isInteracting |-> FALSE,
                animationsEnabled |-> FALSE, tail |-> 0, explicit |-> 0]
  /\ callbackId = FALSE /\ callbacks = 0
  /\ touches = {} /\ trackpad = FALSE
  /\ fitPending = FALSE /\ fitScheduled = FALSE
  /\ viewportKnown = FALSE /\ postFrame = FALSE
  /\ dirty = TRUE /\ display = "placeholder"
  /\ inputs = 0

-----------------------------------------------------------------------------
(* AdaptiveRenderScheduler: a record, its operations as functions of it.   *)

ShouldRender(s) ==
  \/ s.policy = "always"
  \/ s.explicit > 0
  \/ s.policy # "onDemand" /\ (s.isInteracting \/ s.tail > 0)
  \/ s.policy = "adaptive" /\ (s.isLoading \/ s.animationsEnabled)

BeginInteraction(s) ==
  IF s.isInteracting THEN s
  ELSE [s EXCEPT !.isInteracting = TRUE, !.tail = 0]

EndInteraction(s) ==
  IF s.isInteracting
    THEN [s EXCEPT !.isInteracting = FALSE, !.tail = TailFrameCount]
    ELSE s

RequestFrame(s) == [s EXCEPT !.explicit = 1]

\* Seeded bug: the tail is not used up.
DidRenderForever(s) == [s EXCEPT !.explicit = 0]

DidRenderFrame(s) ==
  [s EXCEPT !.explicit = 0,
            !.tail = IF ~s.isInteracting /\ @ > 0 THEN @ - 1 ELSE @]

-----------------------------------------------------------------------------
(* The widget's side of the loop.                                          *)

\* Seeded bug: a second callback while one is waiting.
ScheduleRenderFrameTwice(s) ==
  /\ sched' = s
  /\ IF ~ShouldRender(s)
       THEN UNCHANGED <<callbackId, callbacks>>
       ELSE callbackId' = TRUE /\ callbacks' = callbacks + 1

\* _scheduleRenderFrame, when the scheduler has become s: at most one
\* transient callback, none when there is nothing to render.
ScheduleRenderFrame(s) ==
  /\ sched' = s
  /\ IF ~ShouldRender(s) \/ callbackId
       THEN UNCHANGED <<callbackId, callbacks>>
       ELSE callbackId' = TRUE /\ callbacks' = callbacks + 1

\* The scheduler becomes s and nobody schedules a frame.
OnlySet(s) == sched' = s /\ UNCHANGED <<callbackId, callbacks>>

AutoOrbitEnabled(wanted, newStatus) == wanted /\ newStatus = "success"

\* _syncAutoOrbit, given the scheduler s that the caller has set up.
SyncAutoOrbit(s, enabled) ==
  LET synced == [s EXCEPT !.animationsEnabled = enabled]
  IN  IF enabled THEN ScheduleRenderFrame(synced) ELSE OnlySet(synced)

\* Seeded bug: every notification while loading keeps the ready view.
HandleChangePreservesErrors(newStatus, isFresh) ==
  LET loading == newStatus = "loading"
      s == [sched EXCEPT !.isLoading = loading,
                         !.animationsEnabled =
                           AutoOrbitEnabled(autoOrbit, newStatus)]
  IN IF loading \/ preserving
       THEN /\ preserving' = loading
            /\ SyncAutoOrbit(s, s.animationsEnabled)
            /\ UNCHANGED dirty
       ELSE /\ preserving' = FALSE
            /\ dirty' = TRUE
            /\ ScheduleRenderFrame(s)

\* _handleControllerChanged, for a controller whose state has newStatus; the
\* state isFresh when it is a new object, not one that was seen before.
HandleControllerChanged(newStatus, isFresh) ==
  LET loading == newStatus = "loading"
      s == [sched EXCEPT !.isLoading = loading,
                         !.animationsEnabled =
                           AutoOrbitEnabled(autoOrbit, newStatus)]
  IN IF loading /\ hasResult
       THEN /\ preserving' = TRUE
            /\ SyncAutoOrbit(s, s.animationsEnabled)
            /\ UNCHANGED dirty
     ELSE IF preserving /\ newStatus = "success" /\ ~isFresh
       THEN /\ preserving' = FALSE
            /\ SyncAutoOrbit(s, s.animationsEnabled)
            /\ UNCHANGED dirty
     ELSE /\ preserving' = FALSE
          /\ dirty' = TRUE
          /\ ScheduleRenderFrame(s)

\* The controller notifies; a disposed widget no longer listens.
Notify(newStatus, isFresh) ==
  IF mounted
    THEN HandleControllerChanged(newStatus, isFresh)
    ELSE UNCHANGED <<preserving, dirty, loopVars>>

Input == inputs < MaxInputs /\ inputs' = inputs + 1

-----------------------------------------------------------------------------
(* The controller.                                                         *)

\* A load starts, unless one is finalizing; a running one is superseded.
LoadBegins ==
  /\ mounted
  /\ Input
  /\ ~(status = "loading" /\ result = "success")
  /\ status' = "loading"
  /\ result' = "none"
  /\ Notify("loading", FALSE)
  /\ UNCHANGED <<settled, mounted, autoOrbit, hasResult, gestureVars, fitVars,
                 display>>

\* The widget's load sees the loader's result before the controller does.
LoaderReturns ==
  /\ status = "loading" /\ result = "none"
  /\ result' \in {"success", "failure"}
  /\ hasResult' = (result' = "success")
  /\ UNCHANGED <<status, settled, mounted, autoOrbit, preserving, gestureVars,
                 fitVars, loopVars, dirty, display, inputs>>

\* A success needs the loader's; an error may also come from a sink that
\* throws, before the loader returns or while a success is finalized.
LoadSettles ==
  /\ status = "loading"
  /\ \/ result = "success" /\ status' = "success"
     \/ status' = "error"
  /\ settled' = status'
  /\ Notify(status', TRUE)
  /\ UNCHANGED <<result, mounted, autoOrbit, hasResult, gestureVars, fitVars,
                 display, inputs>>

\* A cancelled load gives the last settled state back, the same object.
LoadCancelled ==
  /\ status = "loading" /\ result = "none"
  /\ status' = settled
  /\ Notify(settled, FALSE)
  /\ UNCHANGED <<settled, result, mounted, autoOrbit, hasResult, gestureVars,
                 fitVars, display, inputs>>

\* recordDiagnostic notifies too.
DiagnosticRecorded ==
  /\ Input
  /\ Notify(status, FALSE)
  /\ UNCHANGED <<controllerVars, mounted, autoOrbit, hasResult, gestureVars,
                 fitVars, display>>

-----------------------------------------------------------------------------
(* The parent and the user.                                                *)

\* build: what the controller's state calls for; a ready view learns its
\* viewport and schedules a camera fit that waited for it.
BuildWidget ==
  /\ dirty' = FALSE
  /\ display' = CASE status = "error"   -> "error"
                  [] status = "success" -> "ready"
                  [] OTHER              -> "placeholder"
  /\ IF status = "success"
       THEN /\ viewportKnown' = TRUE
            /\ fitScheduled' = (fitScheduled \/ fitPending)
            /\ postFrame' = (postFrame \/ fitPending)
       ELSE UNCHANGED <<viewportKnown, fitScheduled, postFrame>>
  /\ UNCHANGED fitPending

\* didUpdateWidget without a new source, and the build that follows.
ParentRebuilds ==
  /\ mounted
  /\ Input
  /\ autoOrbit' \in BOOLEAN
  /\ \E policy \in Policies :
       SyncAutoOrbit([sched EXCEPT !.policy = policy],
                     AutoOrbitEnabled(autoOrbit', status))
  /\ BuildWidget
  /\ UNCHANGED <<controllerVars, mounted, hasResult, preserving, gestureVars>>

\* requestRenderFrame, and how a pointer's move, a scroll, a trackpad update
\* and a configured environment end.  A load that outlives the widget still
\* asks the sink it started with.
FrameRequested ==
  /\ Input
  /\ ScheduleRenderFrame(RequestFrame(sched))
  /\ UNCHANGED <<controllerVars, mounted, autoOrbit, hasResult, preserving,
                 gestureVars, fitVars, dirty, display>>

PointerDown(p) ==
  /\ mounted
  /\ display = "ready"
  /\ Input
  /\ touches' = touches \cup {p}
  /\ ScheduleRenderFrame(BeginInteraction(sched))
  /\ UNCHANGED <<trackpad, controllerVars, mounted, autoOrbit, hasResult,
                 preserving, fitVars, dirty, display>>

\* A pointer is lifted or cancelled; the last one ends the interaction.
PointerFinished(p) ==
  /\ mounted
  /\ p \in touches
  /\ touches' = touches \ {p}
  /\ ScheduleRenderFrame(IF touches' = {} THEN EndInteraction(sched) ELSE sched)
  /\ UNCHANGED <<trackpad, controllerVars, mounted, autoOrbit, hasResult,
                 preserving, fitVars, dirty, display, inputs>>

\* A trackpad gesture begins and ends an interaction, fingers or not.
TrackpadStart ==
  /\ mounted
  /\ display = "ready"
  /\ ~trackpad
  /\ Input
  /\ trackpad' = TRUE
  /\ ScheduleRenderFrame(BeginInteraction(sched))
  /\ UNCHANGED <<controllerVars, mounted, autoOrbit, hasResult, preserving,
                 touches, fitVars, dirty, display>>

TrackpadEnd ==
  /\ mounted
  /\ trackpad
  /\ trackpad' = FALSE
  /\ ScheduleRenderFrame(EndInteraction(sched))
  /\ UNCHANGED <<controllerVars, mounted, autoOrbit, hasResult, preserving,
                 touches, fitVars, dirty, display, inputs>>

\* A finger or trackpad that was down at dispose still reports its end to the
\* handler: the hit test path of the gesture outlives the element.
GestureEndsAfterDispose ==
  /\ ~mounted
  /\ sched.isInteracting
  /\ ScheduleRenderFrame(EndInteraction(sched))
  /\ UNCHANGED <<controllerVars, mounted, autoOrbit, hasResult, preserving,
                 gestureVars, fitVars, dirty, display, inputs>>

\* fitCamera before the ready view was laid out waits for it.
FitCamera ==
  /\ mounted
  /\ Input
  /\ ~viewportKnown /\ status = "success"
  /\ fitPending' = TRUE
  /\ UNCHANGED <<controllerVars, mounted, autoOrbit, hasResult, preserving,
                 gestureVars, fitScheduled, viewportKnown, postFrame, loopVars,
                 dirty, display>>

Dispose ==
  /\ mounted
  /\ mounted' = FALSE
  /\ callbackId' = FALSE
  /\ callbacks' = IF callbackId THEN callbacks - 1 ELSE callbacks
  /\ fitPending' = FALSE
  /\ touches' = {}
  /\ trackpad' = FALSE
  /\ UNCHANGED <<controllerVars, autoOrbit, hasResult, preserving, sched,
                 fitScheduled, viewportKnown, postFrame, dirty, display,
                 inputs>>

-----------------------------------------------------------------------------
(* The engine's frame.                                                     *)

\* Seeded bug: an idle callback leaves its id behind.
FrameCallbackKeepsId ==
  /\ callbacks > 0
  /\ callbacks' = callbacks - 1
  /\ IF ~mounted \/ ~ShouldRender(sched)
       THEN UNCHANGED <<sched, callbackId, dirty>>
       ELSE /\ dirty' = TRUE
            /\ sched' = DidRenderFrame(sched)
            /\ callbackId' = FALSE
  /\ UNCHANGED <<controllerVars, mounted, autoOrbit, hasResult, preserving,
                 gestureVars, fitVars, display, inputs>>

\* Seeded bug: a rendered frame does not ask for the next one.
FrameCallbackOnce ==
  /\ callbacks > 0
  /\ callbackId' = FALSE
  /\ callbacks' = callbacks - 1
  /\ IF ~mounted \/ ~ShouldRender(sched)
       THEN UNCHANGED <<sched, dirty>>
       ELSE dirty' = TRUE /\ sched' = DidRenderFrame(sched)
  /\ UNCHANGED <<controllerVars, mounted, autoOrbit, hasResult, preserving,
                 gestureVars, fitVars, display, inputs>>

\* The callback renders one generation and schedules the next if need be.
FrameCallback ==
  /\ callbacks > 0
  /\ IF ~mounted \/ ~ShouldRender(sched)
       THEN /\ callbackId' = FALSE
            /\ callbacks' = callbacks - 1
            /\ UNCHANGED <<sched, dirty>>
       ELSE LET s == DidRenderFrame(sched) IN
            /\ dirty' = TRUE
            /\ sched' = s
            /\ callbackId' = ShouldRender(s)
            /\ callbacks' = IF ShouldRender(s) THEN callbacks ELSE callbacks - 1
  /\ UNCHANGED <<controllerVars, mounted, autoOrbit, hasResult, preserving,
                 gestureVars, fitVars, display, inputs>>

Build ==
  /\ mounted
  /\ dirty
  /\ BuildWidget
  /\ UNCHANGED <<controllerVars, mounted, autoOrbit, hasResult, preserving,
                 gestureVars, loopVars, inputs>>

PostFrameCallback ==
  /\ postFrame
  /\ postFrame' = FALSE
  /\ fitScheduled' = FALSE
  /\ fitPending' = FALSE
  /\ UNCHANGED <<controllerVars, mounted, autoOrbit, hasResult, preserving,
                 gestureVars, viewportKnown, loopVars, dirty, display, inputs>>

-----------------------------------------------------------------------------

Controller ==
  LoadBegins \/ LoaderReturns \/ LoadSettles \/ LoadCancelled
    \/ DiagnosticRecorded

User ==
  \/ ParentRebuilds \/ FrameRequested \/ FitCamera \/ Dispose
  \/ TrackpadStart \/ TrackpadEnd \/ GestureEndsAfterDispose
  \/ \E p \in Pointers : PointerDown(p) \/ PointerFinished(p)

Next == Controller \/ User \/ FrameCallback \/ Build \/ PostFrameCallback

\* The engine delivers the frames the widget asked for and builds what is
\* dirty; nothing else has to happen.
Fairness ==
  WF_vars(FrameCallback) /\ WF_vars(Build) /\ WF_vars(PostFrameCallback)

Spec == Init /\ [][Next]_vars /\ Fairness

-----------------------------------------------------------------------------
(* Properties.                                                             *)

\* A requested frame is never forgotten: while the widget lives, a request
\* that was not rendered has a frame callback that will render it.
RequestedFrameIsScheduled == mounted /\ sched.explicit > 0 => callbacks > 0

\* As long as the policy lets interaction render, it does, and so does its
\* tail, whatever loads, rebuilds and frames come in between.
InteractionRenders ==
  mounted /\ "onDemand" \notin Policies
    /\ (sched.isInteracting \/ sched.tail > 0) => callbacks > 0

\* Rendering stops when nothing changes any more: no tail or request keeps
\* the frame callback alive for ever.
HasReasonToRender ==
  \/ sched.policy = "always"
  \/ sched.policy # "onDemand" /\ sched.isInteracting
  \/ sched.policy = "adaptive" /\ (sched.isLoading \/ sched.animationsEnabled)
PausesWhenStatic == <>[](callbacks > 0 => mounted /\ HasReasonToRender)

\* The error view appears for every load error, also for one that ends a
\* load during which the old model was kept on screen.
ErrorIsDisplayed ==
  (mounted /\ status = "error") ~>
    (display = "error" \/ status # "error" \/ ~mounted)

\* What test/viewer_widget_test.dart:137 asks for, "cancelled replacement
\* keeps the ready model": when the controller is back at success, the ready
\* view is shown.
ReadyIsDisplayed ==
  (mounted /\ status = "success") ~>
    (display = "ready" \/ status # "success" \/ ~mounted)
=============================================================================
