-------------------------- MODULE ViewerFramesProofs --------------------------
(***************************************************************************)
(* What is proved about the frame loop, for every set of pointers, every   *)
(* set of policies, every tail length and any number of inputs.            *)
(*                                                                         *)
(* The invariants the model checker looks at are not inductive: that a     *)
(* request has a callback depends on _renderFrameCallbackId telling the    *)
(* truth, for _scheduleRenderFrame trusts it.  CallbackIdIsTrue is that    *)
(* missing part.                                                           *)
(***************************************************************************)
EXTENDS ViewerFrames, TLAPS

CallbackIdIsTrue == callbackId <=> callbacks = 1

IInv ==
  /\ TypeOK
  /\ CallbackIdIsTrue
  /\ RequestedFrameIsScheduled
  /\ InteractionRenders

\* The part of the state that the frame loop's invariants are about.
LoopInv ==
  /\ sched \in Scheduler
  /\ callbackId \in BOOLEAN
  /\ callbacks \in 0..1
  /\ CallbackIdIsTrue
  /\ RequestedFrameIsScheduled
  /\ InteractionRenders

\* The scheduler's operations keep its type, and none of them but a frame
\* takes a request back (render_scheduler.dart:67-105).
LEMMA SchedulerOperations ==
  ASSUME NEW s \in Scheduler
  PROVE  /\ ShouldRender(s) \in BOOLEAN
         /\ BeginInteraction(s) \in Scheduler
         /\ EndInteraction(s) \in Scheduler
         /\ RequestFrame(s) \in Scheduler
         /\ DidRenderFrame(s) \in Scheduler
         /\ s.explicit > 0 => ShouldRender(s)
         /\ ("onDemand" \notin Policies /\ (s.isInteracting \/ s.tail > 0))
              => ShouldRender(s)
<1>1. /\ s.policy \in Policies /\ s.policy \in {"always", "onDemand",
                                                "whileInteracting", "adaptive"}
      /\ s.isLoading \in BOOLEAN /\ s.isInteracting \in BOOLEAN
      /\ s.animationsEnabled \in BOOLEAN
      /\ s.tail \in 0..TailFrameCount /\ s.explicit \in 0..1
      /\ TailFrameCount \in Nat
  BY PolicyAssumption, TailAssumption DEF Scheduler
<1>2. ShouldRender(s) \in BOOLEAN
  BY <1>1 DEF ShouldRender
<1>0. ASSUME NEW t \in Scheduler, NEW k \in 0..TailFrameCount
      PROVE  [t EXCEPT !.tail = k] \in Scheduler
  BY DEF Scheduler
<1>3. BeginInteraction(s) \in Scheduler
  <2>1. [s EXCEPT !.isInteracting = TRUE] \in Scheduler
    BY <1>1 DEF Scheduler
  <2>2. 0 \in 0..TailFrameCount
    BY <1>1
  <2>3. [s EXCEPT !.isInteracting = TRUE, !.tail = 0] \in Scheduler
    BY <1>0, <2>1, <2>2, Zenon
  <2>4. QED
    BY <2>3 DEF BeginInteraction
<1>4. EndInteraction(s) \in Scheduler
  <2>1. [s EXCEPT !.isInteracting = FALSE] \in Scheduler
    BY <1>1 DEF Scheduler
  <2>2. TailFrameCount \in 0..TailFrameCount
    BY <1>1
  <2>3. [s EXCEPT !.isInteracting = FALSE, !.tail = TailFrameCount]
          \in Scheduler
    BY <1>0, <2>1, <2>2, Zenon
  <2>4. QED
    BY <2>3 DEF EndInteraction
<1>5. RequestFrame(s) \in Scheduler
  BY <1>1 DEF RequestFrame, Scheduler
<1>6. DidRenderFrame(s) \in Scheduler
  <2> DEFINE k == IF ~s.isInteracting /\ s.tail > 0 THEN s.tail - 1 ELSE s.tail
  <2>1. [s EXCEPT !.explicit = 0] \in Scheduler
    BY <1>1 DEF Scheduler
  <2>2. k \in 0..TailFrameCount
    BY <1>1
  <2>3. [s EXCEPT !.explicit = 0, !.tail = k] \in Scheduler
    BY <1>0, <2>1, <2>2, Zenon
  <2>4. DidRenderFrame(s) = [s EXCEPT !.explicit = 0, !.tail = k]
    BY DEF DidRenderFrame, Scheduler
  <2>5. QED
    BY <2>3, <2>4
<1>7. s.explicit > 0 => ShouldRender(s)
  BY <1>1 DEF ShouldRender
<1>8. ("onDemand" \notin Policies /\ (s.isInteracting \/ s.tail > 0))
        => ShouldRender(s)
  BY <1>1 DEF ShouldRender
<1>9. QED
  BY <1>2, <1>3, <1>4, <1>5, <1>6, <1>7, <1>8

\* _scheduleRenderFrame (viewer_widget.dart:869-888) establishes the loop's
\* invariants for whatever state the scheduler was put in before.
LEMMA ScheduleKeepsLoop ==
  ASSUME LoopInv, NEW s \in Scheduler, ScheduleRenderFrame(s)
  PROVE  LoopInv'
<1>1. /\ s.explicit > 0 => ShouldRender(s)
      /\ ("onDemand" \notin Policies /\ (s.isInteracting \/ s.tail > 0))
           => ShouldRender(s)
  BY SchedulerOperations
<1>2. CASE ~ShouldRender(s) \/ callbackId
  BY <1>1, <1>2 DEF ScheduleRenderFrame, LoopInv, CallbackIdIsTrue,
       RequestedFrameIsScheduled, InteractionRenders
<1>3. CASE ShouldRender(s) /\ ~callbackId
  BY <1>3 DEF ScheduleRenderFrame, LoopInv, CallbackIdIsTrue,
       RequestedFrameIsScheduled, InteractionRenders
<1>4. QED
  BY <1>2, <1>3

\* A change of the scheduler that schedules no frame is harmless when it adds
\* neither a request nor an interaction.
LEMMA SilentSetKeepsLoop ==
  ASSUME LoopInv, NEW s \in Scheduler, OnlySet(s),
         s.explicit = sched.explicit,
         s.isInteracting = sched.isInteracting,
         s.tail = sched.tail,
         mounted' => mounted
  PROVE  LoopInv'
BY DEF OnlySet, LoopInv, CallbackIdIsTrue, RequestedFrameIsScheduled,
     InteractionRenders

\* _syncAutoOrbit (viewer_widget.dart:836-844) on a scheduler in which only
\* the policy, loading or animation flags were changed.
LEMMA SyncKeepsLoop ==
  ASSUME LoopInv, NEW s \in Scheduler, NEW enabled \in BOOLEAN,
         SyncAutoOrbit(s, enabled),
         s.explicit = sched.explicit,
         s.isInteracting = sched.isInteracting,
         s.tail = sched.tail,
         mounted' => mounted
  PROVE  LoopInv'
<1> DEFINE synced == [s EXCEPT !.animationsEnabled = enabled]
<1>1. /\ synced \in Scheduler
      /\ synced.explicit = sched.explicit
      /\ synced.isInteracting = sched.isInteracting
      /\ synced.tail = sched.tail
  BY DEF Scheduler
<1>2. CASE enabled
  BY <1>1, <1>2, ScheduleKeepsLoop DEF SyncAutoOrbit
<1>3. CASE ~enabled
  BY <1>1, <1>3, SilentSetKeepsLoop DEF SyncAutoOrbit
<1>4. QED
  BY <1>2, <1>3

\* The controller's notifications (viewer_widget.dart:454-482), every branch.
LEMMA NotifyKeepsLoop ==
  ASSUME LoopInv, autoOrbit \in BOOLEAN, preserving \in BOOLEAN,
         dirty \in BOOLEAN,
         NEW newStatus, NEW isFresh, Notify(newStatus, isFresh),
         mounted' = mounted
  PROVE  LoopInv' /\ preserving' \in BOOLEAN /\ dirty' \in BOOLEAN
<1> DEFINE enabled == AutoOrbitEnabled(autoOrbit, newStatus)
           s == [sched EXCEPT !.isLoading = (newStatus = "loading"),
                              !.animationsEnabled = enabled]
<1>1. enabled \in BOOLEAN
  BY DEF AutoOrbitEnabled
<1>2. /\ s \in Scheduler
      /\ s.explicit = sched.explicit
      /\ s.isInteracting = sched.isInteracting
      /\ s.tail = sched.tail
      /\ s.animationsEnabled = enabled
  BY <1>1 DEF LoopInv, Scheduler
<1>3. CASE ~mounted
  BY <1>3 DEF Notify, LoopInv, CallbackIdIsTrue, loopVars,
       RequestedFrameIsScheduled, InteractionRenders
<1>4. CASE mounted
  <2>1. HandleControllerChanged(newStatus, isFresh)
    BY <1>4 DEF Notify
  <2>2. CASE SyncAutoOrbit(s, s.animationsEnabled)
               /\ preserving' \in BOOLEAN /\ UNCHANGED dirty
    BY <1>1, <1>2, <2>2, SyncKeepsLoop
  <2>3. CASE ScheduleRenderFrame(s) /\ preserving' \in BOOLEAN /\ dirty'
    BY <1>2, <2>3, ScheduleKeepsLoop
  <2>4. QED
    BY <2>1, <2>2, <2>3 DEF HandleControllerChanged
<1>5. QED
  BY <1>3, <1>4

-----------------------------------------------------------------------------

\* The first state: nothing requested, nothing scheduled.
LEMMA InitIInv == Init => IInv
<1> SUFFICES ASSUME Init PROVE IInv
  OBVIOUS
<1> USE TailAssumption
<1>1. PICK policy \in Policies :
        sched = [policy |-> policy, isLoading |-> FALSE, isInteracting |-> FALSE,
                 animationsEnabled |-> FALSE, tail |-> 0, explicit |-> 0]
  BY DEF Init
<1>2. sched \in Scheduler
  BY <1>1 DEF Scheduler
<1>3. TypeOK
  <2>1. inputs \in 0..MaxInputs /\ callbacks \in 0..1 /\ touches \subseteq Pointers
    BY DEF Init
  <2>2. QED
    BY <1>2, <2>1 DEF Init, TypeOK, Statuses
<1>4. CallbackIdIsTrue
  BY DEF Init, CallbackIdIsTrue
<1>5. RequestedFrameIsScheduled /\ InteractionRenders
  BY <1>1 DEF RequestedFrameIsScheduled, InteractionRenders
<1>6. QED
  BY <1>3, <1>4, <1>5 DEF IInv

\* One event from outside stays within the bound.
LEMMA InputKeepsBound ==
  ASSUME inputs \in 0..MaxInputs, Input
  PROVE  inputs' \in 0..MaxInputs
BY TailAssumption DEF Input

\* build (viewer_widget.dart:326-395) keeps what it writes well typed.
LEMMA BuildKeepsTypes ==
  ASSUME TypeOK, BuildWidget
  PROVE  /\ viewportKnown' \in BOOLEAN /\ fitScheduled' \in BOOLEAN
         /\ postFrame' \in BOOLEAN /\ fitPending' \in BOOLEAN
         /\ dirty' \in BOOLEAN /\ display' \in {"placeholder", "ready", "error"}
<1>1. CASE status = "success"
  BY <1>1 DEF BuildWidget, TypeOK
<1>2. CASE status = "error"
  BY <1>2 DEF BuildWidget, TypeOK
<1>3. CASE status \notin {"success", "error"}
  BY <1>3 DEF BuildWidget, TypeOK
<1>4. QED
  BY <1>1, <1>2, <1>3

\* No step of the controller, the user or the engine breaks the loop.
LEMMA NextKeepsIInv == IInv /\ [Next]_vars => IInv'
<1> SUFFICES ASSUME IInv, [Next]_vars PROVE IInv'
  OBVIOUS
<1>0. TypeOK /\ LoopInv
  BY DEF IInv, TypeOK, LoopInv
<1> SUFFICES TypeOK' /\ LoopInv'
  BY DEF IInv, LoopInv
<1>1. CASE LoadBegins
  <2>1. LoopInv' /\ preserving' \in BOOLEAN /\ dirty' \in BOOLEAN
    BY <1>0, <1>1, NotifyKeepsLoop DEF LoadBegins, TypeOK, gestureVars, fitVars
  <2>2. inputs' \in 0..MaxInputs
    BY <1>0, <1>1, InputKeepsBound DEF LoadBegins, TypeOK
  <2>3. QED
    BY <1>0, <1>1, <2>1, <2>2 DEF LoadBegins, LoopInv, TypeOK, Statuses,
         controllerVars, gestureVars, fitVars
<1>2. CASE LoaderReturns
  BY <1>0, <1>2 DEF LoaderReturns, LoopInv, TypeOK, Statuses, gestureVars, fitVars,
       loopVars, CallbackIdIsTrue, RequestedFrameIsScheduled, InteractionRenders
<1>3. CASE LoadSettles
  <2>1. LoopInv' /\ preserving' \in BOOLEAN /\ dirty' \in BOOLEAN
    BY <1>0, <1>3, NotifyKeepsLoop DEF LoadSettles, TypeOK, gestureVars, fitVars
  <2>2. inputs' \in 0..MaxInputs
    BY <1>0, <1>3 DEF LoadSettles, TypeOK
  <2>3. QED
    BY <1>0, <1>3, <2>1, <2>2 DEF LoadSettles, LoopInv, TypeOK, Statuses,
         controllerVars, gestureVars, fitVars
<1>4. CASE LoadCancelled
  <2>1. LoopInv' /\ preserving' \in BOOLEAN /\ dirty' \in BOOLEAN
    BY <1>0, <1>4, NotifyKeepsLoop DEF LoadCancelled, TypeOK, gestureVars, fitVars
  <2>2. inputs' \in 0..MaxInputs
    BY <1>0, <1>4 DEF LoadCancelled, TypeOK
  <2>3. QED
    BY <1>0, <1>4, <2>1, <2>2 DEF LoadCancelled, LoopInv, TypeOK, Statuses,
         controllerVars, gestureVars, fitVars
<1>5. CASE DiagnosticRecorded
  <2>1. LoopInv' /\ preserving' \in BOOLEAN /\ dirty' \in BOOLEAN
    BY <1>0, <1>5, NotifyKeepsLoop DEF DiagnosticRecorded, TypeOK, gestureVars, fitVars
  <2>2. inputs' \in 0..MaxInputs
    BY <1>0, <1>5, InputKeepsBound DEF DiagnosticRecorded, TypeOK
  <2>3. QED
    BY <1>0, <1>5, <2>1, <2>2 DEF DiagnosticRecorded, LoopInv, TypeOK, Statuses,
         controllerVars, gestureVars, fitVars
<1>6. CASE ParentRebuilds
  <2>1. PICK policy \in Policies :
          SyncAutoOrbit([sched EXCEPT !.policy = policy],
                        AutoOrbitEnabled(autoOrbit', status))
    BY <1>6 DEF ParentRebuilds
  <2> DEFINE s == [sched EXCEPT !.policy = policy]
  <2>2. /\ s \in Scheduler
        /\ s.explicit = sched.explicit
        /\ s.isInteracting = sched.isInteracting
        /\ s.tail = sched.tail
    BY <1>0 DEF LoopInv, Scheduler
  <2>3. autoOrbit' \in BOOLEAN /\ mounted' = mounted
    BY <1>6 DEF ParentRebuilds
  <2>4. AutoOrbitEnabled(autoOrbit', status) \in BOOLEAN
    BY <2>3 DEF AutoOrbitEnabled
  <2>5. LoopInv'
    BY <1>0, <2>1, <2>2, <2>3, <2>4, SyncKeepsLoop
  <2>6. inputs' \in 0..MaxInputs
    BY <1>0, <1>6, InputKeepsBound DEF ParentRebuilds, TypeOK
  <2>7. /\ viewportKnown' \in BOOLEAN /\ fitScheduled' \in BOOLEAN
        /\ postFrame' \in BOOLEAN /\ fitPending' \in BOOLEAN
        /\ dirty' \in BOOLEAN /\ display' \in {"placeholder", "ready", "error"}
    BY <1>0, <1>6, BuildKeepsTypes DEF ParentRebuilds
  <2>8. QED
    BY <1>0, <1>6, <2>5, <2>6, <2>7 DEF ParentRebuilds, LoopInv, TypeOK,
         Statuses, controllerVars, gestureVars
<1>7. CASE FrameRequested
  <2>1. RequestFrame(sched) \in Scheduler
    BY <1>0, SchedulerOperations DEF LoopInv
  <2>2. LoopInv'
    BY <1>0, <1>7, <2>1, ScheduleKeepsLoop DEF FrameRequested
  <2>3. inputs' \in 0..MaxInputs
    BY <1>0, <1>7, InputKeepsBound DEF FrameRequested, TypeOK
  <2>4. QED
    BY <1>0, <1>7, <2>2, <2>3 DEF FrameRequested, LoopInv, TypeOK, Statuses,
         controllerVars, gestureVars, fitVars
<1>8. CASE \E p \in Pointers : PointerDown(p)
  <2>1. BeginInteraction(sched) \in Scheduler
    BY <1>0, SchedulerOperations DEF LoopInv
  <2>2. LoopInv'
    BY <1>0, <1>8, <2>1, ScheduleKeepsLoop DEF PointerDown
  <2>3. inputs' \in 0..MaxInputs
    BY <1>0, <1>8, InputKeepsBound DEF PointerDown, TypeOK
  <2>4. QED
    BY <1>0, <1>8, <2>2, <2>3 DEF PointerDown, LoopInv, TypeOK, Statuses,
         controllerVars, gestureVars, fitVars
<1>9. ASSUME NEW p \in Pointers, PointerFinished(p)
      PROVE  TypeOK' /\ LoopInv'
  <2>1. sched \in Scheduler /\ EndInteraction(sched) \in Scheduler
    BY <1>0, SchedulerOperations DEF LoopInv
  <2>2. PICK s \in Scheduler : ScheduleRenderFrame(s)
    BY <1>9, <2>1 DEF PointerFinished
  <2>3. LoopInv'
    BY <1>0, <2>2, ScheduleKeepsLoop
  <2>4. QED
    BY <1>0, <1>9, <2>3 DEF PointerFinished, LoopInv, TypeOK, Statuses,
         controllerVars, fitVars
<1>10. CASE TrackpadStart
  <2>1. BeginInteraction(sched) \in Scheduler
    BY <1>0, SchedulerOperations DEF LoopInv
  <2>2. LoopInv'
    BY <1>0, <1>10, <2>1, ScheduleKeepsLoop DEF TrackpadStart
  <2>3. inputs' \in 0..MaxInputs
    BY <1>0, <1>10, InputKeepsBound DEF TrackpadStart, TypeOK
  <2>4. QED
    BY <1>0, <1>10, <2>2, <2>3 DEF TrackpadStart, LoopInv, TypeOK, Statuses,
         controllerVars, gestureVars, fitVars
<1>11. CASE TrackpadEnd
  <2>1. EndInteraction(sched) \in Scheduler
    BY <1>0, SchedulerOperations DEF LoopInv
  <2>2. LoopInv'
    BY <1>0, <1>11, <2>1, ScheduleKeepsLoop DEF TrackpadEnd
  <2>3. trackpad' \in BOOLEAN
    BY <1>11, Zenon DEF TrackpadEnd
  <2>4. UNCHANGED <<controllerVars, mounted, autoOrbit, hasResult, preserving,
                    touches, fitVars, dirty, display, inputs>>
    BY <1>11 DEF TrackpadEnd
  <2>5. QED
    BY <1>0, <2>2, <2>3, <2>4 DEF LoopInv, TypeOK, Statuses, controllerVars,
         fitVars
<1>12. CASE GestureEndsAfterDispose
  <2>1. EndInteraction(sched) \in Scheduler
    BY <1>0, SchedulerOperations DEF LoopInv
  <2>2. LoopInv'
    BY <1>0, <1>12, <2>1, ScheduleKeepsLoop DEF GestureEndsAfterDispose
  <2>3. inputs' \in 0..MaxInputs
    BY <1>0, <1>12 DEF GestureEndsAfterDispose, TypeOK
  <2>4. QED
    BY <1>0, <1>12, <2>2, <2>3 DEF GestureEndsAfterDispose, LoopInv, TypeOK, Statuses,
         controllerVars, gestureVars, fitVars
<1>13. CASE FitCamera
  <2>1. inputs' \in 0..MaxInputs
    BY <1>0, <1>13, InputKeepsBound DEF FitCamera, TypeOK
  <2>2. QED
    BY <1>0, <1>13, <2>1 DEF FitCamera, LoopInv, TypeOK, Statuses,
       controllerVars, gestureVars, fitVars, loopVars, CallbackIdIsTrue,
       RequestedFrameIsScheduled, InteractionRenders
<1>14. CASE Dispose
  <2>1. /\ mounted' \in BOOLEAN /\ ~mounted'
        /\ callbackId' \in BOOLEAN /\ ~callbackId'
        /\ fitPending' \in BOOLEAN /\ trackpad' \in BOOLEAN
    BY <1>14, Zenon DEF Dispose
  <2>2. callbacks' = IF callbackId THEN callbacks - 1 ELSE callbacks
    BY <1>14 DEF Dispose
  <2>3. callbacks' = 0 /\ sched' = sched
    BY <1>0, <1>14, <2>2 DEF Dispose, LoopInv, CallbackIdIsTrue
  <2>4. LoopInv'
    BY <1>0, <2>1, <2>3 DEF LoopInv, CallbackIdIsTrue,
         RequestedFrameIsScheduled, InteractionRenders
  <2>5. /\ UNCHANGED <<controllerVars, autoOrbit, hasResult, preserving,
                       fitScheduled, viewportKnown, postFrame, dirty, display,
                       inputs>>
        /\ touches' = {}
    BY <1>14 DEF Dispose
  <2>6. QED
    BY <1>0, <2>1, <2>4, <2>5 DEF LoopInv, TypeOK, Statuses, controllerVars
<1>15. CASE FrameCallback
  <2>1. CASE ~mounted \/ ~ShouldRender(sched)
    <3>1. /\ callbackId' \in BOOLEAN /\ ~callbackId'
          /\ callbacks' = callbacks - 1 /\ sched' = sched
          /\ dirty' = dirty /\ callbacks > 0 /\ mounted' = mounted
      BY <1>15, <2>1, Zenon DEF FrameCallback
    <3>2. callbacks' = 0
      BY <1>0, <3>1 DEF LoopInv
    <3>3. mounted => /\ ~(sched.explicit > 0)
                     /\ "onDemand" \notin Policies =>
                          ~(sched.isInteracting \/ sched.tail > 0)
      BY <1>0, <2>1, SchedulerOperations DEF LoopInv
    <3>4. LoopInv'
      BY <1>0, <3>1, <3>2, <3>3 DEF LoopInv, CallbackIdIsTrue,
           RequestedFrameIsScheduled, InteractionRenders
    <3>5. QED
      BY <1>0, <1>15, <3>1, <3>4 DEF FrameCallback, LoopInv, TypeOK, Statuses,
           controllerVars, gestureVars, fitVars
  <2>2. CASE mounted /\ ShouldRender(sched)
    <3> DEFINE s == DidRenderFrame(sched)
    <3>1. /\ callbackId' = ShouldRender(s) /\ sched' = s /\ callbacks > 0
          /\ callbacks' = IF ShouldRender(s) THEN callbacks ELSE callbacks - 1
          /\ dirty' = TRUE
      BY <1>15, <2>2 DEF FrameCallback
    <3>2. /\ s \in Scheduler /\ ShouldRender(s) \in BOOLEAN
          /\ s.explicit > 0 => ShouldRender(s)
          /\ ("onDemand" \notin Policies /\ (s.isInteracting \/ s.tail > 0))
               => ShouldRender(s)
      BY <1>0, SchedulerOperations DEF LoopInv
    <3> HIDE DEF s
    <3>3. LoopInv'
      BY <1>0, <3>1, <3>2 DEF LoopInv, CallbackIdIsTrue,
           RequestedFrameIsScheduled, InteractionRenders
    <3>4. QED
      BY <1>0, <1>15, <3>1, <3>3 DEF FrameCallback, LoopInv, TypeOK, Statuses,
           controllerVars, gestureVars, fitVars
  <2>3. QED
    BY <2>1, <2>2
<1>16. CASE Build
  <2>1. LoopInv'
    BY <1>0, <1>16 DEF Build, LoopInv, CallbackIdIsTrue,
         loopVars, RequestedFrameIsScheduled, InteractionRenders
  <2>2. /\ viewportKnown' \in BOOLEAN /\ fitScheduled' \in BOOLEAN
        /\ postFrame' \in BOOLEAN /\ fitPending' \in BOOLEAN
        /\ dirty' \in BOOLEAN /\ display' \in {"placeholder", "ready", "error"}
    BY <1>0, <1>16, BuildKeepsTypes DEF Build
  <2>3. QED
    BY <1>0, <1>16, <2>1, <2>2 DEF Build, LoopInv, TypeOK,
         Statuses, controllerVars, gestureVars, fitVars
<1>17. CASE PostFrameCallback
  <2>1. LoopInv'
    BY <1>0, <1>17 DEF PostFrameCallback, LoopInv, CallbackIdIsTrue,
         loopVars, RequestedFrameIsScheduled, InteractionRenders
  <2>2. /\ postFrame' \in BOOLEAN /\ fitScheduled' \in BOOLEAN
        /\ fitPending' \in BOOLEAN
    BY <1>17, Zenon DEF PostFrameCallback
  <2>3. UNCHANGED <<controllerVars, mounted, autoOrbit, hasResult, preserving,
                    gestureVars, viewportKnown, dirty, display, inputs>>
    BY <1>17 DEF PostFrameCallback
  <2>4. QED
    BY <1>0, <2>1, <2>2, <2>3 DEF LoopInv, TypeOK, Statuses, controllerVars,
         gestureVars
<1>18. CASE UNCHANGED vars
  BY <1>0, <1>18 DEF vars, LoopInv, TypeOK, Statuses,
       controllerVars, gestureVars, fitVars, loopVars, CallbackIdIsTrue,
       RequestedFrameIsScheduled, InteractionRenders
<1>19. QED
  BY <1>1, <1>2, <1>3, <1>4, <1>5, <1>6, <1>7, <1>8, <1>9, <1>10, <1>11, <1>12,
     <1>13, <1>14, <1>15, <1>16, <1>17, <1>18 DEF Next, Controller, User

\* The frame loop's inductive invariant holds in every reachable state.
THEOREM LoopInvariant == Spec => []IInv
BY InitIInv, NextKeepsIInv, PTL DEF Spec

\* Every variable keeps its type; in particular the widget never has two
\* frame callbacks at once (viewer_widget.dart:869-888).
THEOREM FrameTypes == Spec => []TypeOK
BY LoopInvariant, PTL DEF IInv

\* A requested frame always has a callback that will render it.
THEOREM RequestsAreScheduled == Spec => []RequestedFrameIsScheduled
BY LoopInvariant, PTL DEF IInv

\* Without the onDemand policy, an interaction and its tail always have a
\* frame callback.
THEOREM InteractionsAreRendered == Spec => []InteractionRenders
BY LoopInvariant, PTL DEF IInv
=============================================================================
