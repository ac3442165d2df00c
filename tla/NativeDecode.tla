---------------------------- MODULE NativeDecode ----------------------------
(***************************************************************************)
(* A decode by an optional native plugin (Draco or BasisU), from the stage *)
(* of the Dart probe that awaits it (glb_native_decoder_probe.dart), over  *)
(* the method channel, to the plugin's request registry, its background    *)
(* workers and its detach from the engine.                                 *)
(*                                                                         *)
(* Three kinds of threads interleave: the Dart isolate, the platform       *)
(* thread (which handles the calls, delivers the answers and is blocked    *)
(* while the plugin detaches) and the workers.  What the registry does     *)
(* under its lock is one step.                                             *)
(*                                                                         *)
(* A request stands for its id: the probe never uses one twice.  Both      *)
(* platforms follow one protocol; where Android and iOS differ, Platform   *)
(* decides.                                                                *)
(***************************************************************************)
EXTENDS Naturals, Sequences, Functions

CONSTANTS Requests,        \* the native stages the probe runs
          Workers,         \* Android: a pool; iOS: one serial queue
          QueueCapacity,   \* what Android's executor queue holds
          MaxFinished,     \* MAX_FINISHED_REQUESTS
          Platform,        \* "android" or "ios"
          NoRequest

ASSUME NoRequestAssumption == NoRequest \notin Requests
ASSUME BoundAssumption == QueueCapacity \in Nat /\ MaxFinished \in Nat
ASSUME PlatformAssumption == Platform \in {"android", "ios"}

VARIABLES
  \* the probe
  stage,           \* where _invokeNativeStage is
  \* the channel
  toPlatform,      \* calls on their way, in order
  replies,         \* what each decodeGlb was answered
  acks,            \* what each cancelDecode was answered
  \* the registry
  active,          \* the keys of active
  entry,           \* the state of each request's entry
  delivered,       \* the entries whose delivery was claimed
  finished,        \* the ids in finished, oldest first
  control,         \* the native control of each request
  \* the threads
  queue,           \* tasks no worker has taken
  worker,          \* the task of each worker
  posted,          \* completions posted to the platform thread
  detach           \* how far onDetachedFromEngine is

channelVars == <<toPlatform, replies, acks>>
registryVars == <<active, entry, delivered, finished, control>>
threadVars == <<queue, worker, posted, detach>>
vars == <<stage, channelVars, registryVars, threadVars>>

Calls == [method : {"decodeGlb", "cancelDecode"}, request : Requests]
Call(method, r) == [method |-> method, request |-> r]

Errors == {"cancelled", "timeout", "decodeFailed",
           "platformSerializationFailed", "duplicateRequest", "detached",
           "nativeControlUnavailable", "notImplemented"}
Replies == Errors \cup {"response", "null"}

\* What a task holds when the codec is done: no response, one, an exception,
\* or the native deadline as stop reason.
Outputs == {"none", "response", "failure", "deadline"}
Dispositions == {"success", "cancelled", "detached"}
Completion == [disposition : Dispositions, output : Outputs]
NotPosted == [disposition |-> "none", output |-> "none"]

IdleWorker == [request |-> NoRequest, phase |-> "idle", output |-> "none"]
Task(r, phase, output) == [request |-> r, phase |-> phase, output |-> output]

TypeOK ==
  /\ stage \in [Requests -> {"idle", "waiting", "succeeded", "failed",
                             "cancelled", "timedOut", "undispatched"}]
  /\ toPlatform \in Seq(Calls)
  /\ replies \in [Requests -> Seq(Replies)]
  /\ acks \in [Requests -> {"none", "cancelled", "alreadyFinished",
                            "unknownRequest", "notImplemented"}]
  /\ active \subseteq Requests
  /\ entry \in [Requests -> {"none", "active", "cancelled", "finished",
                             "detached"}]
  /\ delivered \subseteq Requests
  /\ finished \in Seq(Requests) /\ Len(finished) <= MaxFinished
  /\ control \in [Requests -> {"none", "live", "stopped", "destroyed"}]
  /\ queue \in Seq(Requests)
  /\ worker \in [Workers ->
       [request : Requests \cup {NoRequest},
        phase : {"idle", "taken", "decoding", "returned"}, output : Outputs]]
  /\ posted \in [Requests -> Completion \cup {NotPosted}]
  /\ detach \in {"attached", "begun", "draining", "drained"}

Init ==
  /\ stage = [r \in Requests |-> "idle"]
  /\ toPlatform = <<>>
  /\ replies = [r \in Requests |-> <<>>]
  /\ acks = [r \in Requests |-> "none"]
  /\ active = {}
  /\ entry = [r \in Requests |-> "none"]
  /\ delivered = {}
  /\ finished = <<>>
  /\ control = [r \in Requests |-> "none"]
  /\ queue = <<>>
  /\ worker = [w \in Workers |-> IdleWorker]
  /\ posted = [r \in Requests |-> NotPosted]
  /\ detach = "attached"

-----------------------------------------------------------------------------
(* The probe: _invokeNativeStage.                                          *)

Send(method, r) == toPlatform' = Append(toPlatform, Call(method, r))

\* A token that is already cancelled, or a deadline that the stage before it
\* has used up, ends the stage before it is sent.
StageStarts(r) ==
  /\ stage[r] = "idle"
  /\ \/ Send("decodeGlb", r) /\ stage' = [stage EXCEPT ![r] = "waiting"]
     \/ UNCHANGED toPlatform /\ stage' = [stage EXCEPT ![r] = "undispatched"]
  /\ UNCHANGED <<replies, acks, registryVars, threadVars>>

\* onCancellation.  The listener is removed when the stage ends.
CallerCancels(r) ==
  /\ stage[r] = "waiting"
  /\ Send("cancelDecode", r)
  /\ stage' = [stage EXCEPT ![r] = "cancelled"]
  /\ UNCHANGED <<replies, acks, registryVars, threadVars>>

\* Seeded bug: a stage that waits for the answer to its cancelDecode.
TimerOnlyAsks(r) ==
  /\ stage[r] = "waiting"
  /\ acks[r] = "none" /\ Call("cancelDecode", r) \notin Range(toPlatform)
  /\ Send("cancelDecode", r)
  /\ UNCHANGED <<stage, replies, acks, registryVars, threadVars>>

\* Seeded bug: the timer cancels a stage that has already ended.
TimerFiresLate(r) ==
  /\ stage[r] \in {"waiting", "cancelled"}
  /\ Send("cancelDecode", r)
  /\ stage' = [stage EXCEPT ![r] = "timedOut"]
  /\ UNCHANGED <<replies, acks, registryVars, threadVars>>

TimerFires(r) ==
  /\ stage[r] = "waiting"
  /\ Send("cancelDecode", r)
  /\ stage' = [stage EXCEPT ![r] = "timedOut"]
  /\ UNCHANGED <<replies, acks, registryVars, threadVars>>

\* A reply to a stage that has ended is dropped: that is no step at all.
ReplyArrives(r) ==
  /\ stage[r] = "waiting"
  /\ replies[r] # <<>>
  /\ stage' = [stage EXCEPT ![r] =
                 IF Head(replies[r]) \in Errors THEN "failed" ELSE "succeeded"]
  /\ UNCHANGED <<channelVars, registryVars, threadVars>>

-----------------------------------------------------------------------------
(* The registry: what each method does under the lock.                     *)

Detached == detach # "attached"

ShouldStart(r) == ~Detached /\ entry[r] = "active"

\* Seeded bug: the disposition forgets that the entry was cancelled.
DispositionIgnoresCancel(r) ==
  IF Detached THEN "detached"
  ELSE IF r \notin active THEN "cancelled"
  ELSE "success"

Disposition(r) ==
  IF Detached THEN "detached"
  ELSE IF r \notin active \/ entry[r] = "cancelled" THEN "cancelled"
  ELSE "success"

\* Seeded bug: the history is never cut.
RememberAll(ids) == {ids}

\* The history after an insertion: Android drops the oldest ids, iOS any one.
Remember(ids) ==
  IF Len(ids) <= MaxFinished THEN {ids}
  ELSE IF Platform = "android" THEN {Tail(ids)}
  ELSE {SubSeq(ids, 1, i - 1) \o SubSeq(ids, i + 1, Len(ids)) :
          i \in DOMAIN ids}

\* Seeded bug: finish does not enter the id into the history.
FinishForgets(r) ==
  /\ entry' = [entry EXCEPT ![r] = "finished"]
  /\ control' = [control EXCEPT ![r] = "destroyed"]
  /\ active' = active \ {r}
  /\ UNCHANGED finished

\* finish, apart from its disposition.
Finish(r) ==
  IF r \in active
    THEN /\ entry' = [entry EXCEPT ![r] = "finished"]
         /\ control' = [control EXCEPT ![r] = "destroyed"]
         /\ active' = active \ {r}
         /\ finished' \in IF Detached THEN {finished}
                          ELSE Remember(Append(finished, r))
    ELSE UNCHANGED <<entry, control, active, finished>>

\* The native control keeps its first stop reason.
Stop(r) == IF control[r] = "live" THEN "stopped" ELSE control[r]

-----------------------------------------------------------------------------
(* The platform thread.                                                    *)

\* The thread waits in onDetachedFromEngine until the plugin has drained.
PlatformThreadIsFree == detach \in {"attached", "drained"}

\* Android removes its handler from the channel, iOS does not.
HasHandler == ~Detached \/ Platform = "ios"

NextCall(method, r) == toPlatform # <<>> /\ Head(toPlatform) = Call(method, r)

Reply(r, answer) == replies' = [replies EXCEPT ![r] = Append(@, answer)]

\* Android's executor is bounded, the dispatch queue of iOS is not.
QueueIsFull == Platform = "android" /\ Len(queue) >= QueueCapacity

\* The queue takes the task; or the full executor rejects it and the request
\* is finished, claimed and answered on the spot; or there was no memory for
\* its control.
AdmitDecode(r) ==
  \/ /\ ~QueueIsFull
     /\ active' = active \cup {r}
     /\ entry' = [entry EXCEPT ![r] = "active"]
     /\ control' = [control EXCEPT ![r] = "live"]
     /\ queue' = Append(queue, r)
     /\ UNCHANGED <<delivered, finished, replies>>
  \/ /\ QueueIsFull
     /\ entry' = [entry EXCEPT ![r] = "finished"]
     /\ control' = [control EXCEPT ![r] = "destroyed"]
     /\ finished' \in Remember(Append(finished, r))
     /\ delivered' = delivered \cup {r}
     /\ Reply(r, "detached")
     /\ UNCHANGED <<active, queue>>
  \/ Reply(r, "nativeControlUnavailable") /\ UNCHANGED <<registryVars, queue>>

\* startDecode.
DecodeArrives(r) ==
  /\ PlatformThreadIsFree
  /\ NextCall("decodeGlb", r)
  /\ toPlatform' = Tail(toPlatform)
  /\ IF ~HasHandler
       THEN Reply(r, "notImplemented") /\ UNCHANGED <<registryVars, queue>>
     ELSE IF Detached \/ r \in active
       THEN Reply(r, "duplicateRequest") /\ UNCHANGED <<registryVars, queue>>
     ELSE AdmitDecode(r)
  /\ UNCHANGED <<stage, acks, worker, posted, detach>>

\* Seeded bug: the handler answers the decode it cancels.
CancelAnswersDecode(r) ==
  /\ PlatformThreadIsFree
  /\ NextCall("cancelDecode", r)
  /\ toPlatform' = Tail(toPlatform)
  /\ IF r \in active
       THEN /\ acks' = [acks EXCEPT ![r] = "cancelled"]
            /\ entry' = [entry EXCEPT ![r] = "cancelled"]
            /\ control' = [control EXCEPT ![r] = Stop(r)]
            /\ Reply(r, "cancelled")
       ELSE /\ acks' = [acks EXCEPT ![r] = "alreadyFinished"]
            /\ UNCHANGED <<entry, control, replies>>
  /\ UNCHANGED <<stage, active, delivered, finished, threadVars>>

\* cancelDecode: the id of an entry, of the history, or of nothing known.
CancelArrives(r) ==
  /\ PlatformThreadIsFree
  /\ NextCall("cancelDecode", r)
  /\ toPlatform' = Tail(toPlatform)
  /\ \/ /\ HasHandler /\ r \in active
        /\ acks' = [acks EXCEPT ![r] = "cancelled"]
        /\ entry' = [entry EXCEPT ![r] = "cancelled"]
        /\ control' = [control EXCEPT ![r] = Stop(r)]
     \/ /\ HasHandler /\ r \notin active
        /\ acks' = [acks EXCEPT ![r] = IF r \in Range(finished)
                                         THEN "alreadyFinished"
                                         ELSE "unknownRequest"]
        /\ UNCHANGED <<entry, control>>
     \/ /\ ~HasHandler
        /\ acks' = [acks EXCEPT ![r] = "notImplemented"]
        /\ UNCHANGED <<entry, control>>
  /\ UNCHANGED <<stage, replies, active, delivered, finished, threadVars>>

\* How a completion is answered; Android does not look at the output of a
\* cancelled request, iOS looks at the deadline first.
Answer(c) ==
  IF c.output = "deadline" THEN "timeout"
  ELSE IF c.disposition = "cancelled" THEN "cancelled"
  ELSE IF c.output = "failure" THEN "decodeFailed"
  ELSE IF c.output = "response" THEN "response"
  ELSE IF Platform = "android" THEN "null" ELSE "platformSerializationFailed"

\* Seeded bug: nobody asks whether the plugin is still attached.
DeliverUnclaimed(r) ==
  /\ PlatformThreadIsFree
  /\ posted[r] # NotPosted
  /\ posted' = [posted EXCEPT ![r] = NotPosted]
  /\ delivered' = delivered \cup {r}
  /\ Reply(r, Answer(posted[r]))
  /\ UNCHANGED <<stage, toPlatform, acks, active, entry, finished, control,
                 queue, worker, detach>>

\* The posted completion: claimDelivery, then the answer.
Deliver(r) ==
  /\ PlatformThreadIsFree
  /\ posted[r] # NotPosted
  /\ posted' = [posted EXCEPT ![r] = NotPosted]
  /\ IF Detached \/ r \in delivered
       THEN UNCHANGED <<delivered, replies>>
       ELSE /\ delivered' = delivered \cup {r}
            /\ IF posted[r].disposition = "detached"
                 THEN UNCHANGED replies
                 ELSE Reply(r, Answer(posted[r]))
  /\ UNCHANGED <<stage, toPlatform, acks, active, entry, finished, control,
                 queue, worker, detach>>

\* onDetachedFromEngine: beginDetach stops what is active.
DetachBegins ==
  /\ detach = "attached"
  /\ detach' = "begun"
  /\ entry' = [r \in Requests |->
                 IF r \in active THEN "detached" ELSE entry[r]]
  /\ control' = [r \in Requests |->
                   IF r \in active THEN Stop(r) ELSE control[r]]
  /\ UNCHANGED <<stage, channelVars, active, delivered, finished, queue,
                 worker, posted>>

\* Android's shutdownNow drops the tasks that wait; iOS lets them run first.
ExecutorShutsDown ==
  /\ detach = "begun"
  /\ detach' = "draining"
  /\ queue' = IF Platform = "android" THEN <<>> ELSE queue
  /\ UNCHANGED <<stage, channelVars, registryVars, worker, posted>>

\* Seeded bug: the detach drains without waiting for the workers.
DrainEarly ==
  /\ detach = "draining"
  /\ queue = <<>>
  /\ detach' = "drained"
  /\ control' = [r \in Requests |->
                   IF r \in active THEN "destroyed" ELSE control[r]]
  /\ active' = {}
  /\ finished' = <<>>
  /\ UNCHANGED <<stage, channelVars, entry, delivered, queue, worker,
                 posted>>

\* drainAfterWorkers, once no task is left; the platform thread is free again.
DetachDrains ==
  /\ detach = "draining"
  /\ queue = <<>>
  /\ \A w \in Workers : worker[w] = IdleWorker
  /\ detach' = "drained"
  /\ control' = [r \in Requests |->
                   IF r \in active THEN "destroyed" ELSE control[r]]
  /\ active' = {}
  /\ finished' = <<>>
  /\ UNCHANGED <<stage, channelVars, entry, delivered, queue, worker,
                 posted>>

-----------------------------------------------------------------------------
(* The workers.                                                            *)

Holds(w, r, phase) == worker[w].request = r /\ worker[w].phase = phase

TaskTaken(w) ==
  /\ worker[w] = IdleWorker
  /\ queue # <<>>
  /\ worker' = [worker EXCEPT ![w] = Task(Head(queue), "taken", "none")]
  /\ queue' = Tail(queue)
  /\ UNCHANGED <<stage, channelVars, registryVars, posted, detach>>

\* Seeded bug: a task that was stopped while it waited is thrown away.
StoppedTaskDropped(w, r) ==
  /\ Holds(w, r, "taken")
  /\ worker' = [worker EXCEPT ![w] =
       IF ShouldStart(r) THEN Task(r, "decoding", "none") ELSE IdleWorker]
  /\ UNCHANGED <<stage, channelVars, registryVars, queue, posted, detach>>

\* shouldStart: a task that was stopped while it waited skips the codec.
TaskStarts(w, r) ==
  /\ Holds(w, r, "taken")
  /\ worker' = [worker EXCEPT ![w] =
       Task(r, IF ShouldStart(r) THEN "decoding" ELSE "returned", "none")]
  /\ UNCHANGED <<stage, channelVars, registryVars, queue, posted, detach>>

\* The codec returns.  Android has a response (perhaps only diagnostics) or
\* an exception; iOS drops the response of a control that was stopped.
CodecOutputs(r) ==
  IF Platform = "android" THEN {"response", "failure"}
  ELSE IF control[r] = "live" THEN {"none", "response", "deadline"}
  ELSE {"none", "deadline"}

CodecReturns(w, r) ==
  /\ Holds(w, r, "decoding")
  /\ \E output \in CodecOutputs(r) :
       worker' = [worker EXCEPT ![w] = Task(r, "returned", output)]
  /\ UNCHANGED <<stage, channelVars, registryVars, queue, posted, detach>>

\* Seeded bug: the worker waits until the platform thread takes its post.
TaskFinishesSynchronously(w, r) ==
  /\ PlatformThreadIsFree
  /\ Holds(w, r, "returned")
  /\ posted' = [posted EXCEPT ![r] = [disposition |-> Disposition(r),
                                      output |-> worker[w].output]]
  /\ Finish(r)
  /\ worker' = [worker EXCEPT ![w] = IdleWorker]
  /\ UNCHANGED <<stage, channelVars, delivered, queue, detach>>

\* finish and the post to the platform thread.
TaskFinishes(w, r) ==
  /\ Holds(w, r, "returned")
  /\ posted' = [posted EXCEPT ![r] = [disposition |-> Disposition(r),
                                      output |-> worker[w].output]]
  /\ Finish(r)
  /\ worker' = [worker EXCEPT ![w] = IdleWorker]
  /\ UNCHANGED <<stage, channelVars, delivered, queue, detach>>

-----------------------------------------------------------------------------

Probe(r) ==
  StageStarts(r) \/ CallerCancels(r) \/ TimerFires(r) \/ ReplyArrives(r)

PlatformThread(r) == DecodeArrives(r) \/ CancelArrives(r) \/ Deliver(r)

Worker(w) ==
  \/ TaskTaken(w)
  \/ \E r \in Requests : TaskStarts(w, r) \/ CodecReturns(w, r)
                           \/ TaskFinishes(w, r)

Next ==
  \/ \E r \in Requests : Probe(r) \/ PlatformThread(r)
  \/ \E w \in Workers : Worker(w)
  \/ DetachBegins \/ ExecutorShutsDown \/ DetachDrains

\* Threads run, timers fire and a codec call ends; no caller has to cancel
\* and no engine has to detach.
Fairness ==
  /\ \A r \in Requests : WF_vars(TimerFires(r)) /\ WF_vars(ReplyArrives(r))
                           /\ WF_vars(PlatformThread(r))
  /\ \A w \in Workers : WF_vars(Worker(w))
  /\ WF_vars(ExecutorShutsDown) /\ WF_vars(DetachDrains)

Spec == Init /\ [][Next]_vars /\ Fairness

-----------------------------------------------------------------------------
(* Properties.                                                             *)

\* A decodeGlb call is answered at most once, whichever of the rejection,
\* the completion and the handler gets there first: "platform completion is
\* delivered at most once" (docs/RUNTIME_GLB_PIPELINE.md:96).
RepliesAtMostOnce == \A r \in Requests : Len(replies[r]) <= 1

\* A caller that was told "cancelled" never sees the request's output: the
\* answer that follows, if one does, is an error.
AcknowledgedCancelHolds ==
  \A r \in Requests :
    acks[r] = "cancelled" => Range(replies[r]) \subseteq Errors

\* The registry owns exactly the controls that exist: none leaks, whether the
\* request ends, is rejected or is dropped by the detach, none is destroyed
\* while its entry can still be cancelled, and none under a running codec.
RegistryOwnsControls ==
  \A r \in Requests : r \in active <=> control[r] \in {"live", "stopped"}
CodecHasControl ==
  \A w \in Workers, r \in Requests :
    Holds(w, r, "decoding") => control[r] \in {"live", "stopped"}
ControlsAreOwned == RegistryOwnsControls /\ CodecHasControl

\* The probe sends at most one cancelDecode for a request, and only for one
\* whose stage it ended itself.
CancelInFlight(r, i) ==
  i \in DOMAIN toPlatform /\ toPlatform[i] = Call("cancelDecode", r)
CancelSentOnce ==
  \A r \in Requests :
    /\ \A i, j \in DOMAIN toPlatform :
         CancelInFlight(r, i) /\ CancelInFlight(r, j) => i = j
    /\ \A i \in DOMAIN toPlatform :
         CancelInFlight(r, i) =>
           acks[r] = "none" /\ stage[r] \in {"cancelled", "timedOut"}
    /\ acks[r] # "none" => stage[r] \in {"cancelled", "timedOut"}

\* A cancelDecode that finds nothing came after the detach, for a request
\* that had been refused, or after as many other requests finished as the
\* history remembers.
CancelFindsRequest ==
  \A r \in Requests :
    acks[r] = "unknownRequest" =>
      \/ detach = "drained"
      \/ entry[r] = "none" /\ replies[r] # <<>>
      \/ entry[r] = "finished" /\ Len(finished) = MaxFinished

\* A decode that was admitted is answered, unless the plugin detaches.
DecodeIsAnswered ==
  \A r \in Requests : r \in active ~> (replies[r] # <<>> \/ Detached)

\* The detach, which blocks the platform thread, does not wait for ever.
DetachCompletes == detach = "begun" ~> detach = "drained"

\* A stage ends even when the plugin goes away without an answer.
StageEnds == \A r \in Requests : stage[r] = "waiting" ~> stage[r] # "waiting"

-----------------------------------------------------------------------------
(* What the plugin promises the probe.                                     *)

Outcome(r) ==
  LET answer == Head(replies[r])
  IN  IF answer = "response" THEN "value"
      ELSE IF answer \in Errors \ {"cancelled"} THEN "error"
      ELSE answer

\* What became of a request, as its caller could know.
Fate(r) ==
  IF replies[r] # <<>> THEN Outcome(r)
  ELSE IF entry[r] = "none" THEN "unsent"
  ELSE IF Detached THEN "dropped"
  ELSE IF entry[r] = "cancelled" \/ posted[r].disposition = "cancelled"
    THEN "revoked"
  ELSE "pending"

Promise == INSTANCE DecodePromise WITH
  closed <- Detached,
  request <- [r \in Requests |-> Fate(r)]

\* Every behaviour of probe, channel and plugin keeps the promise of
\* DecodePromise.
KeepsPromise == Promise!Spec
=============================================================================
