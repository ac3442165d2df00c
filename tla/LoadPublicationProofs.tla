------------------------ MODULE LoadPublicationProofs ------------------------
(***************************************************************************)
(* What is proved about loading, for any number of calls, tokens and ways  *)
(* of sharing them.                                                        *)
(*                                                                         *)
(* The properties lean on each other: a success is coherent because the    *)
(* published load kept the viewer to itself, it kept the viewer because    *)
(* every other call found the gate, and the gate is only trustworthy if    *)
(* no waiting call resumes while it is closed.  IInv says all of it at     *)
(* once; every lemma below is one action that keeps it.                    *)
(***************************************************************************)
EXTENDS LoadPublication, SequenceTheorems, TLAPS

USE TokenAssumption, NoLoadAssumption, NoTokenAssumption
USE DEF viewerVars, gateVars, callVars, loaderVars, adapterVars, tokenVars,
        MaybeLoad, Outcomes, LoadState, State, Cancelled,
        IsCurrentLoadAttempt

\* Nothing is loaded, no gate is open: the invariant holds at the start.
LEMMA InitIInv == Init => IInv
<1> SUFFICES ASSUME Init PROVE IInv
  OBVIOUS
<1>1. TypeOK
  BY DEF Init, TypeOK
<1>2. TokensAreClosed /\ StagesAgree /\ GateIsOwned /\ PublicationIsExclusive
  BY DEF Init, TokensAreClosed, StagesAgree, GateIsOwned,
         PublicationIsExclusive
<1>3. QueuesAreWaiting
  BY DEF Init, QueuesAreWaiting, NoRepeats, AllWaiting
<1>4. StateFollowsAttempt /\ SettledIsShown /\ DiagnosticsAreCounted
  BY DEF Init, StateFollowsAttempt, Running, SettledIsShown, ShowsOnly,
         DiagnosticsAreCounted
<1> QED
  BY <1>1, <1>2, <1>3, <1>4 DEF IInv

\* cancel (model_load_cancellation.dart:64-76) refuses a token that an
\* accepted publication closed, so the two sets of tokens stay disjoint.
LEMMA CancelStep ==
  ASSUME IInv, NEW t \in Tokens, Cancel(t)
  PROVE  IInv'
<1> USE DEF Cancel
<1>1. TypeOK'
  BY DEF IInv, TypeOK
<1>2. GateIsOwned' /\ PublicationIsExclusive' /\ QueuesAreWaiting' /\
     StateFollowsAttempt' /\ SettledIsShown' /\ DiagnosticsAreCounted'
  BY DEF IInv, GateIsOwned, PublicationIsExclusive, QueuesAreWaiting,
         StateFollowsAttempt, SettledIsShown, DiagnosticsAreCounted, Running,
         NoRepeats, AllWaiting, ShowsOnly
<1>3. TokensAreClosed'
  BY DEF IInv, TypeOK, TokensAreClosed
<1>4. StagesAgree'
  BY DEF IInv, TypeOK, StagesAgree
<1> QED
  BY <1>1, <1>2, <1>3, <1>4 DEF IInv

\* Attaching a sink (viewer_controller.dart:74-78).
LEMMA AttachStep ==
  ASSUME IInv, Attach
  PROVE  IInv'
<1> USE DEF Attach
<1>1. TypeOK'
  BY DEF IInv, TypeOK
<1>2. TokensAreClosed' /\ StagesAgree' /\ GateIsOwned' /\
     PublicationIsExclusive' /\ QueuesAreWaiting' /\ StateFollowsAttempt' /\
     SettledIsShown' /\ DiagnosticsAreCounted'
  BY DEF IInv, TokensAreClosed, StagesAgree, GateIsOwned,
         PublicationIsExclusive, QueuesAreWaiting, StateFollowsAttempt,
         SettledIsShown, DiagnosticsAreCounted, Running, NoRepeats,
         AllWaiting, ShowsOnly
<1> QED
  BY <1>1, <1>2 DEF IInv

\* Detaching it (viewer_controller.dart:80-84) leaves running loads alone.
LEMMA DetachStep ==
  ASSUME IInv, Detach
  PROVE  IInv'
<1> USE DEF Detach
<1>1. TypeOK'
  BY DEF IInv, TypeOK
<1>2. TokensAreClosed' /\ StagesAgree' /\ GateIsOwned' /\
     PublicationIsExclusive' /\ QueuesAreWaiting' /\ StateFollowsAttempt' /\
     SettledIsShown' /\ DiagnosticsAreCounted'
  BY DEF IInv, TokensAreClosed, StagesAgree, GateIsOwned,
         PublicationIsExclusive, QueuesAreWaiting, StateFollowsAttempt,
         SettledIsShown, DiagnosticsAreCounted, Running, NoRepeats,
         AllWaiting, ShowsOnly
<1> QED
  BY <1>1, <1>2 DEF IInv

\* A call with a cancelled token ends without an attempt
\* (viewer_controller.dart:92-101).
LEMMA LoadPreCancelledStep ==
  ASSUME IInv, NEW l \in Loads, LoadPreCancelled(l)
  PROVE  IInv'
<1> USE DEF LoadPreCancelled
<1>1. TypeOK'
  BY DEF IInv, TypeOK
<1>2. TokensAreClosed'
  BY DEF IInv, TokensAreClosed
<1>3. StagesAgree'
  BY DEF IInv, TypeOK, StagesAgree
<1>4. GateIsOwned'
  BY DEF IInv, TypeOK, GateIsOwned, Running
<1>5. PublicationIsExclusive'
  BY DEF IInv, TypeOK, PublicationIsExclusive
<1>6. QueuesAreWaiting'
  BY DEF IInv, TypeOK, QueuesAreWaiting, NoRepeats, AllWaiting
<1>7. StateFollowsAttempt'
  BY DEF IInv, TypeOK, StateFollowsAttempt, Running
<1>8. SettledIsShown'
  BY DEF IInv, TypeOK, SettledIsShown, ShowsOnly
<1>9. DiagnosticsAreCounted'
  BY DEF IInv, TypeOK, DiagnosticsAreCounted
<1> QED
  BY <1>1, <1>2, <1>3, <1>4, <1>5, <1>6, <1>7, <1>8, <1>9
  DEF IInv

\* A call that finds the gate queues up once (viewer_controller.dart:102-105).
LEMMA LoadWaitsStep ==
  ASSUME IInv, NEW l \in Loads, LoadWaits(l)
  PROVE  IInv'
<1> USE DEF LoadWaits
<1>1. TypeOK'
  BY DEF IInv, TypeOK
<1>2. TokensAreClosed' /\ DiagnosticsAreCounted'
  BY DEF IInv, TypeOK, TokensAreClosed, DiagnosticsAreCounted
<1>3. StagesAgree'
  BY DEF IInv, TypeOK, StagesAgree
<1>4. GateIsOwned'
  BY DEF IInv, TypeOK, GateIsOwned, Running
<1>5. PublicationIsExclusive'
  BY DEF IInv, TypeOK, PublicationIsExclusive
<1>6. QueuesAreWaiting'
  <2>1. /\ waiting \in Seq(Loads) /\ resuming \in Seq(Loads)
        /\ Len(waiting') = Len(waiting) + 1
        /\ waiting'[Len(waiting')] = l
        /\ \A i \in 1..Len(waiting) : waiting'[i] = waiting[i]
    BY AppendProperties DEF IInv, TypeOK
  <2>2. NoRepeats(waiting') /\ NoRepeats(resuming')
    BY <2>1 DEF IInv, QueuesAreWaiting, NoRepeats, AllWaiting
  <2>3. AllWaiting(waiting)' /\ AllWaiting(resuming)'
    BY <2>1 DEF IInv, TypeOK, QueuesAreWaiting, AllWaiting
  <2> QED
    BY <2>2, <2>3 DEF QueuesAreWaiting, NoRepeats
<1>7. StateFollowsAttempt'
  BY DEF IInv, TypeOK, StateFollowsAttempt, Running
<1>8. SettledIsShown'
  BY DEF IInv, TypeOK, SettledIsShown, ShowsOnly
<1> QED
  BY <1>1, <1>2, <1>3, <1>4, <1>5, <1>6, <1>7, <1>8 DEF IInv

\* Starting an attempt, whether the call waited or not, needs an open viewer:
\* no published load is running.
LEMMA StartAttemptStep ==
  ASSUME IInv, NEW l \in Loads, StartAttempt(l),
         call[l] \in {"idle", "waiting"}, acceptedFinalization = NoLoad,
         UNCHANGED <<acceptedFinalization, waiting, heldFinalization, terminal,
                     cancelDiagnostics, snapshot, adapterVars, tokenVars>>,
         resuming' \in Seq(Loads), QueuesAreWaiting'
  PROVE  IInv'
<1> USE DEF StartAttempt
<1>1. TypeOK'
  <2>1. /\ outcome' \in [Loads -> Outcomes \cup {"none"}]
        /\ stage' \in [Loads -> {"idle", "acquiring", "preparing",
                              "importing", "done"}]
    BY DEF IInv, TypeOK
  <2>2. loadState' \in LoadState /\ activeLoadAttempt' \in MaybeLoad
    BY DEF IInv, TypeOK
  <2>3. /\ call' \in [Loads -> {"idle", "waiting", "loading", "authored",
                             "initial", "done"}]
        /\ UNCHANGED <<attached, lastSettledLoadState, partTree,
                       materialOverrides>>
    BY DEF IInv, TypeOK
  <2> HIDE DEF StartAttempt
  <2> QED
    BY <2>1, <2>2, <2>3 DEF IInv, TypeOK
<1>2. TokensAreClosed'
  BY DEF IInv, TokensAreClosed
<1>3. StagesAgree'
  BY DEF IInv, TypeOK, StagesAgree
<1>4. GateIsOwned'
  BY DEF IInv, TypeOK, StagesAgree, GateIsOwned, Running
<1>5. PublicationIsExclusive'
  BY DEF IInv, TypeOK, StagesAgree, PublicationIsExclusive
<1>6. StateFollowsAttempt'
  BY DEF IInv, TypeOK, StateFollowsAttempt, Running
<1>7. SettledIsShown'
  BY DEF IInv, TypeOK, SettledIsShown, ShowsOnly
<1>8. DiagnosticsAreCounted'
  BY DEF IInv, TypeOK, StagesAgree, DiagnosticsAreCounted
<1> QED
  BY <1>1, <1>2, <1>3, <1>4, <1>5, <1>6, <1>7, <1>8 DEF IInv

\* A call that finds no gate starts at once (viewer_controller.dart:106-111).
LEMMA LoadStartsStep ==
  ASSUME IInv, NEW l \in Loads, LoadStarts(l)
  PROVE  IInv'
<1>1. QueuesAreWaiting'
  BY DEF LoadStarts, StartAttempt, IInv, TypeOK, QueuesAreWaiting, NoRepeats,
         AllWaiting
<1> QED
  BY <1>1, StartAttemptStep DEF LoadStarts, IInv, TypeOK

\* A load that waited starts when its microtask runs: the invariant says that
\* no gate is open while microtasks of waiting loads are queued.
LEMMA LoadResumesStep ==
  ASSUME IInv, LoadResumes
  PROVE  IInv'
<1> DEFINE l == Head(resuming)
<1>1. /\ resuming \in Seq(Loads) /\ resuming # <<>>
      /\ l \in Loads /\ l = resuming[1]
      /\ Tail(resuming) \in Seq(Loads)
      /\ Len(Tail(resuming)) = Len(resuming) - 1
      /\ \A i \in 1..Len(Tail(resuming)) : Tail(resuming)[i] = resuming[i + 1]
  BY HeadTailProperties DEF LoadResumes, IInv, TypeOK
<1>2. Len(resuming) \in Nat \ {0}
  BY <1>1, EmptySeq, LenProperties
<1>3. call[l] = "waiting"
  BY <1>1, <1>2 DEF IInv, QueuesAreWaiting, AllWaiting
<1>4. acceptedFinalization = NoLoad /\ waiting = <<>>
  BY <1>1 DEF IInv, GateIsOwned
<1>5. QueuesAreWaiting'
  <2>1. NoRepeats(Tail(resuming))
    BY <1>1, <1>2 DEF IInv, QueuesAreWaiting, NoRepeats
  <2>2. \A i \in 1..Len(Tail(resuming)) : Tail(resuming)[i] # l
    BY <1>1, <1>2 DEF IInv, QueuesAreWaiting, NoRepeats
  <2>3. AllWaiting(resuming)'
    BY <1>1, <1>2, <2>2
    DEF LoadResumes, StartAttempt, IInv, TypeOK, QueuesAreWaiting, AllWaiting
  <2> QED
    BY <1>4, <2>1, <2>3 DEF LoadResumes, QueuesAreWaiting, NoRepeats, AllWaiting
<1> QED
  BY <1>1, <1>3, <1>4, <1>5, StartAttemptStep DEF LoadResumes

\* The source wins its race (model_loader.dart:128-165).
LEMMA SourceAcquiredStep ==
  ASSUME IInv, NEW l \in Loads, SourceAcquired(l)
  PROVE  IInv'
<1> USE DEF SourceAcquired
<1>1. TypeOK'
  BY DEF IInv, TypeOK
<1>2. TokensAreClosed' /\ GateIsOwned' /\ PublicationIsExclusive' /\
     QueuesAreWaiting' /\ StateFollowsAttempt' /\ SettledIsShown' /\
     DiagnosticsAreCounted'
  BY DEF IInv, TokensAreClosed, GateIsOwned, PublicationIsExclusive,
         QueuesAreWaiting, StateFollowsAttempt, SettledIsShown,
         DiagnosticsAreCounted, Running, NoRepeats, AllWaiting, ShowsOnly
<1>3. StagesAgree'
  BY DEF IInv, TypeOK, StagesAgree
<1> QED
  BY <1>1, <1>2, <1>3 DEF IInv

\* The loader sees the token between two awaits and returns cancelled.
LEMMA LoaderObservesCancellationStep ==
  ASSUME IInv, NEW l \in Loads, LoaderObservesCancellation(l)
  PROVE  IInv'
<1> USE DEF LoaderObservesCancellation, LoaderReturns
<1>1. TypeOK'
  BY DEF IInv, TypeOK
<1>2. TokensAreClosed' /\ GateIsOwned' /\ PublicationIsExclusive' /\
     QueuesAreWaiting' /\ StateFollowsAttempt' /\ SettledIsShown' /\
     DiagnosticsAreCounted'
  BY DEF IInv, TokensAreClosed, GateIsOwned, PublicationIsExclusive,
         QueuesAreWaiting, StateFollowsAttempt, SettledIsShown,
         DiagnosticsAreCounted, Running, NoRepeats, AllWaiting, ShowsOnly
<1>3. StagesAgree'
  BY DEF IInv, TypeOK, StagesAgree
<1> QED
  BY <1>1, <1>2, <1>3 DEF IInv

\* The loader returns a failure before anything was imported.
LEMMA LoaderFailsStep ==
  ASSUME IInv, NEW l \in Loads, LoaderFails(l)
  PROVE  IInv'
<1> USE DEF LoaderFails, LoaderReturns
<1>1. TypeOK'
  BY DEF IInv, TypeOK
<1>2. TokensAreClosed' /\ GateIsOwned' /\ PublicationIsExclusive' /\
     QueuesAreWaiting' /\ StateFollowsAttempt' /\ SettledIsShown' /\
     DiagnosticsAreCounted'
  BY DEF IInv, TokensAreClosed, GateIsOwned, PublicationIsExclusive,
         QueuesAreWaiting, StateFollowsAttempt, SettledIsShown,
         DiagnosticsAreCounted, Running, NoRepeats, AllWaiting, ShowsOnly
<1>3. StagesAgree'
  BY DEF IInv, TypeOK, StagesAgree
<1> QED
  BY <1>1, <1>2, <1>3 DEF IInv

\* The import's timer fires (model_loader.dart:706-710): the import goes on,
\* but its loader is done and will refuse the commit.
LEMMA ImportTimesOutStep ==
  ASSUME IInv, NEW l \in Loads, ImportTimesOut(l)
  PROVE  IInv'
<1> USE DEF ImportTimesOut, LoaderReturns
<1>1. TypeOK'
  BY DEF IInv, TypeOK
<1>2. TokensAreClosed' /\ GateIsOwned' /\ PublicationIsExclusive' /\
     QueuesAreWaiting' /\ StateFollowsAttempt' /\ SettledIsShown' /\
     DiagnosticsAreCounted'
  BY DEF IInv, TokensAreClosed, GateIsOwned, PublicationIsExclusive,
         QueuesAreWaiting, StateFollowsAttempt, SettledIsShown,
         DiagnosticsAreCounted, Running, NoRepeats, AllWaiting, ShowsOnly
<1>3. StagesAgree'
  BY DEF IInv, TypeOK, StagesAgree
<1> QED
  BY <1>1, <1>2, <1>3 DEF IInv

\* The adapter import starts (model_loader.dart:630-678).
LEMMA ImportStartsStep ==
  ASSUME IInv, NEW l \in Loads, ImportStarts(l)
  PROVE  IInv'
<1> USE DEF ImportStarts
<1>1. import[l] = "none" /\ acceptedFinalization # l
  BY DEF IInv, StagesAgree, GateIsOwned
<1>2. TypeOK'
  BY DEF IInv, TypeOK
<1>3. QueuesAreWaiting' /\ StateFollowsAttempt' /\ SettledIsShown' /\
     DiagnosticsAreCounted'
  BY DEF IInv, QueuesAreWaiting, StateFollowsAttempt, SettledIsShown,
         DiagnosticsAreCounted, NoRepeats, AllWaiting, Running, ShowsOnly
<1>4. TokensAreClosed'
  BY <1>1 DEF IInv, TypeOK, TokensAreClosed
<1>5. StagesAgree'
  BY <1>1 DEF IInv, TypeOK, StagesAgree
<1>6. GateIsOwned'
  BY <1>1 DEF IInv, TypeOK, GateIsOwned, Running
<1>7. PublicationIsExclusive'
  BY <1>1 DEF IInv, TypeOK, PublicationIsExclusive
<1> QED
  BY <1>2, <1>3, <1>4, <1>5, <1>6, <1>7
  DEF IInv

\* The loader resumes after the import: if it published, the load has had the
\* viewer to itself since, so the snapshot is of its own scene.
LEMMA ImportReturnsStep ==
  ASSUME IInv, NEW l \in Loads, ImportReturns(l)
  PROVE  IInv'
<1> USE DEF ImportReturns, LoaderReturns
<1>1. import[l] = "published" => liveScene = l
  BY DEF IInv, StagesAgree, PublicationIsExclusive
<1>2. import[l] = "published" => ~Cancelled(l)
  BY DEF IInv, TypeOK, TokensAreClosed
<1>3. TypeOK'
  <2>1. /\ \E result \in Outcomes : LoaderReturns(l, result)
        /\ \/ snapshot' = snapshot
           \/ snapshot' = [snapshot EXCEPT ![l] = liveScene]
        /\ UNCHANGED <<viewerVars, gateVars, callVars, adapterVars, tokenVars>>
    OBVIOUS
  <2> HIDE DEF ImportReturns
  <2>2. outcome' \in [Loads -> Outcomes \cup {"none"}]
    BY <2>1 DEF IInv, TypeOK
  <2>3. snapshot' \in [Loads -> MaybeLoad]
    <3>1. snapshot \in [Loads -> MaybeLoad] /\ liveScene \in MaybeLoad
      BY DEF IInv, TypeOK
    <3>2. CASE snapshot' = snapshot
      BY <3>1, <3>2
    <3>3. CASE snapshot' = [snapshot EXCEPT ![l] = liveScene]
      BY <3>1, <3>3
    <3> QED
      BY <2>1, <3>2, <3>3
  <2>4. stage' \in [Loads -> {"idle", "acquiring", "preparing", "importing",
                              "done"}]
    BY <2>1 DEF IInv, TypeOK
  <2> QED
    BY <2>1, <2>2, <2>3, <2>4 DEF IInv, TypeOK
<1>4. TokensAreClosed' /\ GateIsOwned' /\ PublicationIsExclusive' /\
     QueuesAreWaiting' /\ StateFollowsAttempt' /\ SettledIsShown' /\
     DiagnosticsAreCounted'
  BY DEF IInv, TokensAreClosed, GateIsOwned, PublicationIsExclusive,
         QueuesAreWaiting, StateFollowsAttempt, SettledIsShown,
         DiagnosticsAreCounted, Running, NoRepeats, AllWaiting, ShowsOnly
<1>5. StagesAgree'
  BY <1>1, <1>2 DEF IInv, TypeOK, StagesAgree
<1> QED
  BY <1>3, <1>4, <1>5 DEF IInv

\* The import throws before its commit.
LEMMA AdapterFailsStep ==
  ASSUME IInv, NEW l \in Loads, AdapterFails(l)
  PROVE  IInv'
<1> USE DEF AdapterFails
<1>1. TypeOK'
  BY DEF IInv, TypeOK
<1>2. QueuesAreWaiting' /\ StateFollowsAttempt' /\ SettledIsShown' /\
     DiagnosticsAreCounted'
  BY DEF IInv, QueuesAreWaiting, StateFollowsAttempt, SettledIsShown,
         DiagnosticsAreCounted, NoRepeats, AllWaiting, Running, ShowsOnly
<1>3. TokensAreClosed'
  BY DEF IInv, TypeOK, TokensAreClosed
<1>4. StagesAgree'
  BY DEF IInv, TypeOK, StagesAgree
<1>5. GateIsOwned'
  BY DEF IInv, TypeOK, GateIsOwned, Running
<1>6. PublicationIsExclusive'
  BY DEF IInv, TypeOK, PublicationIsExclusive
<1> QED
  BY <1>1, <1>2, <1>3, <1>4, <1>5, <1>6
  DEF IInv

\* The import sees the cancelled token while it binds authored mips.
LEMMA AdapterObservesCancellationStep ==
  ASSUME IInv, NEW l \in Loads, AdapterObservesCancellation(l)
  PROVE  IInv'
<1> USE DEF AdapterObservesCancellation
<1>1. TypeOK'
  BY DEF IInv, TypeOK
<1>2. QueuesAreWaiting' /\ StateFollowsAttempt' /\ SettledIsShown' /\
     DiagnosticsAreCounted'
  BY DEF IInv, QueuesAreWaiting, StateFollowsAttempt, SettledIsShown,
         DiagnosticsAreCounted, NoRepeats, AllWaiting, Running, ShowsOnly
<1>3. TokensAreClosed'
  BY DEF IInv, TypeOK, TokensAreClosed
<1>4. StagesAgree'
  BY DEF IInv, TypeOK, StagesAgree
<1>5. GateIsOwned'
  BY DEF IInv, TypeOK, GateIsOwned, Running
<1>6. PublicationIsExclusive'
  BY DEF IInv, TypeOK, PublicationIsExclusive
<1> QED
  BY <1>1, <1>2, <1>3, <1>4, <1>5, <1>6
  DEF IInv

\* The loader refuses a commit that comes after it returned.
LEMMA CommitRefusedByLoaderStep ==
  ASSUME IInv, NEW l \in Loads, CommitRefusedByLoader(l)
  PROVE  IInv'
<1> USE DEF CommitRefusedByLoader
<1>1. TypeOK'
  BY DEF IInv, TypeOK
<1>2. QueuesAreWaiting' /\ StateFollowsAttempt' /\ SettledIsShown' /\
     DiagnosticsAreCounted'
  BY DEF IInv, QueuesAreWaiting, StateFollowsAttempt, SettledIsShown,
         DiagnosticsAreCounted, NoRepeats, AllWaiting, Running, ShowsOnly
<1>3. TokensAreClosed'
  BY DEF IInv, TypeOK, TokensAreClosed
<1>4. StagesAgree'
  BY DEF IInv, TypeOK, StagesAgree
<1>5. GateIsOwned'
  BY DEF IInv, TypeOK, GateIsOwned, Running
<1>6. PublicationIsExclusive'
  BY DEF IInv, TypeOK, PublicationIsExclusive
<1> QED
  BY <1>1, <1>2, <1>3, <1>4, <1>5, <1>6
  DEF IInv

\* The controller refuses the commit of a load that is not current.
LEMMA CommitSupersededStep ==
  ASSUME IInv, NEW l \in Loads, CommitSuperseded(l)
  PROVE  IInv'
<1> USE DEF CommitSuperseded
<1>1. TypeOK'
  BY DEF IInv, TypeOK
<1>2. QueuesAreWaiting' /\ StateFollowsAttempt' /\ SettledIsShown' /\
     DiagnosticsAreCounted'
  BY DEF IInv, QueuesAreWaiting, StateFollowsAttempt, SettledIsShown,
         DiagnosticsAreCounted, NoRepeats, AllWaiting, Running, ShowsOnly
<1>3. TokensAreClosed'
  BY DEF IInv, TypeOK, TokensAreClosed
<1>4. StagesAgree'
  BY DEF IInv, TypeOK, StagesAgree
<1>5. GateIsOwned'
  BY DEF IInv, TypeOK, GateIsOwned, Running
<1>6. PublicationIsExclusive'
  BY DEF IInv, TypeOK, PublicationIsExclusive
<1> QED
  BY <1>1, <1>2, <1>3, <1>4, <1>5, <1>6
  DEF IInv

\* While a published load runs, it is the current attempt: an import that may
\* still commit finds the gate open.
LEMMA NoGateBeforeCommit ==
  ASSUME IInv, NEW l \in Loads, import[l] = "staging", ControllerAccepts(l)
  PROVE  acceptedFinalization = NoLoad /\ heldFinalization[l] = NoLoad
BY DEF IInv, TypeOK, GateIsOwned, PublicationIsExclusive, ControllerAccepts,
       Running

\* The token refuses: the gate that was opened for the commit is ended, and
\* nobody can have been waiting for it.
LEMMA CommitRefusedByTokenStep ==
  ASSUME IInv, NEW l \in Loads, CommitRefusedByToken(l)
  PROVE  IInv'
<1> USE DEF CommitRefusedByToken
<1>1. UNCHANGED gateVars
  BY NoGateBeforeCommit DEF EndFinalization
<1>2. TypeOK'
  BY <1>1 DEF IInv, TypeOK
<1>3. StateFollowsAttempt' /\ DiagnosticsAreCounted'
  BY DEF IInv, StateFollowsAttempt, DiagnosticsAreCounted, Running
<1>4. TokensAreClosed'
  BY <1>1 DEF IInv, TypeOK, TokensAreClosed
<1>5. StagesAgree'
  BY <1>1 DEF IInv, TypeOK, StagesAgree
<1>6. GateIsOwned'
  BY <1>1 DEF IInv, TypeOK, GateIsOwned, Running
<1>7. PublicationIsExclusive'
  BY <1>1 DEF IInv, TypeOK, PublicationIsExclusive
<1>8. QueuesAreWaiting'
  BY <1>1 DEF IInv, TypeOK, QueuesAreWaiting, NoRepeats, AllWaiting
<1>9. SettledIsShown'
  BY <1>1 DEF IInv, TypeOK, SettledIsShown, ShowsOnly
<1> QED
  BY <1>2, <1>3, <1>4, <1>5, <1>6, <1>7, <1>8, <1>9
  DEF IInv

\* Controller and token accept, and the scene is committed in the same turn.
LEMMA PublishStep ==
  ASSUME IInv, NEW l \in Loads, Publish(l), resuming = <<>>
  PROVE  IInv'
<1> USE DEF Publish, ControllerAccepts, TokenRefuses
<1>1. OpenedBy(l) = l /\ acceptedFinalization = NoLoad
  BY NoGateBeforeCommit DEF OpenedBy
<1>2. call[l] = "loading"
  BY DEF IInv, TypeOK, StagesAgree
<1>3. TokenOf[l] \in Tokens \cup {NoToken} /\ waiting = <<>> /\ resuming = <<>>
  BY <1>1 DEF IInv, GateIsOwned
<1>4. TypeOK'
  BY <1>1 DEF IInv, TypeOK
<1>5. QueuesAreWaiting' /\ StateFollowsAttempt' /\ DiagnosticsAreCounted'
  BY DEF IInv, QueuesAreWaiting, StateFollowsAttempt, DiagnosticsAreCounted,
         NoRepeats, AllWaiting, Running
<1>6. TokensAreClosed'
  BY <1>3 DEF IInv, TypeOK, TokensAreClosed, StagesAgree
<1>7. StagesAgree'
  BY <1>1, <1>2 DEF IInv, TypeOK, StagesAgree, TokensAreClosed
<1>8. GateIsOwned'
  BY <1>1, <1>2, <1>3 DEF IInv, TypeOK, GateIsOwned, Running
<1>9. PublicationIsExclusive'
  BY <1>1, <1>2 DEF IInv, TypeOK, PublicationIsExclusive
<1>10. SettledIsShown'
  BY <1>1, <1>2 DEF IInv, TypeOK, SettledIsShown, ShowsOnly
<1> QED
  BY <1>4, <1>5, <1>6, <1>7, <1>8, <1>9, <1>10
  DEF IInv

\* Future.any completes with the loader's result.
LEMMA SinkReturnsStep ==
  ASSUME IInv, NEW l \in Loads, SinkReturns(l)
  PROVE  IInv'
<1> USE DEF SinkReturns
<1>1. TypeOK'
  BY DEF IInv, TypeOK
<1>2. TokensAreClosed' /\ GateIsOwned' /\ PublicationIsExclusive' /\
     QueuesAreWaiting' /\ StateFollowsAttempt' /\ SettledIsShown'
  BY DEF IInv, TokensAreClosed, GateIsOwned, PublicationIsExclusive,
         QueuesAreWaiting, StateFollowsAttempt, SettledIsShown, Running,
         NoRepeats, AllWaiting, ShowsOnly
<1>3. StagesAgree'
  BY DEF IInv, TypeOK, StagesAgree
<1>4. DiagnosticsAreCounted'
  BY DEF IInv, TypeOK, DiagnosticsAreCounted
<1> QED
  BY <1>1, <1>2, <1>3, <1>4 DEF IInv

\* Future.any completes with the token's reason; no publication was accepted.
LEMMA CancellationReturnsStep ==
  ASSUME IInv, NEW l \in Loads, CancellationReturns(l)
  PROVE  IInv'
<1> USE DEF CancellationReturns
<1>1. TypeOK'
  BY DEF IInv, TypeOK
<1>2. TokensAreClosed' /\ GateIsOwned' /\ PublicationIsExclusive' /\
     QueuesAreWaiting' /\ StateFollowsAttempt' /\ SettledIsShown'
  BY DEF IInv, TokensAreClosed, GateIsOwned, PublicationIsExclusive,
         QueuesAreWaiting, StateFollowsAttempt, SettledIsShown, Running,
         NoRepeats, AllWaiting, ShowsOnly
<1>3. StagesAgree'
  BY DEF IInv, TypeOK, StagesAgree
<1>4. DiagnosticsAreCounted'
  BY DEF IInv, TypeOK, DiagnosticsAreCounted
<1> QED
  BY <1>1, <1>2, <1>3, <1>4 DEF IInv

\* The finally clause of a load that published nothing finds no gate to end.
LEMMA FinishUnpublished ==
  ASSUME IInv, NEW l \in Loads, call[l] # "done", import[l] # "published",
         EndFinalization(heldFinalization[l])
  PROVE  UNCHANGED gateVars
BY DEF IInv, GateIsOwned, EndFinalization

\* That of a load that published ends the gate, and who waited is resumed.
LEMMA FinishPublished ==
  ASSUME IInv, NEW l \in Loads, call[l] # "done", import[l] = "published",
         EndFinalization(heldFinalization[l])
  PROVE  /\ acceptedFinalization' = NoLoad
         /\ waiting' = <<>>
         /\ resuming' = waiting
<1>1. acceptedFinalization = l /\ heldFinalization[l] = l /\ resuming = <<>>
  BY DEF IInv, GateIsOwned, PublicationIsExclusive
<1>2. waiting \in Seq(Loads)
  BY DEF IInv, TypeOK
<1>3. <<>> \o waiting = waiting
  BY <1>2, ConcatEmptySeq
<1> QED
  BY <1>1, <1>3 DEF EndFinalization

\* A stale load ends (viewer_controller.dart:132-138); it published nothing.
LEMMA SettleStaleStep ==
  ASSUME IInv, NEW l \in Loads, SettleStale(l)
  PROVE  IInv'
<1> USE DEF SettleStale, Finish
<1>1. import[l] # "published" /\ acceptedFinalization # l
  BY DEF IInv, GateIsOwned, PublicationIsExclusive
<1>2. UNCHANGED gateVars
  BY <1>1, FinishUnpublished
<1>3. TypeOK'
  BY <1>2 DEF IInv, TypeOK
<1>4. TokensAreClosed'
  BY DEF IInv, TokensAreClosed
<1>5. StagesAgree'
  BY <1>1, <1>2 DEF IInv, TypeOK, StagesAgree
<1>6. GateIsOwned'
  BY <1>1, <1>2 DEF IInv, TypeOK, GateIsOwned, Running
<1>7. PublicationIsExclusive'
  BY <1>1, <1>2 DEF IInv, TypeOK, PublicationIsExclusive
<1>8. QueuesAreWaiting'
  BY <1>1, <1>2 DEF IInv, TypeOK, QueuesAreWaiting, NoRepeats, AllWaiting
<1>9. StateFollowsAttempt'
  BY <1>1, <1>2 DEF IInv, TypeOK, StateFollowsAttempt, Running
<1>10. SettledIsShown'
  BY <1>1, <1>2 DEF IInv, TypeOK, SettledIsShown, ShowsOnly
<1>11. DiagnosticsAreCounted'
  BY <1>1, <1>2 DEF IInv, TypeOK, DiagnosticsAreCounted
<1> QED
  BY <1>3, <1>4, <1>5, <1>6, <1>7, <1>8, <1>9, <1>10, <1>11
  DEF IInv

\* A cancelled current load ends (viewer_controller.dart:184-201) and gives
\* back the last settled state, which still describes the viewer.
LEMMA SettleCancelledStep ==
  ASSUME IInv, NEW l \in Loads, SettleCancelled(l)
  PROVE  IInv'
<1> USE DEF SettleCancelled, FinishLoadCancellation, Finish
<1>1. import[l] # "published" /\ terminal[l] = "cancelled"
  BY DEF IInv, TypeOK, TokensAreClosed, StagesAgree
<1>2. UNCHANGED gateVars /\ acceptedFinalization # l
  BY <1>1, FinishUnpublished DEF IInv, GateIsOwned
<1>3. TypeOK'
  BY <1>2 DEF IInv, TypeOK
<1>4. TokensAreClosed'
  BY DEF IInv, TokensAreClosed
<1>5. StagesAgree'
  BY <1>1, <1>2 DEF IInv, TypeOK, StagesAgree
<1>6. GateIsOwned'
  BY <1>1, <1>2 DEF IInv, TypeOK, GateIsOwned, Running
<1>7. PublicationIsExclusive'
  BY <1>1, <1>2 DEF IInv, TypeOK, PublicationIsExclusive
<1>8. QueuesAreWaiting'
  BY <1>1, <1>2 DEF IInv, TypeOK, QueuesAreWaiting, NoRepeats, AllWaiting
<1>9. StateFollowsAttempt'
  BY <1>1, <1>2 DEF IInv, TypeOK, StateFollowsAttempt, Running
<1>10. SettledIsShown'
  BY <1>1, <1>2 DEF IInv, TypeOK, SettledIsShown, ShowsOnly
<1>11. DiagnosticsAreCounted'
  BY <1>1, <1>2 DEF IInv, TypeOK, DiagnosticsAreCounted
<1> QED
  BY <1>3, <1>4, <1>5, <1>6, <1>7, <1>8, <1>9, <1>10, <1>11
  DEF IInv

\* A failed current load ends with an error (viewer_controller.dart:202-209).
LEMMA SettleFailedStep ==
  ASSUME IInv, NEW l \in Loads, SettleFailed(l)
  PROVE  IInv'
<1> USE DEF SettleFailed, SettleError, Finish
<1>1. import[l] # "published"
  BY DEF IInv, StagesAgree
<1>2. UNCHANGED gateVars
  BY <1>1, FinishUnpublished
<1>3. acceptedFinalization = NoLoad
  BY <1>1 DEF IInv, TypeOK, GateIsOwned, PublicationIsExclusive, Running
<1>4. TypeOK'
  BY <1>2 DEF IInv, TypeOK
<1>5. TokensAreClosed'
  BY DEF IInv, TokensAreClosed
<1>6. StagesAgree'
  BY <1>1, <1>2, <1>3 DEF IInv, TypeOK, StagesAgree
<1>7. GateIsOwned'
  BY <1>1, <1>2, <1>3 DEF IInv, TypeOK, GateIsOwned, Running
<1>8. PublicationIsExclusive'
  BY <1>1, <1>2, <1>3 DEF IInv, TypeOK, PublicationIsExclusive
<1>9. QueuesAreWaiting'
  BY <1>1, <1>2, <1>3 DEF IInv, TypeOK, QueuesAreWaiting, NoRepeats,
         AllWaiting
<1>10. StateFollowsAttempt'
  BY <1>1, <1>2, <1>3 DEF IInv, TypeOK, StateFollowsAttempt, Running
<1>11. SettledIsShown'
  BY <1>1, <1>2, <1>3 DEF IInv, TypeOK, SettledIsShown, ShowsOnly
<1>12. DiagnosticsAreCounted'
  BY <1>1, <1>2, <1>3 DEF IInv, TypeOK, DiagnosticsAreCounted
<1> QED
  BY <1>4, <1>5, <1>6, <1>7, <1>8, <1>9, <1>10, <1>11, <1>12
  DEF IInv

\* A success is finalized (viewer_controller.dart:149-160): it published, so
\* it holds the gate already.
LEMMA FinalizationStartsStep ==
  ASSUME IInv, NEW l \in Loads, FinalizationStarts(l)
  PROVE  IInv'
<1> USE DEF FinalizationStarts
<1>1. import[l] = "published" /\ snapshot[l] = l
  BY DEF IInv, StagesAgree
<1>2. heldFinalization[l] = l /\ acceptedFinalization = l
  BY <1>1 DEF IInv, GateIsOwned, PublicationIsExclusive
<1>3. TypeOK'
  BY <1>1, <1>2 DEF IInv, TypeOK
<1>4. TokensAreClosed'
  BY DEF IInv, TokensAreClosed
<1>5. StagesAgree'
  BY <1>1, <1>2 DEF IInv, TypeOK, StagesAgree
<1>6. GateIsOwned'
  BY <1>1, <1>2 DEF IInv, TypeOK, GateIsOwned, Running
<1>7. PublicationIsExclusive'
  BY <1>1, <1>2 DEF IInv, TypeOK, PublicationIsExclusive
<1>8. QueuesAreWaiting'
  BY <1>1, <1>2 DEF IInv, TypeOK, QueuesAreWaiting, NoRepeats, AllWaiting
<1>9. StateFollowsAttempt'
  BY <1>1, <1>2 DEF IInv, TypeOK, StateFollowsAttempt, Running
<1>10. SettledIsShown'
  BY <1>1, <1>2 DEF IInv, TypeOK, SettledIsShown, ShowsOnly
<1>11. DiagnosticsAreCounted'
  BY <1>1, <1>2 DEF IInv, TypeOK, DiagnosticsAreCounted
<1> QED
  BY <1>3, <1>4, <1>5, <1>6, <1>7, <1>8, <1>9, <1>10, <1>11
  DEF IInv

\* The authored patches are applied (viewer_controller.dart:161-168); the
\* cancelled branch is dead for a load that published.
LEMMA AuthoredPatchesAppliedStep ==
  ASSUME IInv, NEW l \in Loads, AuthoredPatchesApplied(l)
  PROVE  IInv'
<1> USE DEF AuthoredPatchesApplied
<1>1. import[l] = "published" /\ outcome[l] = "success" /\ terminal[l] = "success"
  BY DEF IInv, TypeOK, StagesAgree
<1>2. ~Cancelled(l)
  BY <1>1 DEF IInv, TypeOK, TokensAreClosed
<1>3. TypeOK'
  BY <1>2 DEF IInv, TypeOK
<1>4. TokensAreClosed'
  BY <1>1, <1>2 DEF IInv, TypeOK, TokensAreClosed
<1>5. StagesAgree'
  BY <1>1, <1>2 DEF IInv, TypeOK, StagesAgree
<1>6. GateIsOwned'
  BY <1>1, <1>2 DEF IInv, TypeOK, GateIsOwned, Running
<1>7. PublicationIsExclusive'
  BY <1>1, <1>2 DEF IInv, TypeOK, PublicationIsExclusive
<1>8. QueuesAreWaiting'
  BY <1>1, <1>2 DEF IInv, TypeOK, QueuesAreWaiting, NoRepeats, AllWaiting
<1>9. StateFollowsAttempt'
  BY <1>1, <1>2 DEF IInv, TypeOK, StateFollowsAttempt, Running
<1>10. SettledIsShown'
  BY <1>1, <1>2 DEF IInv, TypeOK, SettledIsShown, ShowsOnly
<1>11. DiagnosticsAreCounted'
  BY <1>1, <1>2 DEF IInv, TypeOK, DiagnosticsAreCounted
<1> QED
  BY <1>3, <1>4, <1>5, <1>6, <1>7, <1>8, <1>9, <1>10, <1>11
  DEF IInv

\* An initial override is recorded (viewer_controller.dart:547-574).
LEMMA InitialOverrideAppliedStep ==
  ASSUME IInv, NEW l \in Loads, InitialOverrideApplied(l)
  PROVE  IInv'
<1> USE DEF InitialOverrideApplied
<1>1. import[l] = "published" /\ outcome[l] = "success" /\ terminal[l] = "success"
  BY DEF IInv, TypeOK, StagesAgree
<1>2. acceptedFinalization = l
  BY <1>1 DEF IInv, PublicationIsExclusive
<1>3. TypeOK'
  BY DEF IInv, TypeOK
<1>4. TokensAreClosed' /\ StagesAgree' /\ GateIsOwned' /\
     PublicationIsExclusive' /\ QueuesAreWaiting' /\ StateFollowsAttempt' /\
     DiagnosticsAreCounted'
  BY DEF IInv, TokensAreClosed, StagesAgree, GateIsOwned,
         PublicationIsExclusive, QueuesAreWaiting, StateFollowsAttempt,
         DiagnosticsAreCounted, Running, NoRepeats, AllWaiting
<1>5. SettledIsShown'
  BY <1>2 DEF IInv, TypeOK, SettledIsShown, ShowsOnly
<1> QED
  BY <1>3, <1>4, <1>5 DEF IInv

\* The load settles as a success (viewer_controller.dart:173-182).
LEMMA InitialOverridesDoneStep ==
  ASSUME IInv, NEW l \in Loads, InitialOverridesDone(l)
  PROVE  IInv'
<1> USE DEF InitialOverridesDone, Finish
<1>1. import[l] = "published" /\ outcome[l] = "success" /\ terminal[l] = "success"
  BY DEF IInv, TypeOK, StagesAgree
<1>2. ~Cancelled(l)
  BY <1>1 DEF IInv, TypeOK, TokensAreClosed
<1>3. acceptedFinalization = l /\ IsCurrentLoadAttempt(l) /\ liveScene = l
  BY <1>1 DEF IInv, PublicationIsExclusive
<1>4. acceptedFinalization' = NoLoad /\ waiting' = <<>> /\ resuming' = waiting
  BY <1>1, <1>2, FinishPublished
<1>5. TypeOK'
  <2>1. /\ waiting' \in Seq(Loads) /\ resuming' \in Seq(Loads)
        /\ acceptedFinalization' \in MaybeLoad
    BY <1>4, EmptySeq DEF IInv, TypeOK
  <2>2. /\ loadState' = State("success", l)
        /\ lastSettledLoadState' = State("success", l)
        /\ call' = [call EXCEPT ![l] = "done"]
        /\ UNCHANGED <<attached, activeLoadAttempt, partTree,
                       materialOverrides, cancelDiagnostics>>
        /\ UNCHANGED <<heldFinalization, terminal, loaderVars, adapterVars,
                       tokenVars>>
    BY <1>2
  <2> HIDE DEF InitialOverridesDone
  <2> QED
    BY <2>1, <2>2 DEF IInv, TypeOK
<1>6. TokensAreClosed'
  BY <1>1, <1>2, <1>3, <1>4 DEF IInv, TypeOK, TokensAreClosed
<1>7. StagesAgree'
  BY <1>1, <1>2, <1>3, <1>4 DEF IInv, TypeOK, StagesAgree
<1>8. GateIsOwned'
  BY <1>1, <1>2, <1>3, <1>4 DEF IInv, TypeOK, GateIsOwned, Running
<1>9. PublicationIsExclusive'
  BY <1>1, <1>2, <1>3, <1>4 DEF IInv, TypeOK, PublicationIsExclusive
<1>10. QueuesAreWaiting'
  BY <1>1, <1>2, <1>3, <1>4 DEF IInv, TypeOK, QueuesAreWaiting, NoRepeats,
         AllWaiting
<1>11. StateFollowsAttempt'
  BY <1>1, <1>2, <1>3, <1>4 DEF IInv, TypeOK, StateFollowsAttempt, Running
<1>12. SettledIsShown'
  BY <1>1, <1>2, <1>3, <1>4 DEF IInv, TypeOK, SettledIsShown, ShowsOnly
<1>13. DiagnosticsAreCounted'
  BY <1>1, <1>2, <1>3, <1>4 DEF IInv, TypeOK, DiagnosticsAreCounted
<1> QED
  BY <1>5, <1>6, <1>7, <1>8, <1>9, <1>10, <1>11, <1>12, <1>13
  DEF IInv

\* The sink throws (viewer_controller.dart:210-214): the load settles as error.
LEMMA FinalizationThrowsStep ==
  ASSUME IInv, NEW l \in Loads, FinalizationThrows(l)
  PROVE  IInv'
<1> USE DEF FinalizationThrows, SettleError, Finish
<1>1. import[l] = "published" /\ outcome[l] = "success" /\ terminal[l] = "success"
  BY DEF IInv, TypeOK, StagesAgree
<1>2. acceptedFinalization = l /\ IsCurrentLoadAttempt(l) /\ liveScene = l
  BY <1>1 DEF IInv, PublicationIsExclusive
<1>3. acceptedFinalization' = NoLoad /\ waiting' = <<>> /\ resuming' = waiting
  BY <1>1, FinishPublished
<1>4. loadState' \in LoadState /\ lastSettledLoadState' \in LoadState
  BY <1>2
<1>5. TypeOK'
  <2>1. /\ waiting' \in Seq(Loads) /\ resuming' \in Seq(Loads)
        /\ acceptedFinalization' \in MaybeLoad
    BY <1>3, EmptySeq DEF IInv, TypeOK
  <2>2. /\ call' \in [Loads -> {"idle", "waiting", "loading", "authored",
                             "initial", "done"}]
        /\ partTree' \in MaybeLoad /\ materialOverrides' \in SUBSET Loads
        /\ UNCHANGED <<attached, activeLoadAttempt>>
    BY <1>2 DEF IInv, TypeOK
  <2>3. UNCHANGED <<heldFinalization, terminal, cancelDiagnostics, loaderVars,
                    adapterVars, tokenVars>>
    OBVIOUS
  <2> HIDE DEF FinalizationThrows
  <2> QED
    BY <1>4, <2>1, <2>2, <2>3 DEF IInv, TypeOK
<1>6. TokensAreClosed'
  BY <1>1, <1>2, <1>3 DEF IInv, TypeOK, TokensAreClosed
<1>7. StagesAgree'
  BY <1>1, <1>2, <1>3 DEF IInv, TypeOK, StagesAgree
<1>8. GateIsOwned'
  BY <1>1, <1>2, <1>3 DEF IInv, TypeOK, GateIsOwned, Running
<1>9. PublicationIsExclusive'
  BY <1>1, <1>2, <1>3 DEF IInv, TypeOK, PublicationIsExclusive
<1>10. QueuesAreWaiting'
  BY <1>1, <1>2, <1>3 DEF IInv, TypeOK, QueuesAreWaiting, NoRepeats,
         AllWaiting
<1>11. StateFollowsAttempt'
  BY <1>1, <1>2, <1>3 DEF IInv, TypeOK, StateFollowsAttempt, Running
<1>12. SettledIsShown'
  BY <1>1, <1>2, <1>3 DEF IInv, TypeOK, SettledIsShown, ShowsOnly
<1>13. DiagnosticsAreCounted'
  BY <1>1, <1>2, <1>3 DEF IInv, TypeOK, DiagnosticsAreCounted
<1> QED
  BY <1>5, <1>6, <1>7, <1>8, <1>9, <1>10, <1>11, <1>12, <1>13
  DEF IInv

-----------------------------------------------------------------------------
(* The invariant is inductive, and what follows from it.                   *)

\* No step breaks the invariant.
LEMMA NextIInv == IInv /\ [Next]_vars => IInv'
<1> SUFFICES ASSUME IInv, [Next]_vars PROVE IInv'
  OBVIOUS
<1>1. ASSUME NEW l \in Loads, Request(l) PROVE IInv'
  BY <1>1, LoadPreCancelledStep, LoadWaitsStep, LoadStartsStep DEF Request
<1>2. ASSUME NEW t \in Tokens, Cancel(t) PROVE IInv'
  BY <1>2, CancelStep
<1>3. CASE Attach \/ Detach
  BY <1>3, AttachStep, DetachStep
<1>4. CASE LoadResumes
  BY <1>4, LoadResumesStep
<1>5. ASSUME NEW l \in Loads, LoaderStep(l) PROVE IInv'
  BY <1>5, SourceAcquiredStep, LoaderObservesCancellationStep,
     LoaderFailsStep, ImportStartsStep, ImportTimesOutStep, ImportReturnsStep
  DEF LoaderStep
<1>6. ASSUME NEW l \in Loads, resuming = <<>>, AdapterStep(l) PROVE IInv'
  BY <1>6, AdapterFailsStep, AdapterObservesCancellationStep,
     CommitRefusedByLoaderStep, CommitSupersededStep,
     CommitRefusedByTokenStep, PublishStep DEF AdapterStep
<1>7. ASSUME NEW l \in Loads, ControllerStep(l) PROVE IInv'
  BY <1>7, SinkReturnsStep, CancellationReturnsStep, SettleStaleStep,
     SettleCancelledStep, SettleFailedStep, FinalizationStartsStep,
     AuthoredPatchesAppliedStep, InitialOverrideAppliedStep,
     InitialOverridesDoneStep, FinalizationThrowsStep
  DEF ControllerStep, ResultStep, PatchStep
<1>8. CASE UNCHANGED vars
  <2> USE <1>8 DEF vars
  <2>1. TypeOK' /\ TokensAreClosed' /\ DiagnosticsAreCounted'
    BY DEF IInv, TypeOK, TokensAreClosed, DiagnosticsAreCounted
  <2>2. StagesAgree' /\ GateIsOwned' /\ PublicationIsExclusive'
    BY DEF IInv, StagesAgree, GateIsOwned, Running, PublicationIsExclusive
  <2>3. QueuesAreWaiting'
    BY DEF IInv, QueuesAreWaiting, NoRepeats, AllWaiting
  <2>4. StateFollowsAttempt' /\ SettledIsShown'
    BY DEF IInv, StateFollowsAttempt, SettledIsShown, ShowsOnly, Running
  <2> QED
    BY <2>1, <2>2, <2>3, <2>4 DEF IInv
<1> QED
  BY <1>1, <1>2, <1>3, <1>4, <1>5, <1>6, <1>7, <1>8 DEF Next

\* The inductive invariant holds throughout: the gate, the queue of waiting
\* loads, the tokens and the stages of every load stay in step.
THEOREM InvariantHolds == SafetySpec => []IInv
BY InitIInv, NextIInv, PTL DEF SafetySpec

\* Every reachable state of the load pipeline is well typed.
THEOREM TypeCorrect == SafetySpec => []TypeOK
<1>1. IInv => TypeOK
  BY DEF IInv
<1> QED
  BY <1>1, InvariantHolds, PTL

\* Whatever loads overlap, a reported success describes the live scene, the
\* exposed part tree and the recorded overrides.
THEOREM SuccessCoherent == SafetySpec => []SuccessIsCoherent
<1>1. IInv => SuccessIsCoherent
  <2> SUFFICES ASSUME IInv, loadState.status = "success"
               PROVE  /\ liveScene = loadState.source
                      /\ ShowsOnly(loadState.source)
    BY DEF SuccessIsCoherent, ShowsOnly
  <2>1. loadState = lastSettledLoadState
    BY DEF IInv, StateFollowsAttempt
  <2>2. acceptedFinalization = NoLoad
    <3> SUFFICES ASSUME acceptedFinalization # NoLoad PROVE FALSE
      OBVIOUS
    <3>1. /\ acceptedFinalization \in Loads
          /\ Running(acceptedFinalization)
          /\ activeLoadAttempt = acceptedFinalization
      BY DEF IInv, TypeOK, GateIsOwned, PublicationIsExclusive, Running
    <3> QED
      BY <3>1 DEF IInv, StateFollowsAttempt
  <2> QED
    BY <2>1, <2>2 DEF IInv, SettledIsShown
<1> QED
  BY <1>1, InvariantHolds, PTL

\* From commit to finally a published load keeps the viewer to itself.
THEOREM PublicationExclusive == SafetySpec => []PublicationIsExclusive
<1>1. IInv => PublicationIsExclusive
  BY DEF IInv
<1> QED
  BY <1>1, InvariantHolds, PTL

\* No published load is cancelled: its token closed without a reason.  And
\* cancellation is reported once, and only when it won.
THEOREM CancellationCoherent == SafetySpec => []CancellationIsCoherent
<1>1. IInv => CancellationIsCoherent
  <2> SUFFICES ASSUME IInv, NEW l \in Loads
               PROVE  /\ import[l] = "published" =>
                           ~Cancelled(l) /\ terminal[l] # "cancelled"
                      /\ call[l] = "done" =>
                           cancelDiagnostics[l] =
                             IF terminal[l] = "cancelled" THEN 1 ELSE 0
    BY DEF CancellationIsCoherent
  <2>1. import[l] = "published" => ~Cancelled(l)
    BY DEF IInv, TypeOK, TokensAreClosed
  <2>2. import[l] = "published" => terminal[l] # "cancelled"
    BY <2>1 DEF IInv, StagesAgree
  <2>3. call[l] = "done" =>
          cancelDiagnostics[l] = IF terminal[l] = "cancelled" THEN 1 ELSE 0
    BY DEF IInv, DiagnosticsAreCounted
  <2> QED
    BY <2>1, <2>2, <2>3
<1> QED
  BY <1>1, InvariantHolds, PTL

\* A loading state always has a running load behind it.
THEOREM LoadingAlive == SafetySpec => []LoadingIsAlive
<1>1. IInv => LoadingIsAlive
  BY DEF IInv, StateFollowsAttempt, Running, LoadingIsAlive
<1> QED
  BY <1>1, InvariantHolds, PTL

-----------------------------------------------------------------------------
(* The load pipeline implements PublicationSlot: every step of Next is a    *)
(* step of the slot or leaves it alone.                                     *)

SlotPhase == [l \in Loads |-> Phase(l)]
Withdrawn == {l \in Loads : Cancelled(l)}

\* Both start with an empty slot.
LEMMA SlotInitial == Init => Slot!SlotInit
BY DEF Init, Slot!SlotInit, Phase

\* The slot does not see a step that keeps the calls, the attempt, the scene,
\* the cancelled tokens and the set of published imports.
LEMMA QuietStep ==
  ASSUME UNCHANGED <<call, activeLoadAttempt, liveScene, cancelled>>,
         \A m \in Loads : (import'[m] = "published") <=> (import[m] = "published")
  PROVE  UNCHANGED Slot!slotVars
BY DEF Slot!slotVars, Phase

\* One load's phase is all that a step changes.
LEMMA OnePhaseStep ==
  ASSUME NEW l \in Loads,
         \A m \in Loads \ {l} : /\ call'[m] = call[m]
                                /\ import'[m] = import[m]
  PROVE  SlotPhase' = [SlotPhase EXCEPT ![l] = Phase(l)']
BY DEF SlotPhase, Phase

\* A load that becomes the current attempt takes the slot over.
LEMMA AttemptRefines ==
  ASSUME IInv, NEW l \in Loads, StartAttempt(l),
         call[l] \in {"idle", "waiting"}, acceptedFinalization = NoLoad,
         UNCHANGED <<adapterVars, tokenVars>>
  PROVE  Slot!Start(l) \/ Slot!Drop(l)
<1>1. import[l] = "none" /\ Phase(l) = "idle"
  BY DEF IInv, StagesAgree, Phase
<1>2. \A m \in Loads : Phase(m) # "committed"
  BY NoLoadAssumption DEF IInv, PublicationIsExclusive, Phase
<1>3. SlotPhase' = [SlotPhase EXCEPT ![l] = Phase(l)']
  BY OnePhaseStep DEF StartAttempt, IInv, TypeOK
<1>4. CASE ~attached
  <2>1. Phase(l)' = "dropped" /\ UNCHANGED activeLoadAttempt
    BY <1>1, <1>4 DEF StartAttempt, IInv, TypeOK, Phase
  <2> QED
    BY <1>1, <1>3, <2>1 DEF Slot!Drop, SlotPhase
<1>5. CASE attached
  <2>1. Phase(l)' = "pending" /\ activeLoadAttempt' = l
    BY <1>1, <1>5 DEF StartAttempt, IInv, TypeOK, Phase
  <2> QED
    BY <1>1, <1>2, <1>3, <2>1 DEF Slot!Start, SlotPhase
<1> QED
  BY <1>4, <1>5

\* A load that ends drops out, or settles if it had published.
LEMMA FinishRefines ==
  ASSUME IInv, NEW l \in Loads, Running(l), Finish(l),
         UNCHANGED <<activeLoadAttempt, adapterVars, tokenVars>>
  PROVE  Slot!Settle(l) \/ Slot!Drop(l)
<1>1. SlotPhase' = [SlotPhase EXCEPT ![l] = Phase(l)']
  BY OnePhaseStep DEF Finish, IInv, TypeOK
<1>2. call[l] \notin {"done", "idle", "waiting"} /\ call'[l] = "done"
  BY DEF Running, Finish, IInv, TypeOK
<1>3. CASE import[l] = "published"
  <2>1. Phase(l) = "committed" /\ Phase(l)' = "settled"
    BY <1>2, <1>3 DEF Phase
  <2>2. activeLoadAttempt = l /\ liveScene = l
    BY <1>2, <1>3 DEF IInv, PublicationIsExclusive
  <2>3. ~Cancelled(l)
    BY <1>3 DEF IInv, TypeOK, TokensAreClosed
  <2> QED
    BY <1>1, <2>1, <2>2, <2>3 DEF Slot!Settle, SlotPhase
<1>4. CASE import[l] # "published"
  <2>1. Phase(l) = "pending" /\ Phase(l)' = "dropped"
    BY <1>2, <1>4 DEF Phase
  <2> QED
    BY <1>1, <2>1 DEF Slot!Drop, SlotPhase
<1> QED
  BY <1>3, <1>4

\* A call of load starts, drops out, or changes nothing the slot sees.
LEMMA RequestRefines ==
  ASSUME IInv, NEW l \in Loads, Request(l)
  PROVE  [Slot!SlotNext]_Slot!slotVars
<1>1. CASE LoadPreCancelled(l)
  <2>1. Phase(l) = "idle" /\ Phase(l)' = "dropped"
    BY <1>1 DEF LoadPreCancelled, IInv, TypeOK, StagesAgree, Phase
  <2>2. SlotPhase' = [SlotPhase EXCEPT ![l] = Phase(l)']
    BY <1>1, OnePhaseStep DEF LoadPreCancelled, IInv, TypeOK
  <2> QED
    BY <1>1, <2>1, <2>2 DEF LoadPreCancelled, Slot!SlotNext, Slot!Drop,
       SlotPhase
<1>2. CASE LoadWaits(l)
  <2>1. Phase(l) = Phase(l)'
    BY <1>2 DEF LoadWaits, IInv, TypeOK, Phase
  <2>2. SlotPhase' = [SlotPhase EXCEPT ![l] = Phase(l)']
    BY <1>2, OnePhaseStep DEF LoadWaits, IInv, TypeOK
  <2> QED
    BY <1>2, <2>1, <2>2 DEF LoadWaits, Slot!slotVars, SlotPhase
<1>3. CASE LoadStarts(l)
  BY <1>3, AttemptRefines DEF LoadStarts, Slot!SlotNext
<1> QED
  BY <1>1, <1>2, <1>3 DEF Request

\* So does a load whose wait for the gate ends.
LEMMA ResumeRefines ==
  ASSUME IInv, LoadResumes
  PROVE  [Slot!SlotNext]_Slot!slotVars
<1> DEFINE l == Head(resuming)
<1>1. resuming \in Seq(Loads) /\ resuming # <<>> /\ l = resuming[1]
      /\ l \in Loads /\ Len(resuming) \in Nat \ {0}
  BY HeadTailProperties, EmptySeq, LenProperties DEF LoadResumes, IInv, TypeOK
<1>2. call[l] = "waiting" /\ acceptedFinalization = NoLoad
  BY <1>1 DEF IInv, QueuesAreWaiting, AllWaiting, GateIsOwned
<1> QED
  BY <1>1, <1>2, AttemptRefines DEF LoadResumes, Slot!SlotNext

\* Cancelling a token withdraws every load that carries it; none of them can
\* have committed.
LEMMA CancelRefines ==
  ASSUME IInv, NEW t \in Tokens, Cancel(t)
  PROVE  Slot!Withdraw
<1> DEFINE W == {l \in Loads : TokenOf[l] = t}
<1>1. ASSUME NEW l \in W PROVE Phase(l) \notin {"committed", "settled"}
  BY DEF Cancel, IInv, TokensAreClosed, Phase
<1>2. Withdrawn' = Withdrawn \cup W
  BY DEF Withdrawn, Cancel
<1> QED
  BY <1>1, <1>2 DEF Slot!Withdraw, Withdrawn, Cancel, Phase

\* Only an accepted publication is a commit; every refusal leaves the slot
\* alone.
LEMMA AdapterRefines ==
  ASSUME IInv, NEW l \in Loads, AdapterStep(l)
  PROVE  [Slot!SlotNext]_Slot!slotVars
<1>1. CASE Publish(l)
  <2>1. call[l] \notin {"done", "idle", "waiting"} /\ activeLoadAttempt = l
    BY <1>1 DEF Publish, ControllerAccepts, IInv, TypeOK, StagesAgree
  <2>2. Phase(l) = "pending" /\ Phase(l)' = "committed"
    BY <1>1, <2>1 DEF Publish, IInv, TypeOK, Phase
  <2>3. SlotPhase' = [SlotPhase EXCEPT ![l] = Phase(l)']
    BY <1>1, OnePhaseStep DEF Publish, IInv, TypeOK
  <2> QED
    BY <1>1, <2>1, <2>2, <2>3
    DEF Publish, TokenRefuses, Slot!SlotNext, Slot!Commit, SlotPhase
<1>2. CASE ~Publish(l)
  <2>1. /\ UNCHANGED <<call, activeLoadAttempt, liveScene, cancelled>>
        /\ \E result \in {"failed", "rejected", "superseded"} :
             import' = [import EXCEPT ![l] = result]
        /\ import[l] = "staging"
    BY <1>2 DEF AdapterStep, AdapterFails, AdapterObservesCancellation,
       CommitRefusedByLoader, CommitSuperseded, CommitRefusedByToken
  <2> QED
    BY <2>1, QuietStep DEF IInv, TypeOK
<1> QED
  BY <1>1, <1>2

\* The slot does not see the loader.
LEMMA LoaderRefines ==
  ASSUME IInv, NEW l \in Loads, LoaderStep(l)
  PROVE  UNCHANGED Slot!slotVars
<1>1. CASE ImportStarts(l)
  <2>1. import[l] = "none"
    BY <1>1 DEF ImportStarts, IInv, StagesAgree
  <2> QED
    BY <1>1, <2>1, QuietStep DEF ImportStarts, IInv, TypeOK
<1>2. CASE ~ImportStarts(l)
  BY <1>2, QuietStep
  DEF LoaderStep, SourceAcquired, LoaderObservesCancellation, LoaderFails,
      ImportTimesOut, ImportReturns
<1> QED
  BY <1>1, <1>2

\* A load that ends settles if it committed and drops out otherwise.
LEMMA ControllerRefines ==
  ASSUME IInv, NEW l \in Loads, ControllerStep(l)
  PROVE  [Slot!SlotNext]_Slot!slotVars
<1>1. CASE SinkReturns(l) \/ CancellationReturns(l)
             \/ InitialOverrideApplied(l)
  BY <1>1, QuietStep
  DEF SinkReturns, CancellationReturns, InitialOverrideApplied
<1>2. CASE Running(l) /\ Finish(l)
             /\ UNCHANGED <<activeLoadAttempt, adapterVars, tokenVars>>
  BY <1>2, FinishRefines DEF Slot!SlotNext
<1>3. CASE SettleStale(l) \/ SettleCancelled(l) \/ SettleFailed(l)
             \/ FinalizationThrows(l)
  BY <1>2, <1>3
  DEF SettleStale, SettleCancelled, SettleFailed, SettleError,
      FinalizationThrows, FinishLoadCancellation, Running
<1>4. CASE InitialOverridesDone(l) \/ AuthoredPatchesApplied(l)
             \/ FinalizationStarts(l)
  <2>1. CASE Finish(l)
    BY <1>2, <1>4, <2>1
    DEF InitialOverridesDone, AuthoredPatchesApplied, FinalizationStarts,
        FinishLoadCancellation, Running
  <2>2. CASE ~Finish(l)
    <3>1. /\ Running(l)
          /\ call' = [call EXCEPT ![l] = "authored"]
               \/ call' = [call EXCEPT ![l] = "initial"]
          /\ UNCHANGED <<activeLoadAttempt, adapterVars, tokenVars>>
      BY <1>4, <2>2
      DEF InitialOverridesDone, AuthoredPatchesApplied, FinalizationStarts,
          FinishLoadCancellation, Running
    <3>2. Phase(l)' = Phase(l)
      BY <3>1 DEF IInv, TypeOK, Running, Phase
    <3>3. SlotPhase' = [SlotPhase EXCEPT ![l] = Phase(l)']
      BY <3>1, OnePhaseStep DEF IInv, TypeOK
    <3> QED
      BY <3>1, <3>2, <3>3 DEF Slot!slotVars, SlotPhase
  <2> QED
    BY <2>1, <2>2
<1> QED
  BY <1>1, <1>3, <1>4 DEF ControllerStep, ResultStep, PatchStep

\* Every step of the pipeline is a step of the slot or leaves it alone.
LEMMA NextRefines == IInv /\ [Next]_vars => [Slot!SlotNext]_Slot!slotVars
<1> SUFFICES ASSUME IInv, [Next]_vars PROVE [Slot!SlotNext]_Slot!slotVars
  OBVIOUS
<1>1. CASE Attach \/ Detach \/ UNCHANGED vars
  BY <1>1, QuietStep DEF Attach, Detach, vars
<1>2. ASSUME NEW t \in Tokens, Cancel(t) PROVE Slot!SlotNext
  BY <1>2, CancelRefines DEF Slot!SlotNext
<1> QED
  BY <1>1, <1>2, RequestRefines, ResumeRefines, LoaderRefines, AdapterRefines,
     ControllerRefines DEF Next

\* The controller, the loader, the adapter and the tokens together implement
\* the slot: only the holder commits, nobody starts while a committed load
\* settles, and a cancelled load never commits.
THEOREM Refinement == SafetySpec => ImplementsSlot
BY SlotInitial, NextRefines, InvariantHolds, PTL
DEF SafetySpec, ImplementsSlot, Slot!SlotSpec
=============================================================================
