------------------------- MODULE NativeDecodeProofs -------------------------
(***************************************************************************)
(* Proofs about NativeDecode, for any number of requests and workers and   *)
(* either platform.  None of the safety properties is inductive: that no   *)
(* cancelled request delivers its output, say, rests on the one place a    *)
(* request's task can be at, on what the entry's state was when the task   *)
(* finished and on the order of the calls in the channel.  Inv collects    *)
(* what each part knows of the others.                                     *)
(***************************************************************************)
EXTENDS NativeDecode, TLAPS

DecodeInFlight(r, i) ==
  i \in DOMAIN toPlatform /\ toPlatform[i] = Call("decodeGlb", r)

Unsent == {"idle", "undispatched"}

\* The calls of a request: its decodeGlb is sent once and before anything
\* else is known of it, its cancelDecode after that and once.
ChannelInvOf(r) ==
  /\ stage[r] \in Unsent =>
       /\ \A i \in DOMAIN toPlatform : toPlatform[i].request # r
       /\ entry[r] = "none" /\ replies[r] = <<>> /\ acks[r] = "none"
  /\ \A i \in DOMAIN toPlatform :
       DecodeInFlight(r, i) =>
         /\ entry[r] = "none" /\ replies[r] = <<>> /\ acks[r] = "none"
         /\ \A j \in DOMAIN toPlatform :
              /\ DecodeInFlight(r, j) => i = j
              /\ CancelInFlight(r, j) => i < j
  /\ (entry[r] = "none" /\ replies[r] = <<>> /\ stage[r] \notin Unsent) =>
       \E i \in DOMAIN toPlatform : DecodeInFlight(r, i)

ChannelInv == \A r \in Requests : ChannelInvOf(r)

\* The entry of a request, its place in active, its completion, its answer.
EntryInvOf(r) ==
  /\ entry[r] = "none" =>
       /\ r \notin active /\ r \notin delivered
       /\ Range(replies[r]) \subseteq Errors
  /\ r \in active =>
       /\ entry[r] \in IF Detached THEN {"detached"}
                       ELSE {"active", "cancelled"}
       /\ posted[r] = NotPosted /\ r \notin delivered
       /\ replies[r] = <<>>
  /\ r \notin active =>
       /\ entry[r] \in {"none", "finished", "detached"}
       /\ entry[r] = "detached" => detach = "drained"
  /\ posted[r] # NotPosted =>
       /\ posted[r] \in Completion
       /\ entry[r] = "finished"
       /\ replies[r] = <<>> /\ r \notin delivered
       /\ posted[r].disposition = "detached" => Detached
  /\ entry[r] = "detached" => replies[r] = <<>>

EntryInv == \A r \in Requests : EntryInvOf(r)

\* The task of a request is at one place, and its entry is active until then.
TaskInv ==
  /\ \A i \in DOMAIN queue : queue[i] \in active
  /\ \A i, j \in DOMAIN queue : queue[i] = queue[j] => i = j
  /\ \A w \in Workers :
       /\ worker[w].phase = "idle" => worker[w] = IdleWorker
       /\ worker[w].phase # "idle" => worker[w].request \in active
       /\ worker[w].phase # "idle" =>
            \A i \in DOMAIN queue : queue[i] # worker[w].request
       /\ \A v \in Workers :
            worker[v].phase # "idle" /\ worker[v].request = worker[w].request
              => v = w

\* A drained registry is empty.
DrainedInv == detach = "drained" => active = {}

\* Who was told "cancelled" has an entry, or a completion, that says so.
CancelInv ==
  \A r \in Requests :
    /\ acks[r] = "cancelled" =>
         /\ entry[r] \in {"cancelled", "detached", "finished"}
         /\ posted[r].disposition # "success"
         /\ Range(replies[r]) \subseteq Errors
    /\ entry[r] = "cancelled" => acks[r] = "cancelled"

\* Android answers null to nobody: a task that skipped the codec was stopped.
OutputInv ==
  Platform = "android" =>
    /\ \A w \in Workers :
         worker[w].phase = "returned" /\ worker[w].output = "none" =>
           entry[worker[w].request] # "active"
    /\ \A r \in Requests :
         posted[r].disposition = "success" => posted[r].output # "none"

\* A finished request that the history does not hold was pushed out of it.
HistoryInv ==
  \A r \in Requests :
    entry[r] = "finished" /\ ~Detached /\ r \notin Range(finished) =>
      Len(finished) = MaxFinished

Inv ==
  /\ TypeOK
  /\ ChannelInv
  /\ EntryInv
  /\ TaskInv
  /\ DrainedInv
  /\ CancelInv
  /\ OutputInv
  /\ HistoryInv
  /\ RepliesAtMostOnce
  /\ RegistryOwnsControls
  /\ CancelSentOnce
  /\ CancelFindsRequest

-----------------------------------------------------------------------------
(* Lemmas about calls, sequences and the history.                          *)

\* A call is its method and its request.
LEMMA CallIsPair ==
  ASSUME NEW m \in {"decodeGlb", "cancelDecode"}, NEW r \in Requests
  PROVE  /\ Call(m, r) \in Calls
         /\ Call(m, r).method = m /\ Call(m, r).request = r
BY DEF Call, Calls

\* What Append and Tail do to the positions of a sequence.
LEMMA AppendAt ==
  ASSUME NEW S, NEW s \in Seq(S), NEW x \in S
  PROVE  /\ Append(s, x) \in Seq(S)
         /\ DOMAIN Append(s, x) = DOMAIN s \cup {Len(s) + 1}
         /\ Len(s) + 1 \notin DOMAIN s
         /\ \A i \in DOMAIN s : Append(s, x)[i] = s[i] /\ i < Len(s) + 1
         /\ Append(s, x)[Len(s) + 1] = x
         /\ DOMAIN s \subseteq Nat /\ Len(s) \in Nat
         /\ Len(Append(s, x)) = Len(s) + 1
OBVIOUS

\* What Head and Tail do to them.
LEMMA TailAt ==
  ASSUME NEW S, NEW s \in Seq(S), s # <<>>
  PROVE  /\ Tail(s) \in Seq(S)
         /\ Head(s) = s[1] /\ 1 \in DOMAIN s
         /\ \A i \in DOMAIN Tail(s) :
              i + 1 \in DOMAIN s /\ Tail(s)[i] = s[i + 1]
         /\ \A i \in DOMAIN s : i # 1 => i - 1 \in DOMAIN Tail(s)
         /\ DOMAIN s \subseteq Nat \ {0} /\ DOMAIN Tail(s) \subseteq Nat \ {0}
         /\ Len(Tail(s)) = Len(s) - 1
OBVIOUS

\* A concatenation is as long as its parts.
LEMMA ConcatAt ==
  ASSUME NEW S, NEW s \in Seq(S), NEW t \in Seq(S)
  PROVE  s \o t \in Seq(S) /\ Len(s \o t) = Len(s) + Len(t)
OBVIOUS

\* The history after an insertion is short enough and lost an id only if it
\* is full.
LEMMA RememberBounds ==
  ASSUME NEW ids \in Seq(Requests), Len(ids) <= MaxFinished + 1,
         NEW f \in Remember(ids)
  PROVE  /\ f \in Seq(Requests) /\ Len(f) <= MaxFinished
         /\ f = ids \/ Len(f) = MaxFinished
<1>0. Len(ids) \in Nat /\ MaxFinished \in Nat
  BY BoundAssumption
<1>1. CASE Len(ids) <= MaxFinished
  <2>1. f = ids
    BY <1>1 DEF Remember
  <2> QED BY <2>1, <1>1
<1>2. CASE ~(Len(ids) <= MaxFinished) /\ Platform = "android"
  <2>1. f = Tail(ids)
    BY <1>2 DEF Remember
  <2>2. ids # <<>>
    BY <1>0, <1>2
  <2>3. f \in Seq(Requests) /\ Len(f) = Len(ids) - 1
    BY <2>1, <2>2, TailAt
  <2> QED BY <2>3, <1>2, <1>0
<1>3. CASE ~(Len(ids) <= MaxFinished) /\ Platform # "android"
  <2>1. PICK i \in DOMAIN ids :
          f = SubSeq(ids, 1, i - 1) \o SubSeq(ids, i + 1, Len(ids))
    BY <1>3 DEF Remember
  <2> DEFINE front == SubSeq(ids, 1, i - 1)
             back == SubSeq(ids, i + 1, Len(ids))
  <2>2. i \in 1..Len(ids)
    BY <2>1
  <2>3. front \in Seq(Requests) /\ Len(front) = i - 1
    BY <2>2, <1>0
  <2>4. back \in Seq(Requests) /\ Len(back) = Len(ids) - i
    BY <2>2, <1>0
  <2>5. f = front \o back
    BY <2>1
  <2> HIDE DEF front, back
  <2>6. f \in Seq(Requests) /\ Len(f) = Len(front) + Len(back)
    BY <2>3, <2>4, <2>5, ConcatAt
  <2>7. f \in Seq(Requests) /\ Len(f) = Len(ids) - 1
    BY <2>2, <2>3, <2>4, <2>6, <1>0
  <2> QED BY <2>7, <1>3, <1>0
<1> QED BY <1>1, <1>2, <1>3

\* A history that takes in r keeps knowing who was pushed out.
LEMMA HistoryGrows ==
  ASSUME Inv, NEW r \in Requests, finished' \in Remember(Append(finished, r))
  PROVE  /\ finished' \in Seq(Requests) /\ Len(finished') <= MaxFinished
         /\ Len(finished) = MaxFinished => Len(finished') = MaxFinished
         /\ \A q \in Requests :
              q \notin Range(finished') =>
                \/ Len(finished') = MaxFinished
                \/ q # r /\ q \notin Range(finished)
<1> DEFINE ids == Append(finished, r)
<1>0. finished \in Seq(Requests) /\ Len(finished) <= MaxFinished
  BY DEF Inv, TypeOK
<1>1. /\ ids \in Seq(Requests) /\ Len(ids) = Len(finished) + 1
      /\ Len(finished) \in Nat /\ MaxFinished \in Nat
      /\ DOMAIN ids = DOMAIN finished \cup {Len(finished) + 1}
      /\ \A i \in DOMAIN finished : ids[i] = finished[i]
      /\ ids[Len(finished) + 1] = r
  BY <1>0, AppendAt, BoundAssumption
<1> HIDE DEF ids
<1>2. /\ finished' \in Seq(Requests) /\ Len(finished') <= MaxFinished
      /\ finished' = ids \/ Len(finished') = MaxFinished
  <2>1. Len(ids) <= MaxFinished + 1
    BY <1>0, <1>1
  <2>2. finished' \in Remember(ids)
    BY DEF ids
  <2> QED BY <1>1, <2>1, <2>2, RememberBounds
<1>3. \A q \in Requests :
        q \notin Range(ids) => q # r /\ q \notin Range(finished)
  BY <1>1 DEF Range
<1> QED BY <1>0, <1>1, <1>2, <1>3

-----------------------------------------------------------------------------
(* The initial states.                                                     *)

\* Nothing has been sent, registered or answered.
LEMMA InitInv == Init => Inv
<1> SUFFICES ASSUME Init PROVE Inv
  OBVIOUS
<1> USE DEF Init
<1>1. TypeOK
  BY BoundAssumption DEF TypeOK, IdleWorker, Completion, NotPosted, Outputs
<1>2. ChannelInv
  BY DEF ChannelInv, ChannelInvOf, DecodeInFlight, Unsent
<1>3. EntryInv
  BY DEF EntryInv, EntryInvOf, Detached, Errors, Range
<1>4. TaskInv
  BY DEF TaskInv, IdleWorker
<1>5. CancelInv /\ OutputInv /\ HistoryInv
  BY DEF CancelInv, OutputInv, HistoryInv, IdleWorker, NotPosted
<1>6. RepliesAtMostOnce /\ RegistryOwnsControls /\ CancelSentOnce
  BY DEF RepliesAtMostOnce, RegistryOwnsControls, CancelSentOnce
<1>7. CancelFindsRequest /\ DrainedInv
  BY DEF CancelFindsRequest, DrainedInv
<1> QED
  BY <1>1, <1>2, <1>3, <1>4, <1>5, <1>6, <1>7 DEF Inv

-----------------------------------------------------------------------------
(* The steps of the probe.                                                 *)

\* Nothing but the stage of r and the calls in flight changes.
ProbeOnly == UNCHANGED <<replies, acks, registryVars, threadVars>>

\* Such a step can disturb only what is said of stages and calls.
LEMMA ProbeOnlyStep ==
  ASSUME Inv, TypeOK', ChannelInv', CancelSentOnce', ProbeOnly
  PROVE  Inv'
<1> USE DEF ProbeOnly, registryVars, threadVars, Inv
<1>1. EntryInv'
  BY DEF EntryInv, EntryInvOf, Detached
<1>2. TaskInv'
  BY DEF TaskInv
<1>3. CancelInv' /\ OutputInv' /\ HistoryInv'
  BY DEF CancelInv, OutputInv, HistoryInv, Detached
<1>4. /\ RepliesAtMostOnce' /\ RegistryOwnsControls' /\ CancelFindsRequest'
      /\ DrainedInv'
  BY DEF DrainedInv, RepliesAtMostOnce, RegistryOwnsControls,
    CancelFindsRequest
<1> QED
  BY <1>1, <1>2, <1>3, <1>4

\* The call is the first of its request, and the last in the channel.
LEMMA StageStartsStep ==
  ASSUME Inv, NEW r \in Requests, StageStarts(r)
  PROVE  Inv'
<1> USE DEF Inv
<1>0. ProbeOnly /\ stage \in [Requests -> {"idle", "waiting", "succeeded",
        "failed", "cancelled", "timedOut", "undispatched"}]
  BY DEF StageStarts, ProbeOnly, TypeOK
<1>1. CASE /\ stage' = [stage EXCEPT ![r] = "undispatched"]
           /\ UNCHANGED toPlatform
  <2>1. TypeOK'
    BY <1>0, <1>1 DEF TypeOK, ProbeOnly, registryVars, threadVars
  <2>2. ChannelInv'
    BY <1>0, <1>1 DEF StageStarts, ChannelInv, ChannelInvOf, DecodeInFlight,
      CancelInFlight,
      Unsent, ProbeOnly, registryVars
  <2>3. CancelSentOnce'
    BY <1>0, <1>1 DEF StageStarts, CancelSentOnce, CancelInFlight, ProbeOnly,
      ChannelInv, ChannelInvOf, Unsent
  <2> QED BY <1>0, <2>1, <2>2, <2>3, ProbeOnlyStep
<1>2. CASE stage' = [stage EXCEPT ![r] = "waiting"] /\ Send("decodeGlb", r)
  <2> DEFINE n == Len(toPlatform) + 1
  <2>1. /\ toPlatform' \in Seq(Calls)
        /\ DOMAIN toPlatform' = DOMAIN toPlatform \cup {n}
        /\ n \notin DOMAIN toPlatform
        /\ \A i \in DOMAIN toPlatform :
             toPlatform'[i] = toPlatform[i] /\ i < n
        /\ toPlatform'[n] = Call("decodeGlb", r)
    BY <1>2, CallIsPair, AppendAt DEF Send, TypeOK
  <2> HIDE DEF n
  <2>2. TypeOK'
    BY <1>0, <1>2, <2>1 DEF TypeOK, ProbeOnly, registryVars, threadVars
  <2>3. ChannelInv'
    BY <1>0, <1>2, <2>1, CallIsPair DEF StageStarts, ChannelInv, ChannelInvOf,
      DecodeInFlight,
      CancelInFlight, Unsent, ProbeOnly, registryVars
  <2>4. CancelSentOnce'
    BY <1>0, <1>2, <2>1, CallIsPair DEF StageStarts, CancelSentOnce,
      CancelInFlight, ProbeOnly, ChannelInv, ChannelInvOf, Unsent
  <2> QED BY <1>0, <2>2, <2>3, <2>4, ProbeOnlyStep
<1> QED
  BY <1>1, <1>2 DEF StageStarts

\* A stage that waited gives up: its cancelDecode follows its decodeGlb.
LEMMA GivesUpStep ==
  ASSUME Inv, NEW r \in Requests, CallerCancels(r) \/ TimerFires(r)
  PROVE  Inv'
<1> USE DEF Inv
<1>0. /\ ProbeOnly /\ stage[r] = "waiting" /\ Send("cancelDecode", r)
      /\ stage \in [Requests -> {"idle", "waiting", "succeeded", "failed",
                                 "cancelled", "timedOut", "undispatched"}]
      /\ \/ stage' = [stage EXCEPT ![r] = "cancelled"]
         \/ stage' = [stage EXCEPT ![r] = "timedOut"]
  BY DEF CallerCancels, TimerFires, ProbeOnly, TypeOK
<1> DEFINE n == Len(toPlatform) + 1
<1>1. /\ toPlatform' \in Seq(Calls)
      /\ DOMAIN toPlatform' = DOMAIN toPlatform \cup {n}
      /\ n \notin DOMAIN toPlatform
      /\ \A i \in DOMAIN toPlatform : toPlatform'[i] = toPlatform[i] /\ i < n
      /\ toPlatform'[n] = Call("cancelDecode", r)
  BY <1>0, CallIsPair, AppendAt DEF Send, TypeOK
<1> HIDE DEF n
<1>2. TypeOK'
  BY <1>0, <1>1 DEF TypeOK, ProbeOnly, registryVars, threadVars
<1>3. ChannelInv'
  BY <1>0, <1>1, CallIsPair DEF ChannelInv, ChannelInvOf, DecodeInFlight,
    CancelInFlight,
    Unsent, ProbeOnly, registryVars
<1>4. CancelSentOnce'
  BY <1>0, <1>1, CallIsPair DEF CancelSentOnce, CancelInFlight, ProbeOnly
<1> QED BY <1>0, <1>2, <1>3, <1>4, ProbeOnlyStep

\* An answer ends the stage and is all that its probe sees.
LEMMA ReplyArrivesStep ==
  ASSUME Inv, NEW r \in Requests, ReplyArrives(r)
  PROVE  Inv'
<1> USE DEF Inv
<1>0. /\ ProbeOnly /\ UNCHANGED toPlatform /\ stage[r] = "waiting"
      /\ stage \in [Requests -> {"idle", "waiting", "succeeded", "failed",
                                 "cancelled", "timedOut", "undispatched"}]
      /\ \/ stage' = [stage EXCEPT ![r] = "failed"]
         \/ stage' = [stage EXCEPT ![r] = "succeeded"]
  BY DEF ReplyArrives, ProbeOnly, TypeOK, channelVars
<1>1. TypeOK'
  BY <1>0 DEF TypeOK, ProbeOnly, registryVars, threadVars
<1>2. ChannelInv'
  BY <1>0 DEF ChannelInv, ChannelInvOf, DecodeInFlight, CancelInFlight,
    Unsent, ProbeOnly,
    registryVars
<1>3. CancelSentOnce'
  BY <1>0 DEF CancelSentOnce, CancelInFlight, ProbeOnly
<1> QED BY <1>0, <1>1, <1>2, <1>3, ProbeOnlyStep

-----------------------------------------------------------------------------
(* The steps of the platform thread.                                       *)

\* A call that is handled leaves the channel; the others move up by one.
LEMMA CallLeaves ==
  ASSUME Inv, NEW r \in Requests, NEW m \in {"decodeGlb", "cancelDecode"},
         NextCall(m, r), toPlatform' = Tail(toPlatform)
  PROVE  /\ toPlatform' \in Seq(Calls)
         /\ 1 \in DOMAIN toPlatform /\ toPlatform[1] = Call(m, r)
         /\ \A i \in DOMAIN toPlatform' :
              i + 1 \in DOMAIN toPlatform /\ toPlatform'[i] = toPlatform[i + 1]
         /\ \A i \in DOMAIN toPlatform : i # 1 => i - 1 \in DOMAIN toPlatform'
         /\ DOMAIN toPlatform \subseteq Nat \ {0}
         /\ DOMAIN toPlatform' \subseteq Nat \ {0}
BY TailAt DEF Inv, TypeOK, NextCall

\* The decode of r that is handled now was never seen before.
LEMMA DecodeIsNew ==
  ASSUME Inv, NEW r \in Requests, NextCall("decodeGlb", r),
         toPlatform' = Tail(toPlatform)
  PROVE  /\ stage[r] \notin Unsent
         /\ entry[r] = "none" /\ replies[r] = <<>> /\ acks[r] = "none"
         /\ r \notin active /\ posted[r] = NotPosted /\ r \notin delivered
<1>1. DecodeInFlight(r, 1)
  BY CallLeaves DEF DecodeInFlight
<1>2. entry[r] = "none" /\ replies[r] = <<>> /\ acks[r] = "none"
  BY <1>1 DEF Inv, ChannelInv, ChannelInvOf, DecodeInFlight
<1>3. stage[r] \notin Unsent
  BY <1>1, CallIsPair DEF Inv, ChannelInv, ChannelInvOf, DecodeInFlight
<1>4. r \notin active /\ posted[r] = NotPosted /\ r \notin delivered
  BY <1>2 DEF Inv, EntryInv, EntryInvOf
<1> QED BY <1>2, <1>3, <1>4

\* The cancel of r that is handled now finds a decode that was handled.
LEMMA CancelIsLate ==
  ASSUME Inv, NEW r \in Requests, NextCall("cancelDecode", r),
         toPlatform' = Tail(toPlatform)
  PROVE  /\ entry[r] # "none" \/ replies[r] # <<>>
         /\ acks[r] = "none" /\ stage[r] \in {"cancelled", "timedOut"}
<1>1. CancelInFlight(r, 1)
  BY CallLeaves DEF CancelInFlight
<1>2. acks[r] = "none" /\ stage[r] \in {"cancelled", "timedOut"}
  BY <1>1 DEF Inv, CancelSentOnce, CancelInFlight
<1>3. ASSUME entry[r] = "none", replies[r] = <<>>
      PROVE  FALSE
  <2>1. PICK i \in DOMAIN toPlatform : DecodeInFlight(r, i)
    BY <1>2, <1>3 DEF Inv, ChannelInv, ChannelInvOf, Unsent
  <2>2. i < 1
    BY <1>1, <2>1 DEF Inv, ChannelInv, ChannelInvOf, CancelInFlight
  <2> QED BY <2>2, CallLeaves
<1> QED BY <1>2, <1>3

\* What the channel knows survives the handling of a call that registers,
\* answers or acknowledges no request but its own.
LEMMA CallHandled ==
  ASSUME Inv, NEW r \in Requests, NEW m \in {"decodeGlb", "cancelDecode"},
         NextCall(m, r), toPlatform' = Tail(toPlatform), stage' = stage,
         entry'[r] # "none" \/ replies'[r] # <<>>,
         m = "decodeGlb" => acks' = acks,
         \A q \in Requests \ {r} :
           /\ entry'[q] = entry[q] /\ replies'[q] = replies[q]
           /\ acks'[q] = acks[q]
  PROVE  ChannelInv' /\ CancelSentOnce'
<1>1. ChannelInv /\ CancelSentOnce
  BY DEF Inv
<1> DEFINE Facts ==
      /\ 1 \in DOMAIN toPlatform /\ toPlatform[1] = Call(m, r)
      /\ \A i \in DOMAIN toPlatform' :
           i + 1 \in DOMAIN toPlatform /\ toPlatform'[i] = toPlatform[i + 1]
      /\ \A i \in DOMAIN toPlatform : i # 1 => i - 1 \in DOMAIN toPlatform'
      /\ DOMAIN toPlatform \subseteq Nat \ {0}
      /\ DOMAIN toPlatform' \subseteq Nat \ {0}
<1>2. Facts
  BY CallLeaves
<1>3. stage[r] \notin Unsent
  BY DecodeIsNew, CancelIsLate DEF Unsent
<1>4. ASSUME NEW i \in DOMAIN toPlatform', DecodeInFlight(r, i)'
      PROVE  FALSE
  <2>1. DecodeInFlight(r, i + 1)
    BY <1>2, <1>4 DEF DecodeInFlight
  <2>2. CASE m = "decodeGlb"
    <3>1. DecodeInFlight(r, 1)
      BY <1>2, <2>2 DEF DecodeInFlight
    <3> QED BY <1>1, <1>2, <2>1, <3>1 DEF ChannelInv, ChannelInvOf,
      DecodeInFlight
  <2>3. CASE m = "cancelDecode"
    <3>1. CancelInFlight(r, 1)
      BY <1>2, <2>3 DEF CancelInFlight
    <3> QED BY <1>1, <1>2, <2>1, <3>1 DEF ChannelInv, ChannelInvOf,
      DecodeInFlight,
              CancelInFlight
  <2> QED BY <2>2, <2>3
<1>5. ChannelInv'
  <2> SUFFICES ASSUME NEW q \in Requests
               PROVE  ChannelInvOf(q)'
    BY DEF ChannelInv
  <2>1. CASE q = r
    BY <2>1, <1>3, <1>4 DEF ChannelInvOf
  <2>2. CASE q # r
    <3>1. /\ ChannelInvOf(q)
          /\ entry'[q] = entry[q] /\ replies'[q] = replies[q]
          /\ acks'[q] = acks[q]
      BY <2>2, <1>1 DEF ChannelInv
    <3>2. \A i \in DOMAIN toPlatform' :
            /\ DecodeInFlight(q, i)' => DecodeInFlight(q, i + 1)
            /\ CancelInFlight(q, i)' => CancelInFlight(q, i + 1)
      BY <1>2 DEF DecodeInFlight, CancelInFlight
    <3>3. ASSUME NEW i \in DOMAIN toPlatform, DecodeInFlight(q, i)
          PROVE  \E j \in DOMAIN toPlatform' : DecodeInFlight(q, j)'
      <4>1. i # 1
        BY <2>2, <3>3, <1>2, CallIsPair DEF DecodeInFlight
      <4>2. i - 1 \in DOMAIN toPlatform' /\ toPlatform'[i - 1] = toPlatform[i]
        BY <4>1, <1>2
      <4> QED BY <4>2, <3>3 DEF DecodeInFlight
    <3>4. stage[q] \in Unsent =>
            \A i \in DOMAIN toPlatform' : toPlatform'[i].request # q
      BY <3>1, <1>2 DEF ChannelInvOf
    <3>5. ASSUME NEW i \in DOMAIN toPlatform', DecodeInFlight(q, i)',
                 NEW j \in DOMAIN toPlatform'
          PROVE  /\ DecodeInFlight(q, j)' => i = j
                 /\ CancelInFlight(q, j)' => i < j
      BY <3>1, <3>2, <3>5, <1>2 DEF ChannelInvOf
    <3> QED BY <3>1, <3>2, <3>3, <3>4, <3>5, <1>2 DEF ChannelInvOf
  <2> QED BY <2>1, <2>2
<1>6. CancelSentOnce'
  BY <1>1, <1>2 DEF CancelSentOnce, CancelInFlight
<1> QED BY <1>5, <1>6

\* A request without an answer was answered nothing.
LEMMA RangeOfNothing == Range(<<>>) = {}
BY DEF Range

\* One answer to a request that had none.
LEMMA ReplyOnce ==
  ASSUME Inv, NEW r \in Requests, replies[r] = <<>>, NEW a \in Replies,
         Reply(r, a)
  PROVE  /\ replies' \in [Requests -> Seq(Replies)]
         /\ replies'[r] = <<a>> /\ replies'[r] # <<>> /\ Range(replies'[r]) = {a}
         /\ \A q \in Requests \ {r} : replies'[q] = replies[q]
         /\ RepliesAtMostOnce'
<1>1. replies \in [Requests -> Seq(Replies)] /\ Append(<<>>, a) = <<a>>
  BY DEF Inv, TypeOK
<1>2. /\ replies' \in [Requests -> Seq(Replies)] /\ replies'[r] = <<a>>
      /\ \A q \in Requests \ {r} : replies'[q] = replies[q]
  BY <1>1 DEF Reply
<1>3. Range(<<a>>) = {a} /\ Len(<<a>>) = 1 /\ <<a>> # <<>>
  <2>1. DOMAIN <<a>> = {1} /\ <<a>>[1] = a /\ Len(<<a>>) = 1 /\ <<a>> # <<>>
    OBVIOUS
  <2> QED BY <2>1 DEF Range
<1>4. RepliesAtMostOnce'
  <2>1. ASSUME NEW q \in Requests PROVE Len(replies'[q]) <= 1
    <3>1. CASE q = r
      BY <3>1, <1>2, <1>3
    <3>2. CASE q # r
      BY <3>2, <1>2 DEF Inv, RepliesAtMostOnce
    <3> QED BY <3>1, <3>2
  <2> QED BY <2>1 DEF RepliesAtMostOnce
<1> QED BY <1>2, <1>3, <1>4

\* A decodeGlb finds its request unknown: it is refused, rejected or queued.
LEMMA DecodeArrivesStep ==
  ASSUME Inv, NEW r \in Requests, DecodeArrives(r)
  PROVE  Inv'
<1> USE DEF Inv
<1>0. /\ NextCall("decodeGlb", r) /\ toPlatform' = Tail(toPlatform)
      /\ UNCHANGED <<stage, acks, worker, posted, detach>>
  BY DEF DecodeArrives
<1>1. /\ entry[r] = "none" /\ replies[r] = <<>> /\ acks[r] = "none"
      /\ r \notin active /\ posted[r] = NotPosted /\ r \notin delivered
  BY <1>0, DecodeIsNew
<1>2. toPlatform' \in Seq(Calls)
  BY <1>0, CallLeaves
<1>3. CASE \E a \in Errors : Reply(r, a) /\ UNCHANGED <<registryVars, queue>>
  <2>1. PICK a \in Errors : Reply(r, a) /\ UNCHANGED <<registryVars, queue>>
    BY <1>3
  <2>2. /\ replies' \in [Requests -> Seq(Replies)]
        /\ replies'[r] # <<>> /\ Range(replies'[r]) = {a}
        /\ \A q \in Requests \ {r} : replies'[q] = replies[q]
        /\ RepliesAtMostOnce'
    BY <1>1, <2>1, ReplyOnce DEF Replies
  <2>3. TypeOK'
    BY <1>0, <1>2, <2>1, <2>2 DEF TypeOK, registryVars
  <2>4. ChannelInv' /\ CancelSentOnce'
    BY <1>0, <2>1, <2>2, CallHandled DEF registryVars
  <2>5. EntryInv'
    BY <1>0, <1>1, <2>1, <2>2 DEF EntryInv, EntryInvOf, Detached, registryVars
  <2>6. /\ TaskInv' /\ DrainedInv' /\ OutputInv' /\ HistoryInv'
        /\ RegistryOwnsControls'
    BY <1>0, <2>1 DEF TaskInv, DrainedInv, OutputInv, HistoryInv,
      RegistryOwnsControls,
      Detached, registryVars
  <2>7. CancelInv' /\ CancelFindsRequest'
    BY <1>0, <1>1, <2>1, <2>2 DEF CancelInv, CancelFindsRequest, registryVars
  <2> QED BY <2>2, <2>3, <2>4, <2>5, <2>6, <2>7
<1>4. CASE /\ ~Detached
           /\ active' = active \cup {r}
           /\ entry' = [entry EXCEPT ![r] = "active"]
           /\ control' = [control EXCEPT ![r] = "live"]
           /\ queue' = Append(queue, r)
           /\ UNCHANGED <<delivered, finished, replies>>
  <2>1. /\ queue' \in Seq(Requests)
        /\ DOMAIN queue' = DOMAIN queue \cup {Len(queue) + 1}
        /\ Len(queue) + 1 \notin DOMAIN queue
        /\ \A i \in DOMAIN queue : queue'[i] = queue[i]
        /\ queue'[Len(queue) + 1] = r
    BY <1>4, AppendAt DEF TypeOK
  <2>2. TypeOK'
    BY <1>0, <1>2, <1>4, <2>1 DEF TypeOK
  <2>3. entry'[r] = "active" /\ \A q \in Requests \ {r} : entry'[q] = entry[q]
    BY <1>4 DEF TypeOK
  <2>4. ChannelInv' /\ CancelSentOnce'
    BY <1>0, <1>4, <2>3, CallHandled
  <2>5. EntryInv'
    BY <1>0, <1>1, <1>4, <2>3 DEF EntryInv, EntryInvOf, Detached
  <2>6. TaskInv'
    <3> DEFINE n == Len(queue) + 1
    <3>1. \A i \in DOMAIN queue : queue[i] \in active /\ queue[i] # r
      BY <1>1 DEF TaskInv
    <3>2. \A w \in Workers : worker[w].phase # "idle" => worker[w].request # r
      BY <1>1 DEF TaskInv
    <3> HIDE DEF n
    <3> QED BY <1>0, <1>4, <2>1, <3>1, <3>2 DEF TaskInv, n
  <2>7. OutputInv'
    <3>1. ASSUME NEW w \in Workers, worker[w].phase = "returned"
          PROVE  entry'[worker[w].request] = entry[worker[w].request]
      <4>1. worker[w].request \in active
        BY <3>1 DEF TaskInv
      <4> QED BY <4>1, <1>1, <2>3 DEF TypeOK
    <3> QED BY <1>0, <3>1 DEF OutputInv
  <2>8. HistoryInv' /\ RepliesAtMostOnce' /\ DrainedInv'
    BY <1>0, <1>4, <2>3 DEF DrainedInv, HistoryInv, Detached, RepliesAtMostOnce
  <2>9. RegistryOwnsControls'
    BY <1>1, <1>4 DEF RegistryOwnsControls, TypeOK
  <2>10. CancelInv' /\ CancelFindsRequest'
    BY <1>0, <1>1, <1>4, <2>3 DEF CancelInv, CancelFindsRequest
  <2> QED BY <2>2, <2>4, <2>5, <2>6, <2>7, <2>8, <2>9, <2>10
<1>5. CASE /\ ~Detached
           /\ entry' = [entry EXCEPT ![r] = "finished"]
           /\ control' = [control EXCEPT ![r] = "destroyed"]
           /\ finished' \in Remember(Append(finished, r))
           /\ delivered' = delivered \cup {r}
           /\ Reply(r, "detached")
           /\ UNCHANGED <<active, queue>>
  <2>1. /\ replies' \in [Requests -> Seq(Replies)]
        /\ replies'[r] # <<>> /\ Range(replies'[r]) = {"detached"}
        /\ \A q \in Requests \ {r} : replies'[q] = replies[q]
        /\ RepliesAtMostOnce'
    BY <1>1, <1>5, ReplyOnce DEF Replies, Errors
  <2>2. /\ finished' \in Seq(Requests) /\ Len(finished') <= MaxFinished
        /\ Len(finished) = MaxFinished => Len(finished') = MaxFinished
        /\ \A q \in Requests :
             q \notin Range(finished') =>
               \/ Len(finished') = MaxFinished
               \/ q # r /\ q \notin Range(finished)
    BY <1>5, HistoryGrows
  <2>3. TypeOK'
    BY <1>0, <1>2, <1>5, <2>1, <2>2 DEF TypeOK
  <2>4. entry'[r] = "finished" /\ \A q \in Requests \ {r} : entry'[q] = entry[q]
    BY <1>5 DEF TypeOK
  <2>5. ChannelInv' /\ CancelSentOnce'
    BY <1>0, <2>1, <2>4, CallHandled
  <2>6. EntryInv'
    BY <1>0, <1>1, <1>5, <2>1, <2>4 DEF EntryInv, EntryInvOf, Detached
  <2>7. TaskInv' /\ OutputInv' /\ DrainedInv'
    BY <1>0, <1>1, <1>5, <2>4 DEF TaskInv, DrainedInv, OutputInv
  <2>8. HistoryInv' /\ CancelFindsRequest'
    BY <1>0, <1>1, <1>5, <2>1, <2>2, <2>4 DEF HistoryInv,
      CancelFindsRequest, Detached
  <2>9. RegistryOwnsControls'
    BY <1>1, <1>5 DEF RegistryOwnsControls, TypeOK
  <2>10. CancelInv'
    BY <1>0, <1>1, <1>5, <2>1, <2>4 DEF CancelInv
  <2> QED BY <2>1, <2>3, <2>5, <2>6, <2>7, <2>8, <2>9, <2>10
<1> QED
  BY <1>3, <1>4, <1>5 DEF DecodeArrives, AdmitDecode, Errors

\* A cancelDecode marks an entry, if there is one, and is acknowledged once.
LEMMA CancelArrivesStep ==
  ASSUME Inv, NEW r \in Requests, CancelArrives(r)
  PROVE  Inv'
<1> USE DEF Inv
<1>0. /\ PlatformThreadIsFree
      /\ NextCall("cancelDecode", r) /\ toPlatform' = Tail(toPlatform)
      /\ UNCHANGED <<stage, replies, active, delivered, finished, queue, worker,
                     posted, detach>>
  BY DEF CancelArrives, threadVars
<1>1. /\ entry[r] # "none" \/ replies[r] # <<>>
      /\ acks[r] = "none" /\ stage[r] \in {"cancelled", "timedOut"}
  BY <1>0, CancelIsLate
<1>2. toPlatform' \in Seq(Calls)
  BY <1>0, CallLeaves
<1>3. CASE /\ r \in active
           /\ acks' = [acks EXCEPT ![r] = "cancelled"]
           /\ entry' = [entry EXCEPT ![r] = "cancelled"]
           /\ control' = [control EXCEPT ![r] = Stop(r)]
  <2>1. /\ ~Detached /\ entry[r] \in {"active", "cancelled"}
        /\ posted[r] = NotPosted /\ r \notin delivered /\ replies[r] = <<>>
    <3>1. detach # "drained" => detach = "attached"
      BY <1>0 DEF PlatformThreadIsFree
    <3>2. detach # "drained"
      BY <1>3 DEF DrainedInv
    <3> QED BY <3>1, <3>2, <1>3 DEF EntryInv, EntryInvOf, Detached
  <2>2. /\ entry'[r] = "cancelled" /\ acks'[r] = "cancelled"
        /\ \A q \in Requests \ {r} :
             entry'[q] = entry[q] /\ acks'[q] = acks[q]
    BY <1>3 DEF TypeOK
  <2>3. control[r] \in {"live", "stopped"} /\ control'[r] = "stopped"
        /\ \A q \in Requests \ {r} : control'[q] = control[q]
    BY <1>3 DEF TypeOK, RegistryOwnsControls, Stop
  <2>4. TypeOK'
    BY <1>0, <1>2, <1>3, <2>3 DEF TypeOK, Stop
  <2>5. ChannelInv' /\ CancelSentOnce'
    BY <1>0, <2>2, CallHandled
  <2>6. EntryInv'
    BY <1>0, <1>3, <2>1, <2>2 DEF EntryInv, EntryInvOf, Detached
  <2>7. TaskInv' /\ DrainedInv' /\ RepliesAtMostOnce'
    BY <1>0 DEF TaskInv, DrainedInv, RepliesAtMostOnce
  <2>8. OutputInv'
    BY <1>0, <2>2, <1>3 DEF OutputInv
  <2>9. HistoryInv' /\ RegistryOwnsControls'
    BY <1>0, <1>3, <2>2, <2>3 DEF HistoryInv, Detached, RegistryOwnsControls
  <2>10. CancelInv'
    BY <1>0, <2>1, <2>2, RangeOfNothing DEF CancelInv, NotPosted
  <2>11. CancelFindsRequest'
    BY <1>0, <2>1, <2>2 DEF CancelFindsRequest
  <2> QED BY <2>4, <2>5, <2>6, <2>7, <2>8, <2>9, <2>10, <2>11
<1>4. CASE /\ UNCHANGED <<entry, control>>
           /\ \E a \in {"alreadyFinished", "unknownRequest", "notImplemented"} :
                /\ acks' = [acks EXCEPT ![r] = a]
                /\ a = "unknownRequest" =>
                     HasHandler /\ r \notin active /\ r \notin Range(finished)
  <2>1. PICK a \in {"alreadyFinished", "unknownRequest", "notImplemented"} :
          /\ acks' = [acks EXCEPT ![r] = a]
          /\ a = "unknownRequest" =>
               HasHandler /\ r \notin active /\ r \notin Range(finished)
    BY <1>4
  <2>2. acks'[r] = a /\ \A q \in Requests \ {r} : acks'[q] = acks[q]
    BY <2>1 DEF TypeOK
  <2>3. TypeOK'
    BY <1>0, <1>2, <1>4, <2>1 DEF TypeOK
  <2>4. ChannelInv' /\ CancelSentOnce'
    BY <1>0, <1>1, <1>4, <2>2, CallHandled
  <2>5. EntryInv' /\ TaskInv' /\ RepliesAtMostOnce' /\ RegistryOwnsControls'
    BY <1>0, <1>4 DEF EntryInv, EntryInvOf, TaskInv, RepliesAtMostOnce,
      RegistryOwnsControls, Detached
  <2>6. OutputInv' /\ HistoryInv' /\ DrainedInv'
    BY <1>0, <1>4 DEF DrainedInv, OutputInv, HistoryInv, Detached
  <2>7. CancelInv'
    BY <1>0, <1>1, <1>4, <2>2 DEF CancelInv
  <2>8. CancelFindsRequest'
    <3>1. ASSUME a = "unknownRequest", detach # "drained"
          PROVE  \/ entry[r] = "none" /\ replies[r] # <<>>
                 \/ entry[r] = "finished" /\ Len(finished) = MaxFinished
      <4>1. ~Detached
        BY <1>0, <3>1 DEF PlatformThreadIsFree, Detached
      <4>2. entry[r] \in {"none", "finished"}
        BY <2>1, <3>1 DEF EntryInv, EntryInvOf
      <4> QED BY <1>1, <2>1, <3>1, <4>1, <4>2 DEF HistoryInv
    <3> QED BY <1>0, <1>4, <2>2, <3>1 DEF CancelFindsRequest
  <2> QED BY <2>3, <2>4, <2>5, <2>6, <2>7, <2>8
<1> QED
  BY <1>3, <1>4 DEF CancelArrives

\* Deliver answers with a reply the channel knows.
LEMMA AnswerIsReply ==
  ASSUME NEW c \in Completion
  PROVE  /\ Answer(c) \in Replies
         /\ c.disposition = "cancelled" => Answer(c) \in Errors
BY DEF Answer, Replies, Errors

\* A completion is answered when nobody has answered, or it is dropped.
LEMMA DeliverStep ==
  ASSUME Inv, NEW r \in Requests, Deliver(r)
  PROVE  Inv'
<1> USE DEF Inv
<1>0. /\ posted[r] # NotPosted /\ posted' = [posted EXCEPT ![r] = NotPosted]
      /\ UNCHANGED <<stage, toPlatform, acks, active, entry, finished, control,
                     queue, worker, detach>>
  BY DEF Deliver
<1>1. /\ posted[r] \in Completion /\ entry[r] = "finished" /\ replies[r] = <<>>
      /\ r \notin delivered /\ r \notin active
      /\ posted[r].disposition = "detached" => Detached
  BY <1>0 DEF EntryInv, EntryInvOf
<1>2. /\ posted'[r] = NotPosted
      /\ \A q \in Requests \ {r} : posted'[q] = posted[q]
      /\ posted' \in [Requests -> Completion \cup {NotPosted}]
  BY <1>0 DEF TypeOK
<1>3. /\ TaskInv' /\ DrainedInv' /\ HistoryInv' /\ RegistryOwnsControls'
      /\ CancelSentOnce'
  BY <1>0 DEF TaskInv, DrainedInv, HistoryInv, RegistryOwnsControls,
    CancelSentOnce, CancelInFlight, Detached
<1>4. OutputInv'
  BY <1>0, <1>2 DEF OutputInv, NotPosted
<1>5. CASE UNCHANGED <<delivered, replies>>
  <2>1. TypeOK'
    BY <1>0, <1>2, <1>5 DEF TypeOK
  <2>2. ChannelInv' /\ CancelFindsRequest' /\ RepliesAtMostOnce'
    BY <1>0, <1>5 DEF ChannelInv, ChannelInvOf, DecodeInFlight, CancelInFlight,
      CancelFindsRequest, RepliesAtMostOnce
  <2>3. EntryInv'
    BY <1>0, <1>1, <1>2, <1>5 DEF EntryInv, EntryInvOf, Detached
  <2>4. CancelInv'
    BY <1>0, <1>2, <1>5 DEF CancelInv, NotPosted
  <2> QED BY <1>3, <1>4, <2>1, <2>2, <2>3, <2>4
<1>6. CASE /\ ~Detached /\ delivered' = delivered \cup {r}
           /\ Reply(r, Answer(posted[r]))
  <2>1. Answer(posted[r]) \in Replies
    BY <1>1, AnswerIsReply
  <2>2. /\ replies' \in [Requests -> Seq(Replies)]
        /\ replies'[r] # <<>> /\ Range(replies'[r]) = {Answer(posted[r])}
        /\ \A q \in Requests \ {r} : replies'[q] = replies[q]
        /\ RepliesAtMostOnce'
    BY <1>1, <1>6, <2>1, ReplyOnce
  <2>3. TypeOK'
    BY <1>0, <1>2, <1>6, <2>2 DEF TypeOK
  <2>4. ChannelInv'
    BY <1>0, <1>1, <2>2 DEF ChannelInv, ChannelInvOf, DecodeInFlight,
      CancelInFlight
  <2>5. EntryInv'
    BY <1>0, <1>1, <1>2, <1>6, <2>2 DEF EntryInv, EntryInvOf, Detached
  <2>6. CancelInv'
    <3>1. acks[r] = "cancelled" => Answer(posted[r]) \in Errors
      <4>1. posted[r].disposition # "detached"
        BY <1>1, <1>6
      <4>2. acks[r] = "cancelled" => posted[r].disposition = "cancelled"
        BY <1>1, <4>1 DEF CancelInv, Completion, Dispositions
      <4> QED BY <1>1, <4>2, AnswerIsReply
    <3> QED BY <1>0, <1>2, <2>2, <3>1 DEF CancelInv, NotPosted
  <2>7. CancelFindsRequest'
    BY <1>0, <1>1, <2>2 DEF CancelFindsRequest
  <2> QED BY <1>3, <1>4, <2>2, <2>3, <2>4, <2>5, <2>6, <2>7
<1> QED
  BY <1>1, <1>5, <1>6 DEF Deliver

\* The detach marks every entry that is active and stops its control.
LEMMA DetachBeginsStep ==
  ASSUME Inv, DetachBegins
  PROVE  Inv'
<1> USE DEF Inv
<1>0. /\ detach = "attached" /\ detach' = "begun"
      /\ UNCHANGED <<stage, toPlatform, replies, acks, active, delivered,
                     finished, queue, worker, posted>>
  BY DEF DetachBegins, channelVars
<1>1. /\ entry' \in [Requests -> {"none", "active", "cancelled", "finished",
                                  "detached"}]
      /\ \A q \in Requests :
           entry'[q] = IF q \in active THEN "detached" ELSE entry[q]
  BY DEF DetachBegins, TypeOK
<1>2. /\ control' \in [Requests -> {"none", "live", "stopped", "destroyed"}]
      /\ \A q \in Requests :
           control'[q] \in {"live", "stopped"} <=>
             control[q] \in {"live", "stopped"}
  BY DEF DetachBegins, TypeOK, Stop
<1>3. \A q \in Requests :
        q \in active => entry[q] # "none" /\ entry[q] # "finished"
  BY DEF EntryInv, EntryInvOf
<1>4. TypeOK'
  BY <1>0, <1>1, <1>2 DEF TypeOK
<1>5. ChannelInv'
  BY <1>0, <1>1, <1>3 DEF ChannelInv, ChannelInvOf, DecodeInFlight,
    CancelInFlight
<1>6. EntryInv'
  BY <1>0, <1>1, <1>3 DEF EntryInv, EntryInvOf, Detached
<1>7. /\ TaskInv' /\ DrainedInv' /\ HistoryInv' /\ CancelSentOnce'
      /\ RepliesAtMostOnce' /\ RegistryOwnsControls'
  BY <1>0, <1>2 DEF TaskInv, DrainedInv, HistoryInv, CancelSentOnce,
    CancelInFlight, RepliesAtMostOnce, RegistryOwnsControls, Detached
<1>8. CancelInv'
  BY <1>0, <1>1 DEF CancelInv
<1>9. OutputInv'
  <2>1. \A w \in Workers : worker[w].phase = "returned" =>
          worker[w].request \in active
    BY DEF TaskInv
  <2> QED BY <1>0, <1>1, <2>1 DEF OutputInv, TypeOK
<1>10. CancelFindsRequest'
  BY <1>0, <1>1, <1>3 DEF CancelFindsRequest
<1> QED BY <1>4, <1>5, <1>6, <1>7, <1>8, <1>9, <1>10

\* The queue only loses tasks; their entries stay for the drain.
LEMMA ExecutorShutsDownStep ==
  ASSUME Inv, ExecutorShutsDown
  PROVE  Inv'
<1> USE DEF Inv
<1>0. /\ detach = "begun" /\ detach' = "draining"
      /\ UNCHANGED <<stage, channelVars, registryVars, worker, posted>>
      /\ queue' = <<>> \/ queue' = queue
  BY DEF ExecutorShutsDown
<1>1. TypeOK'
  <2>1. queue' \in Seq(Requests)
    <3>1. queue \in Seq(Requests) /\ <<>> \in Seq(Requests)
      BY DEF TypeOK
    <3> QED BY <1>0, <3>1
  <2> QED BY <1>0, <2>1 DEF TypeOK, channelVars, registryVars
<1>2. ChannelInv' /\ CancelSentOnce' /\ RepliesAtMostOnce'
  BY <1>0 DEF ChannelInv, ChannelInvOf, DecodeInFlight, CancelInFlight,
    CancelSentOnce, RepliesAtMostOnce, channelVars, registryVars
<1>3. EntryInv' /\ HistoryInv'
  BY <1>0 DEF EntryInv, EntryInvOf, HistoryInv, Detached, channelVars,
    registryVars
<1>4. TaskInv' /\ DrainedInv'
  BY <1>0 DEF TaskInv, DrainedInv, registryVars
<1>5. CancelInv' /\ OutputInv' /\ RegistryOwnsControls'
  BY <1>0 DEF CancelInv, OutputInv, RegistryOwnsControls, channelVars,
    registryVars
<1>6. CancelFindsRequest'
  BY <1>0 DEF CancelFindsRequest, channelVars, registryVars
<1> QED BY <1>1, <1>2, <1>3, <1>4, <1>5, <1>6

\* No worker holds a task, so every control can be destroyed.
LEMMA DetachDrainsStep ==
  ASSUME Inv, DetachDrains
  PROVE  Inv'
<1> USE DEF Inv
<1>0. /\ detach = "draining" /\ detach' = "drained" /\ queue = <<>>
      /\ \A w \in Workers : worker[w] = IdleWorker
      /\ active' = {} /\ finished' = <<>>
      /\ UNCHANGED <<stage, toPlatform, replies, acks, entry, delivered, queue,
                     worker, posted>>
  BY DEF DetachDrains, channelVars
<1>1. /\ control' \in [Requests -> {"none", "live", "stopped", "destroyed"}]
      /\ \A q \in Requests : control'[q] \notin {"live", "stopped"}
  BY DEF DetachDrains, TypeOK, RegistryOwnsControls
<1>2. TypeOK'
  BY <1>0, <1>1, BoundAssumption DEF TypeOK
<1>3. ChannelInv' /\ CancelSentOnce' /\ RepliesAtMostOnce'
  BY <1>0 DEF ChannelInv, ChannelInvOf, DecodeInFlight, CancelInFlight,
    CancelSentOnce, RepliesAtMostOnce
<1>4. EntryInv' /\ HistoryInv'
  BY <1>0 DEF EntryInv, EntryInvOf, HistoryInv, Detached
<1>5. TaskInv' /\ DrainedInv'
  BY <1>0 DEF TaskInv, DrainedInv, IdleWorker
<1>6. CancelInv' /\ OutputInv' /\ RegistryOwnsControls'
  BY <1>0, <1>1 DEF CancelInv, OutputInv, RegistryOwnsControls
<1>7. CancelFindsRequest'
  BY <1>0 DEF CancelFindsRequest
<1> QED BY <1>2, <1>3, <1>4, <1>5, <1>6, <1>7

-----------------------------------------------------------------------------
(* The steps of a worker.                                                  *)

\* A worker that only moves its own task on disturbs the invariants about
\* tasks and outputs alone.
WorkerOnly == UNCHANGED <<stage, channelVars, registryVars, posted, detach>>

\* A step of a worker that ends no task disturbs only tasks and outputs.
LEMMA WorkerOnlyStep ==
  ASSUME Inv, TypeOK', TaskInv', OutputInv', WorkerOnly
  PROVE  Inv'
<1> USE DEF Inv, WorkerOnly, channelVars, registryVars
<1>1. ChannelInv' /\ CancelSentOnce' /\ RepliesAtMostOnce'
  BY DEF ChannelInv, ChannelInvOf, DecodeInFlight, CancelInFlight,
    CancelSentOnce, RepliesAtMostOnce
<1>2. EntryInv' /\ HistoryInv' /\ DrainedInv'
  BY DEF EntryInv, EntryInvOf, HistoryInv, DrainedInv, Detached
<1>3. CancelInv' /\ RegistryOwnsControls' /\ CancelFindsRequest'
  BY DEF CancelInv, RegistryOwnsControls, CancelFindsRequest
<1> QED BY <1>1, <1>2, <1>3

\* The task of a worker is a record of a request, a phase and an output.
LEMMA TaskIsRecord ==
  ASSUME NEW r, NEW phase, NEW output
  PROVE  /\ Task(r, phase, output).request = r
         /\ Task(r, phase, output).phase = phase
         /\ Task(r, phase, output).output = output
BY DEF Task

\* A task leaves the queue for one worker.
LEMMA TaskTakenStep ==
  ASSUME Inv, NEW w \in Workers, TaskTaken(w)
  PROVE  Inv'
<1> USE DEF Inv
<1>0. /\ worker[w] = IdleWorker /\ queue # <<>>
      /\ worker' = [worker EXCEPT ![w] = Task(Head(queue), "taken", "none")]
      /\ queue' = Tail(queue) /\ WorkerOnly
  BY DEF TaskTaken, WorkerOnly
<1> DEFINE r == queue[1]
<1>1. /\ queue' \in Seq(Requests) /\ Head(queue) = r /\ 1 \in DOMAIN queue
      /\ \A i \in DOMAIN queue' :
           i + 1 \in DOMAIN queue /\ queue'[i] = queue[i + 1]
      /\ DOMAIN queue' \subseteq Nat \ {0}
  BY <1>0, TailAt DEF TypeOK
<1>2. r \in active /\ r \in Requests
  BY <1>1 DEF TaskInv, TypeOK
<1>3. /\ worker'[w].request = r /\ worker'[w].phase = "taken"
      /\ worker'[w].output = "none"
      /\ \A v \in Workers \ {w} : worker'[v] = worker[v]
  BY <1>0, <1>1, TaskIsRecord DEF TypeOK
<1>4. TypeOK'
  <2>1. Task(r, "taken", "none") \in
          [request : Requests \cup {NoRequest},
           phase : {"idle", "taken", "decoding", "returned"}, output : Outputs]
    BY <1>2 DEF Task, Outputs
  <2> HIDE DEF r
  <2> QED BY <1>0, <1>1, <2>1 DEF TypeOK, WorkerOnly, channelVars, registryVars
<1>5. TaskInv'
  <2>1. \A i \in DOMAIN queue' : queue'[i] \in active /\ queue'[i] # r
    BY <1>1 DEF TaskInv
  <2>2. \A i, j \in DOMAIN queue' : queue'[i] = queue'[j] => i = j
    BY <1>1 DEF TaskInv
  <2>3. \A v \in Workers \ {w} :
          worker[v].phase # "idle" =>
            /\ worker[v].request # r
            /\ \A i \in DOMAIN queue' : queue'[i] # worker[v].request
    BY <1>1 DEF TaskInv
  <2>4. active' = active /\ worker[w].phase = "idle"
    BY <1>0 DEF WorkerOnly, registryVars, IdleWorker
  <2> HIDE DEF r
  <2>5. ASSUME NEW u \in Workers
        PROVE  /\ worker'[u].phase = "idle" => worker'[u] = IdleWorker
               /\ worker'[u].phase # "idle" =>
                    /\ worker'[u].request \in active
                    /\ \A i \in DOMAIN queue' : queue'[i] # worker'[u].request
    <3>1. CASE u = w
      BY <3>1, <1>2, <1>3, <2>1
    <3>2. CASE u # w
      BY <3>2, <1>3, <2>3 DEF TaskInv
    <3> QED BY <3>1, <3>2
  <2>6. ASSUME NEW u \in Workers, NEW v \in Workers,
               worker'[v].phase # "idle",
               worker'[v].request = worker'[u].request
        PROVE  v = u
    <3>1. r # NoRequest
      BY <1>2, NoRequestAssumption
    <3>2. \A x \in Workers : worker[x].request = r =>
            worker[x].phase # "idle"
      BY <3>1 DEF TaskInv, IdleWorker
    <3> QED BY <1>3, <2>3, <2>6, <3>2 DEF TaskInv
  <2> QED BY <2>1, <2>2, <2>4, <2>5, <2>6 DEF TaskInv
<1>6. OutputInv'
  BY <1>0, <1>3 DEF OutputInv, WorkerOnly, registryVars
<1> QED BY <1>0, <1>4, <1>5, <1>6, WorkerOnlyStep

\* A task that skips the codec was stopped; Android's codec leaves an output.
LEMMA TaskMovesOnStep ==
  ASSUME Inv, NEW w \in Workers, NEW r \in Requests,
         TaskStarts(w, r) \/ CodecReturns(w, r)
  PROVE  Inv'
<1> USE DEF Inv
<1>1. PICK phase \in {"decoding", "returned"}, output \in Outputs :
        /\ worker' = [worker EXCEPT ![w] = Task(r, phase, output)]
        /\ worker[w].request = r /\ worker[w].phase # "idle"
        /\ queue' = queue /\ WorkerOnly
        /\ Platform = "android" /\ phase = "returned" /\ output = "none" =>
             ~ShouldStart(r)
  <2>1. CASE TaskStarts(w, r)
    BY <2>1 DEF TaskStarts, Holds, WorkerOnly, Outputs
  <2>2. CASE CodecReturns(w, r)
    BY <2>2 DEF CodecReturns, CodecOutputs, Holds, WorkerOnly, Outputs
  <2> QED BY <2>1, <2>2
<1>2. /\ worker'[w].request = r /\ worker'[w].phase = phase
      /\ worker'[w].output = output
      /\ \A v \in Workers \ {w} : worker'[v] = worker[v]
  BY <1>1, TaskIsRecord DEF TypeOK
<1>3. TypeOK'
  <2>1. Task(r, phase, output) \in
          [request : Requests \cup {NoRequest},
           phase : {"idle", "taken", "decoding", "returned"}, output : Outputs]
    BY DEF Task
  <2> QED BY <1>1, <2>1 DEF TypeOK, WorkerOnly, channelVars, registryVars
<1>4. TaskInv'
  <2>1. active' = active
    BY <1>1 DEF WorkerOnly, registryVars
  <2> QED BY <1>1, <1>2, <2>1 DEF TaskInv
<1>5. OutputInv'
  <2>1. ASSUME Platform = "android", phase = "returned", output = "none"
        PROVE  entry[r] # "active"
    <3>1. r \in active /\ ~ShouldStart(r)
      BY <1>1, <2>1 DEF TaskInv
    <3> QED BY <3>1 DEF ShouldStart, EntryInv, EntryInvOf
  <2> QED BY <1>1, <1>2, <2>1 DEF OutputInv, WorkerOnly, registryVars
<1> QED BY <1>1, <1>3, <1>4, <1>5, WorkerOnlyStep

\* The disposition says what the entry was, and finish takes it from active.
LEMMA TaskFinishesStep ==
  ASSUME Inv, NEW w \in Workers, NEW r \in Requests, TaskFinishes(w, r)
  PROVE  Inv'
<1> USE DEF Inv
<1> DEFINE c == [disposition |-> Disposition(r), output |-> worker[w].output]
<1>0. /\ worker[w].request = r /\ worker[w].phase = "returned"
      /\ posted' = [posted EXCEPT ![r] = c]
      /\ worker' = [worker EXCEPT ![w] = IdleWorker]
      /\ Finish(r)
      /\ UNCHANGED <<stage, toPlatform, replies, acks, delivered, queue,
                     detach>>
  BY DEF TaskFinishes, Holds, channelVars
<1>1. r \in active
  BY <1>0 DEF TaskInv
<1>2. /\ entry[r] \in IF Detached THEN {"detached"}
                     ELSE {"active", "cancelled"}
      /\ posted[r] = NotPosted /\ r \notin delivered /\ replies[r] = <<>>
  BY <1>1 DEF EntryInv, EntryInvOf
<1>3. /\ c \in Completion
      /\ c.disposition = "detached" <=> Detached
      /\ c.disposition = "success" <=> ~Detached /\ entry[r] = "active"
      /\ c.output = worker[w].output
  BY <1>1, <1>2 DEF Disposition, Completion, Dispositions, TypeOK
<1> HIDE DEF c
<1>4. /\ posted'[r] = c /\ c # NotPosted
      /\ \A q \in Requests \ {r} : posted'[q] = posted[q]
      /\ posted' \in [Requests -> Completion \cup {NotPosted}]
  BY <1>0, <1>3 DEF TypeOK, Completion, Dispositions, NotPosted
<1>5. /\ entry'[r] = "finished"
      /\ \A q \in Requests \ {r} : entry'[q] = entry[q]
      /\ entry' \in [Requests -> {"none", "active", "cancelled", "finished",
                                  "detached"}]
  BY <1>0, <1>1 DEF Finish, TypeOK
<1>6. /\ control'[r] = "destroyed"
      /\ \A q \in Requests \ {r} : control'[q] = control[q]
      /\ control' \in [Requests -> {"none", "live", "stopped", "destroyed"}]
  BY <1>0, <1>1 DEF Finish, TypeOK
<1>7. active' = active \ {r}
  BY <1>0, <1>1 DEF Finish
<1>8. /\ finished' \in Seq(Requests) /\ Len(finished') <= MaxFinished
      /\ Len(finished) = MaxFinished => Len(finished') = MaxFinished
      /\ \A q \in Requests :
           ~Detached /\ q \notin Range(finished') =>
             \/ Len(finished') = MaxFinished
             \/ q # r /\ q \notin Range(finished)
  <2>1. CASE Detached /\ finished' = finished
    BY <2>1 DEF TypeOK
  <2>2. CASE finished' \in Remember(Append(finished, r))
    BY <2>2, HistoryGrows
  <2> QED BY <1>0, <1>1, <2>1, <2>2 DEF Finish
<1>9. /\ worker'[w] = IdleWorker
      /\ \A v \in Workers \ {w} : worker'[v] = worker[v]
  BY <1>0 DEF TypeOK
<1>10. TypeOK'
  <2>1. IdleWorker \in
          [request : Requests \cup {NoRequest},
           phase : {"idle", "taken", "decoding", "returned"}, output : Outputs]
    BY DEF IdleWorker, Outputs
  <2> QED BY <1>0, <1>4, <1>5, <1>6, <1>7, <1>8, <2>1 DEF TypeOK
<1>11. ChannelInv' /\ CancelSentOnce' /\ RepliesAtMostOnce'
  BY <1>0, <1>2, <1>5 DEF ChannelInv, ChannelInvOf, DecodeInFlight,
    CancelInFlight, CancelSentOnce, RepliesAtMostOnce
<1>12. EntryInv'
  BY <1>0, <1>2, <1>3, <1>4, <1>5, <1>7 DEF EntryInv, EntryInvOf, Detached
<1>13. TaskInv'
  <2>1. \A i \in DOMAIN queue : queue[i] # r
    BY <1>0 DEF TaskInv
  <2>2. \A v \in Workers \ {w} : worker[v].request # r
    BY <1>0, NoRequestAssumption DEF TaskInv, IdleWorker
  <2>3. worker'[w].phase = "idle" /\ worker'[w].request = NoRequest
    BY <1>9 DEF IdleWorker
  <2>4. ASSUME NEW u \in Workers, NEW v \in Workers,
               worker'[v].phase # "idle",
               worker'[v].request = worker'[u].request
        PROVE  v = u
    <3>1. v # w
      BY <2>3, <2>4
    <3>2. worker[v].phase # "idle" /\ worker[v].request \in active
      BY <1>9, <2>4, <3>1 DEF TaskInv
    <3>3. u # w
      BY <1>9, <2>3, <2>4, <3>1, <3>2, NoRequestAssumption DEF TypeOK
    <3> QED BY <1>9, <2>4, <3>1, <3>3 DEF TaskInv
  <2> QED BY <1>0, <1>7, <1>9, <2>1, <2>2, <2>3, <2>4 DEF TaskInv
<1>14. DrainedInv' /\ RegistryOwnsControls'
  BY <1>0, <1>6, <1>7 DEF DrainedInv, RegistryOwnsControls
<1>15. CancelInv'
  BY <1>0, <1>2, <1>3, <1>4, <1>5 DEF CancelInv
<1>16. OutputInv'
  <2>1. ASSUME NEW v \in Workers, worker'[v].phase = "returned"
        PROVE  v # w /\ worker[v].request # r
    <3>1. v # w
      BY <1>9, <2>1 DEF IdleWorker
    <3> QED BY <1>0, <1>9, <2>1, <3>1 DEF TaskInv
  <2>2. ASSUME NEW v \in Workers, worker'[v].phase = "returned"
        PROVE  /\ worker'[v] = worker[v]
               /\ entry'[worker[v].request] = entry[worker[v].request]
    <3>1. worker'[v] = worker[v] /\ worker[v].request \in active
      BY <1>9, <2>1, <2>2 DEF TaskInv
    <3> QED BY <1>5, <2>1, <2>2, <3>1 DEF TypeOK
  <2>3. Platform = "android" /\ c.disposition = "success" => c.output # "none"
    BY <1>0, <1>3 DEF OutputInv
  <2> QED BY <1>4, <2>2, <2>3 DEF OutputInv
<1>17. HistoryInv'
  BY <1>0, <1>5, <1>8 DEF HistoryInv, Detached
<1>18. CancelFindsRequest'
  BY <1>0, <1>2, <1>5, <1>8 DEF CancelFindsRequest
<1> QED
  BY <1>10, <1>11, <1>12, <1>13, <1>14, <1>15, <1>16, <1>17, <1>18

-----------------------------------------------------------------------------
(* The theorems.                                                           *)

\* A step that changes nothing keeps Inv.
LEMMA StutterStep == ASSUME Inv, UNCHANGED vars PROVE Inv'
<1> USE DEF Inv, vars, channelVars, registryVars, threadVars
<1>1. TypeOK'
  BY DEF TypeOK
<1>2. ChannelInv' /\ CancelSentOnce' /\ RepliesAtMostOnce'
  BY DEF ChannelInv, ChannelInvOf, DecodeInFlight, CancelInFlight,
    CancelSentOnce, RepliesAtMostOnce
<1>3. EntryInv' /\ HistoryInv' /\ TaskInv' /\ DrainedInv'
  BY DEF EntryInv, EntryInvOf, HistoryInv, TaskInv, DrainedInv, Detached
<1>4. CancelInv' /\ OutputInv' /\ RegistryOwnsControls' /\ CancelFindsRequest'
  BY DEF CancelInv, OutputInv, RegistryOwnsControls, CancelFindsRequest
<1> QED BY <1>1, <1>2, <1>3, <1>4

\* Inv is inductive.
LEMMA NextInv == ASSUME Inv, [Next]_vars PROVE Inv'
<1>1. ASSUME NEW r \in Requests, Probe(r) PROVE Inv'
  BY <1>1, StageStartsStep, GivesUpStep, ReplyArrivesStep DEF Probe
<1>2. ASSUME NEW r \in Requests, PlatformThread(r) PROVE Inv'
  BY <1>2, DecodeArrivesStep, CancelArrivesStep, DeliverStep DEF PlatformThread
<1>3. ASSUME NEW w \in Workers, Worker(w) PROVE Inv'
  BY <1>3, TaskTakenStep, TaskMovesOnStep, TaskFinishesStep DEF Worker
<1> QED
  BY <1>1, <1>2, <1>3, DetachBeginsStep, ExecutorShutsDownStep,
     DetachDrainsStep, StutterStep DEF Next

\* Inv holds throughout.
THEOREM Invariance == Spec => []Inv
BY InitInv, NextInv, PTL DEF Spec

\* Every variable keeps its type, and the history its bound.
THEOREM TypeCorrect == Spec => []TypeOK
<1>1. Inv => TypeOK
  BY DEF Inv
<1> QED BY <1>1, Invariance, PTL

\* No decodeGlb call is answered twice.
THEOREM AnsweredAtMostOnce == Spec => []RepliesAtMostOnce
<1>1. Inv => RepliesAtMostOnce
  BY DEF Inv
<1> QED BY <1>1, Invariance, PTL

\* After "cancelled" no output of the request reaches the probe.
THEOREM CancelHolds == Spec => []AcknowledgedCancelHolds
<1>1. Inv => AcknowledgedCancelHolds
  BY DEF Inv, CancelInv, AcknowledgedCancelHolds
<1> QED BY <1>1, Invariance, PTL

\* Controls exist exactly while the registry holds their entries, and a
\* codec's control is not destroyed while it runs.
THEOREM ControlsHaveOwner == Spec => []ControlsAreOwned
<1>1. Inv => ControlsAreOwned
  BY DEF Inv, TaskInv, ControlsAreOwned, RegistryOwnsControls, CodecHasControl,
         Holds
<1> QED BY <1>1, Invariance, PTL

\* At most one cancelDecode per request, and only for a stage given up.
THEOREM CancelIsSentOnce == Spec => []CancelSentOnce
<1>1. Inv => CancelSentOnce
  BY DEF Inv
<1> QED BY <1>1, Invariance, PTL

\* "unknownRequest" has one of three reasons.
THEOREM CancelsFindRequests == Spec => []CancelFindsRequest
<1>1. Inv => CancelFindsRequest
  BY DEF Inv
<1> QED BY <1>1, Invariance, PTL

-----------------------------------------------------------------------------
(* The refinement.                                                         *)

FateUnchanged == \A q \in Requests : Fate(q)' = Fate(q)

\* A step after which every request has the fate it had is a stutter.
LEMMA FateStutters ==
  ASSUME FateUnchanged, Detached' = Detached
  PROVE  [Promise!Next]_(Promise!vars)
BY DEF FateUnchanged, Promise!vars

\* A step that gives one request a new fate updates the mapped function there.
LEMMA FateChanges ==
  ASSUME NEW r \in Requests, NEW from, NEW to, Fate(r) \in from, Fate(r)' = to,
         \A q \in Requests \ {r} : Fate(q)' = Fate(q)
  PROVE  Promise!Become(r, from, to)
BY DEF Promise!Become

\* A step that leaves the answers, the entries and the completions alone.
LEMMA FateUntouched ==
  ASSUME UNCHANGED <<replies, entry, posted, detach>>
  PROVE  [Promise!Next]_(Promise!vars)
<1>1. FateUnchanged /\ Detached' = Detached
  BY DEF FateUnchanged, Fate, Outcome, Detached
<1> QED BY <1>1, FateStutters

\* A call that is handled is admitted or refused.
LEMMA DecodeArrivesKeeps ==
  ASSUME Inv, NEW r \in Requests, DecodeArrives(r)
  PROVE  [Promise!Next]_(Promise!vars)
<1>0. /\ entry[r] = "none" /\ replies[r] = <<>> /\ posted[r] = NotPosted
      /\ Detached' = Detached /\ posted' = posted
      /\ replies \in [Requests -> Seq(Replies)]
  <2>1. toPlatform[1] = Call("decodeGlb", r) /\ 1 \in DOMAIN toPlatform
    BY TailAt DEF DecodeArrives, NextCall, Inv, TypeOK
  <2>2. entry[r] = "none" /\ replies[r] = <<>>
    BY <2>1 DEF Inv, ChannelInv, ChannelInvOf, DecodeInFlight
  <2> QED BY <2>2 DEF DecodeArrives, Inv, EntryInv, EntryInvOf, Detached,
    TypeOK
<1>1. Fate(r) = "unsent"
  BY <1>0 DEF Fate
<1>2. ASSUME NEW answer \in Errors \ {"cancelled"}, Reply(r, answer),
             \A q \in Requests \ {r} : entry'[q] = entry[q]
      PROVE  Promise!Refuse(r)
  <2>1. /\ replies'[r] # <<>> /\ Head(replies'[r]) = answer
        /\ \A q \in Requests \ {r} : replies'[q] = replies[q]
    BY <1>0, <1>2 DEF Reply
  <2>2. /\ Fate(r)' = "error"
        /\ \A q \in Requests \ {r} : Fate(q)' = Fate(q)
    BY <1>0, <1>2, <2>1 DEF Fate, Outcome, Errors
  <2>3. Promise!Become(r, {"unsent"}, "error")
    BY <1>1, <2>2, FateChanges
  <2> QED BY <1>0, <2>3 DEF Promise!Refuse
<1>3. ASSUME ~Detached, entry' = [entry EXCEPT ![r] = "active"],
             replies' = replies
      PROVE  Promise!Admit(r)
  <2>1. entry'[r] = "active" /\ \A q \in Requests \ {r} : entry'[q] = entry[q]
    BY <1>3 DEF Inv, TypeOK
  <2>2. /\ Fate(r)' = "pending"
        /\ \A q \in Requests \ {r} : Fate(q)' = Fate(q)
    BY <1>0, <1>3, <2>1 DEF Fate, Outcome, NotPosted
  <2>3. Promise!Become(r, {"unsent"}, "pending")
    BY <1>1, <2>2, FateChanges
  <2> QED BY <1>0, <1>3, <2>3 DEF Promise!Admit
<1>4. Promise!Refuse(r) \/ Promise!Admit(r)
  <2>1. CASE ~HasHandler
    BY <2>1, <1>2 DEF DecodeArrives, registryVars, Errors
  <2>2. CASE HasHandler /\ (Detached \/ r \in active)
    BY <2>2, <1>2 DEF DecodeArrives, registryVars, Errors
  <2>3. CASE HasHandler /\ ~(Detached \/ r \in active)
    <3>1. AdmitDecode(r)
      BY <2>3 DEF DecodeArrives
    <3>2. CASE entry' = [entry EXCEPT ![r] = "active"] /\ replies' = replies
      BY <3>2, <2>3, <1>3
    <3>3. CASE /\ entry' = [entry EXCEPT ![r] = "finished"]
               /\ Reply(r, "detached")
      BY <3>3, <1>2 DEF Inv, TypeOK, Errors
    <3>4. CASE entry' = entry /\ Reply(r, "nativeControlUnavailable")
      BY <3>4, <1>2 DEF Errors
    <3> QED BY <3>1, <3>2, <3>3, <3>4 DEF AdmitDecode, registryVars
  <2> QED BY <2>1, <2>2, <2>3
<1> QED BY <1>4 DEF Promise!Next

\* A cancel that is acknowledged revokes; any other has no effect.
LEMMA CancelArrivesKeeps ==
  ASSUME Inv, NEW r \in Requests, CancelArrives(r)
  PROVE  [Promise!Next]_(Promise!vars)
<1>0. UNCHANGED <<replies, posted, detach>> /\ PlatformThreadIsFree
  BY DEF CancelArrives, threadVars
<1>1. CASE entry' = entry
  BY <1>0, <1>1, FateUntouched
<1>2. CASE r \in active /\ entry' = [entry EXCEPT ![r] = "cancelled"]
  <2>1. /\ ~Detached /\ Detached' = Detached
        /\ entry[r] \in {"active", "cancelled"}
        /\ posted[r] = NotPosted /\ replies[r] = <<>>
    BY <1>0, <1>2 DEF PlatformThreadIsFree, Inv, DrainedInv, Detached,
      EntryInv, EntryInvOf
  <2>2. /\ entry'[r] = "cancelled"
        /\ \A q \in Requests \ {r} : entry'[q] = entry[q]
    BY <1>2 DEF Inv, TypeOK
  <2>3. /\ Fate(r) \in {"pending", "revoked"} /\ Fate(r)' = "revoked"
        /\ \A q \in Requests \ {r} : Fate(q)' = Fate(q)
    BY <1>0, <2>1, <2>2 DEF Fate, Outcome, NotPosted
  <2>4. CASE Fate(r) = "pending"
    <3>1. Promise!Become(r, {"pending"}, "revoked")
      BY <2>3, <2>4, FateChanges
    <3> QED BY <2>1, <3>1 DEF Promise!Next, Promise!Revoke
  <2>5. CASE Fate(r) = "revoked"
    BY <2>1, <2>3, <2>5, FateStutters DEF FateUnchanged
  <2> QED BY <2>3, <2>4, <2>5
<1> QED BY <1>1, <1>2 DEF CancelArrives

\* A completion decides the fate of a request that was still open, and none
\* after the close.
LEMMA DeliverKeeps ==
  ASSUME Inv, NEW r \in Requests, Deliver(r)
  PROVE  [Promise!Next]_(Promise!vars)
<1>0. /\ entry[r] = "finished" /\ replies[r] = <<>> /\ r \notin delivered
      /\ posted[r] \in Completion
      /\ posted[r].disposition = "detached" => Detached
      /\ entry' = entry /\ Detached' = Detached
      /\ replies \in [Requests -> Seq(Replies)]
  BY DEF Deliver, Inv, EntryInv, EntryInvOf, Detached, TypeOK
<1>1. /\ posted'[r] = NotPosted
      /\ \A q \in Requests \ {r} : posted'[q] = posted[q]
  BY DEF Deliver, Inv, TypeOK
<1>2. CASE Detached
  <2>1. replies' = replies
    BY <1>2 DEF Deliver
  <2>2. FateUnchanged
    BY <1>0, <1>1, <1>2, <2>1 DEF FateUnchanged, Fate, Outcome
  <2> QED BY <1>0, <2>2, FateStutters
<1>3. CASE ~Detached
  <2> DEFINE answer == Answer(posted[r])
  <2>1. /\ posted[r].disposition \in {"success", "cancelled"}
        /\ posted[r].output \in Outputs
        /\ Platform = "android" /\ posted[r].disposition = "success" =>
             posted[r].output # "none"
    BY <1>0, <1>3 DEF Completion, Dispositions, Inv, OutputInv
  <2>2. \/ /\ posted[r].disposition = "success"
           /\ answer \in {"response"} \cup (Errors \ {"cancelled"})
        \/ /\ posted[r].disposition = "cancelled"
           /\ answer \in {"timeout", "cancelled"}
    BY <2>1, PlatformAssumption DEF Answer, Outputs, Errors
  <2>3. Reply(r, answer)
    BY <1>0, <1>3 DEF Deliver
  <2> HIDE DEF answer
  <2>4. /\ replies'[r] # <<>> /\ Head(replies'[r]) = answer
        /\ \A q \in Requests \ {r} : replies'[q] = replies[q]
    BY <1>0, <2>3 DEF Reply
  <2>5. \A q \in Requests \ {r} : Fate(q)' = Fate(q)
    BY <1>0, <1>1, <2>4 DEF Fate, Outcome
  <2>6. /\ Fate(r) = IF posted[r].disposition = "success" THEN "pending"
                     ELSE "revoked"
        /\ Fate(r)' = Outcome(r)'
    BY <1>0, <1>3, <2>1, <2>4 DEF Fate
  <2>7. CASE answer = "response"
    <3>1. Fate(r) = "pending" /\ Fate(r)' = "value"
      BY <2>2, <2>4, <2>6, <2>7 DEF Outcome
    <3>2. Promise!Become(r, {"pending"}, "value")
      BY <2>5, <3>1, FateChanges
    <3> QED BY <1>0, <1>3, <3>2 DEF Promise!Next, Promise!Succeed
  <2>8. CASE answer = "cancelled"
    <3>1. Fate(r) = "revoked" /\ Fate(r)' = "cancelled"
      BY <2>2, <2>4, <2>6, <2>8 DEF Outcome, Errors
    <3>2. Promise!Become(r, {"revoked"}, "cancelled")
      BY <2>5, <3>1, FateChanges
    <3> QED BY <1>0, <1>3, <3>2 DEF Promise!Next, Promise!Cancel
  <2>9. CASE answer \in Errors \ {"cancelled"}
    <3>1. Fate(r) \in {"pending", "revoked"} /\ Fate(r)' = "error"
      BY <2>2, <2>4, <2>6, <2>9 DEF Outcome, Errors
    <3>2. Promise!Become(r, {"pending", "revoked"}, "error")
      BY <2>5, <3>1, FateChanges
    <3> QED BY <1>0, <1>3, <3>2 DEF Promise!Next, Promise!Fail
  <2> QED BY <2>2, <2>7, <2>8, <2>9 DEF Errors
<1> QED BY <1>2, <1>3

\* What is open when the detach begins is dropped.
LEMMA DetachBeginsKeeps ==
  ASSUME Inv, DetachBegins
  PROVE  [Promise!Next]_(Promise!vars)
<1>0. /\ ~Detached /\ Detached' /\ replies' = replies /\ posted' = posted
      /\ \A q \in Requests :
           entry'[q] = IF q \in active THEN "detached" ELSE entry[q]
      /\ replies \in [Requests -> Seq(Replies)]
  BY DEF DetachBegins, Detached, channelVars, Inv, TypeOK
<1>1. ASSUME NEW q \in Requests
      PROVE  Fate(q)' = IF Fate(q) \in {"pending", "revoked"} THEN "dropped"
                        ELSE Fate(q)
  <2>1. CASE replies[q] # <<>>
    <3>1. Head(replies[q]) \in Replies
      BY <1>0, <2>1
    <3>2. Fate(q) = Outcome(q) /\ Fate(q)' = Outcome(q)'
      BY <1>0, <2>1 DEF Fate
    <3>3. Outcome(q)' = Outcome(q) /\ Outcome(q) \notin {"pending", "revoked"}
      BY <1>0, <3>1 DEF Outcome, Replies, Errors
    <3> QED BY <3>2, <3>3
  <2>2. CASE replies[q] = <<>>
    BY <1>0, <2>2 DEF Fate, Inv, EntryInv, EntryInvOf
  <2> QED BY <2>1, <2>2
<1>2. Promise!Close
  BY <1>0, <1>1 DEF Promise!Close
<1> QED BY <1>2 DEF Promise!Next

\* A task that finishes leaves its request as open or as revoked as it was.
LEMMA TaskFinishesKeeps ==
  ASSUME Inv, NEW w \in Workers, NEW r \in Requests, TaskFinishes(w, r)
  PROVE  [Promise!Next]_(Promise!vars)
<1>0. /\ Detached' = Detached /\ replies' = replies
      /\ r \in active /\ Finish(r)
      /\ posted' = [posted EXCEPT ![r] = [disposition |-> Disposition(r),
                                          output |-> worker[w].output]]
  BY DEF TaskFinishes, Holds, channelVars, Detached, Inv, TaskInv
<1>1. /\ entry[r] \in IF Detached THEN {"detached"}
                     ELSE {"active", "cancelled"}
      /\ posted[r] = NotPosted /\ replies[r] = <<>>
  BY <1>0 DEF Inv, EntryInv, EntryInvOf
<1>2. /\ entry'[r] = "finished"
      /\ posted'[r].disposition = Disposition(r)
      /\ \A q \in Requests \ {r} :
           entry'[q] = entry[q] /\ posted'[q] = posted[q]
  BY <1>0 DEF Finish, Inv, TypeOK
<1>3. Fate(r)' = Fate(r)
  BY <1>0, <1>1, <1>2 DEF Fate, Disposition, NotPosted
<1>4. \A q \in Requests \ {r} : Fate(q)' = Fate(q)
  BY <1>0, <1>2 DEF Fate, Outcome
<1> QED BY <1>0, <1>3, <1>4, FateStutters DEF FateUnchanged

\* Every step is one of the promise, or a stutter.
LEMMA NextKeeps == ASSUME Inv, [Next]_vars PROVE [Promise!Next]_(Promise!vars)
<1>1. ASSUME NEW r \in Requests, Probe(r) PROVE [Promise!Next]_(Promise!vars)
  BY <1>1, FateUntouched DEF Probe, StageStarts, CallerCancels, TimerFires,
    ReplyArrives, channelVars, registryVars, threadVars
<1>2. ASSUME NEW r \in Requests, PlatformThread(r)
      PROVE  [Promise!Next]_(Promise!vars)
  BY <1>2, DecodeArrivesKeeps, CancelArrivesKeeps, DeliverKeeps
  DEF PlatformThread
<1>3. ASSUME NEW w \in Workers, Worker(w) PROVE [Promise!Next]_(Promise!vars)
  <2>1. CASE TaskTaken(w)
    BY <2>1, FateUntouched DEF TaskTaken, channelVars, registryVars
  <2>2. CASE \E r \in Requests : TaskStarts(w, r) \/ CodecReturns(w, r)
    BY <2>2, FateUntouched DEF TaskStarts, CodecReturns, channelVars,
      registryVars
  <2>3. CASE \E r \in Requests : TaskFinishes(w, r)
    BY <2>3, TaskFinishesKeeps
  <2> QED BY <1>3, <2>1, <2>2, <2>3 DEF Worker
<1>4. CASE ExecutorShutsDown
  <2>1. FateUnchanged /\ Detached' = Detached
    BY <1>4 DEF ExecutorShutsDown, FateUnchanged, Fate, Outcome, Detached,
      channelVars, registryVars
  <2> QED BY <2>1, FateStutters
<1>5. CASE DetachDrains
  <2>1. FateUnchanged /\ Detached' = Detached
    BY <1>5 DEF DetachDrains, FateUnchanged, Fate, Outcome, Detached,
      channelVars
  <2> QED BY <2>1, FateStutters
<1>6. CASE UNCHANGED vars
  BY <1>6, FateUntouched DEF vars, channelVars, registryVars, threadVars
<1> QED
  BY <1>1, <1>2, <1>3, <1>4, <1>5, <1>6, DetachBeginsKeeps DEF Next

\* Every behaviour of probe, channel and plugin is one of DecodePromise.
THEOREM Refinement == Spec => KeepsPromise
<1>1. Init => Promise!Init
  BY DEF Init, Promise!Init, Fate, Outcome, Detached
<1>2. Inv /\ [Next]_vars => [Promise!Next]_(Promise!vars)
  BY NextKeeps
<1> QED
  BY <1>1, <1>2, Invariance, PTL DEF Spec, KeepsPromise, Promise!Spec
=============================================================================
