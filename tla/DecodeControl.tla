---------------------------- MODULE DecodeControl ----------------------------
(***************************************************************************)
(* The control of one native decode (fsv_draco_control.cc, and the same    *)
(* code in fsv_basisu_control.cc): every allocation of the codec reserves  *)
(* its bytes here first, from any thread and without a lock, while another *)
(* thread may stop the decode.                                             *)
(*                                                                         *)
(* One action is one operation on an atomic; what a thread does between    *)
(* two of them is local and belongs to the first.  The atomics are         *)
(* sequentially consistent: the code names no weaker order.  A weak        *)
(* exchange that fails spuriously reads back the value it had and changes  *)
(* nothing, so it is a stuttering step.  An admitted reservation is named  *)
(* by its number, as the code names an allocation by its pointer.          *)
(* Alignments are powers of two, so that fsv_allocate refuses none         *)
(* (fsv_basisu_control.cc 131-136); the owner count and the other          *)
(* statistics are left out.                                                *)
(***************************************************************************)
EXTENDS Naturals, FiniteSets

CONSTANTS Threads,          \* the threads that use the control
          Sizes,            \* the byte counts they ask for
          Limit,            \* working_byte_limit_
          MaxReservations,  \* bound: reservations admitted in one behaviour
          Codec             \* whose control it is: "draco" or "basisu"

ASSUME SizesAssumption == Sizes \subseteq Nat
ASSUME LimitAssumption == Limit \in Nat
ASSUME MaxReservationsAssumption == MaxReservations \in Nat
ASSUME CodecAssumption == Codec \in {"draco", "basisu"}

VARIABLES
  liveBytes,    \* live_bytes_
  peakBytes,    \* peak_bytes_
  stopReason,   \* stop_reason_
  allocations,  \* allocation_count_, which also names the reservations
  settled,      \* allocations handed out and not yet released
  \* each thread
  pc,           \* the atomic operation it is about to do
  reservation,  \* the reservation it works on
  current,      \* its local copy of live_bytes_
  peak,         \* its local copy of peak_bytes_
  releases,     \* why it calls Release
  outcome       \* how its last allocation ended

sharedVars == <<liveBytes, peakBytes, stopReason, allocations, settled>>
controlVars == <<sharedVars, pc, reservation, current, peak, releases, outcome>>

StopReasons == {"cancelled", "deadline", "budget", "heap"}
Outcomes == {"success", "stopped", "budget", "heap"}
Reservations == [id : Nat, bytes : Nat]

ControlTypeOK ==
  /\ liveBytes \in Nat
  /\ peakBytes \in Nat
  /\ stopReason \in StopReasons \cup {"none"}
  /\ allocations \in Nat
  /\ settled \in SUBSET Reservations
  /\ pc \in [Threads -> {"idle", "load", "exchange", "recheck", "loadPeak",
                         "raisePeak", "heap", "release", "subtract",
                         "refused", "heapFailed"}]
  /\ reservation \in [Threads -> Reservations]
  /\ current \in [Threads -> Nat]
  /\ peak \in [Threads -> Nat]
  /\ releases \in [Threads -> {"nothing", "freed", "stopped", "heapless"}]
  /\ outcome \in [Threads -> Outcomes]

ControlInit ==
  /\ liveBytes = 0
  /\ peakBytes = 0
  /\ stopReason = "none"
  /\ allocations = 0
  /\ settled = {}
  /\ pc = [t \in Threads |-> "idle"]
  /\ reservation = [t \in Threads |-> [id |-> 0, bytes |-> 0]]
  /\ current = [t \in Threads |-> 0]
  /\ peak = [t \in Threads |-> 0]
  /\ releases = [t \in Threads |-> "nothing"]
  /\ outcome = [t \in Threads |-> "success"]

-----------------------------------------------------------------------------

Goto(t, from, to) == pc[t] = from /\ pc' = [pc EXCEPT ![t] = to]

\* compare_exchange_strong of the stop reason, from kNone.
StopWith(reason) ==
  stopReason' = IF stopReason = "none" THEN reason ELSE stopReason

\* OutcomeForStopReason, and the nested conditionals of fsv_allocate, which
\* differ for a control that did not stop.
OutcomeFor(reason) ==
  CASE reason \in {"cancelled", "deadline"} -> "stopped"
    [] reason = "budget"                    -> "budget"
    [] reason = "heap"                      -> "heap"
    [] OTHER -> IF Codec = "draco" THEN "heap" ELSE "stopped"

AskedBytes(t) == reservation[t].bytes
Fits(t) == AskedBytes(t) <= Limit /\ current[t] <= Limit - AskedBytes(t)
Level(t) == current[t] + AskedBytes(t)
Subtracted(t) ==
  current[t] - (IF current[t] <= AskedBytes(t) THEN current[t]
                                               ELSE AskedBytes(t))

\* Cancel, Deadline.
StopFor(reason) ==
  /\ stopReason = "none"
  /\ stopReason' = reason
  /\ UNCHANGED <<liveBytes, peakBytes, allocations, settled, pc, reservation,
                 current, peak, releases, outcome>>

-----------------------------------------------------------------------------
(* TryReserve.                                                             *)

\* An allocation or a scoped reservation looks at the stop reason.
BeginReserve(t, bytes) ==
  /\ Goto(t, "idle", IF stopReason = "none" THEN "load" ELSE "refused")
  /\ reservation' = [reservation EXCEPT ![t].bytes = bytes]
  /\ UNCHANGED <<sharedVars, current, peak, releases, outcome>>

LoadLive(t) ==
  /\ Goto(t, "load", "exchange")
  /\ current' = [current EXCEPT ![t] = liveBytes]
  /\ UNCHANGED <<sharedVars, reservation, peak, releases, outcome>>

\* Too many bytes for what it read: the decode stops, unless it has already.
ExceedBudget(t) ==
  /\ Goto(t, "exchange", "refused")
  /\ ~Fits(t)
  /\ StopWith("budget")
  /\ UNCHANGED <<liveBytes, peakBytes, allocations, settled, reservation,
                 current, peak, releases, outcome>>

\* Seeded bug: the bytes are stored without comparing.
AddWithoutComparing(t) ==
  /\ Goto(t, "exchange", "recheck")
  /\ Fits(t)
  /\ allocations < MaxReservations
  /\ liveBytes' = Level(t)
  /\ allocations' = allocations + 1
  /\ reservation' = [reservation EXCEPT ![t].id = allocations + 1]
  /\ UNCHANGED <<peakBytes, stopReason, settled, current, peak, releases,
                 outcome>>

\* The exchange of the live bytes succeeds.
AddBytes(t) ==
  /\ Goto(t, "exchange", "recheck")
  /\ Fits(t)
  /\ liveBytes = current[t]
  /\ allocations < MaxReservations
  /\ liveBytes' = Level(t)
  /\ allocations' = allocations + 1
  /\ reservation' = [reservation EXCEPT ![t].id = allocations + 1]
  /\ UNCHANGED <<peakBytes, stopReason, settled, current, peak, releases,
                 outcome>>

\* Another thread was faster: look again.
AddBytesFails(t) ==
  /\ pc[t] = "exchange"
  /\ Fits(t)
  /\ liveBytes # current[t]
  /\ current' = [current EXCEPT ![t] = liveBytes]
  /\ UNCHANGED <<sharedVars, pc, reservation, peak, releases, outcome>>

\* Seeded bug: the stop reason is not looked at again.
RecheckNothing(t) ==
  /\ Goto(t, "recheck", "loadPeak")
  /\ UNCHANGED <<sharedVars, reservation, current, peak, releases, outcome>>

\* A decode that stopped meanwhile gets its bytes back.
Recheck(t) ==
  /\ \/ stopReason = "none" /\ Goto(t, "recheck", "loadPeak")
        /\ UNCHANGED releases
     \/ stopReason # "none" /\ Goto(t, "recheck", "release")
        /\ releases' = [releases EXCEPT ![t] = "stopped"]
  /\ UNCHANGED <<sharedVars, reservation, current, peak, outcome>>

LoadPeak(t) ==
  /\ Goto(t, "loadPeak", "raisePeak")
  /\ peak' = [peak EXCEPT ![t] = peakBytes]
  /\ UNCHANGED <<sharedVars, reservation, current, releases, outcome>>

\* Seeded bug: a failed exchange of the peak is not repeated.
RaisePeakOnce(t) ==
  /\ Goto(t, "raisePeak", "heap")
  /\ peakBytes' = IF peak[t] < Level(t) /\ peak[t] = peakBytes THEN Level(t)
                                                               ELSE peakBytes
  /\ UNCHANGED <<liveBytes, stopReason, allocations, settled, reservation,
                 current, peak, releases, outcome>>

\* The peak is high enough, or it is raised, or it changed and is read again.
RaisePeak(t) ==
  /\ \/ /\ Level(t) <= peak[t]
        /\ Goto(t, "raisePeak", "heap")
        /\ UNCHANGED <<peakBytes, peak>>
     \/ /\ peak[t] < Level(t) /\ peak[t] = peakBytes
        /\ Goto(t, "raisePeak", "heap")
        /\ peakBytes' = Level(t)
        /\ UNCHANGED peak
     \/ /\ peak[t] < Level(t) /\ peak[t] # peakBytes
        /\ pc[t] = "raisePeak"
        /\ peak' = [peak EXCEPT ![t] = peakBytes]
        /\ UNCHANGED <<pc, peakBytes>>
  /\ UNCHANGED <<liveBytes, stopReason, allocations, settled, reservation,
                 current, releases, outcome>>

-----------------------------------------------------------------------------
(* AllocateMemory, fsv_allocate: what follows TryReserve.                  *)

\* A refused reservation is explained by the stop reason.
Explain(t) ==
  /\ Goto(t, "refused", "idle")
  /\ outcome' = [outcome EXCEPT ![t] = OutcomeFor(stopReason)]
  /\ UNCHANGED <<sharedVars, reservation, current, peak, releases>>

HeapSucceeds(t) ==
  /\ Goto(t, "heap", "idle")
  /\ settled' = settled \cup {reservation[t]}
  /\ outcome' = [outcome EXCEPT ![t] = "success"]
  /\ UNCHANGED <<liveBytes, peakBytes, stopReason, allocations, reservation,
                 current, peak, releases>>

HeapReturnsNull(t) ==
  /\ Goto(t, "heap", "release")
  /\ releases' = [releases EXCEPT ![t] = "heapless"]
  /\ UNCHANGED <<sharedVars, reservation, current, peak, outcome>>

\* Seeded bug: the outcome of BasisU in the control of Draco.
HeapFailureAlways(t) ==
  /\ Goto(t, "heapFailed", "idle")
  /\ StopWith("heap")
  /\ outcome' = [outcome EXCEPT ![t] = "heap"]
  /\ UNCHANGED <<liveBytes, peakBytes, allocations, settled, reservation,
                 current, peak, releases>>

\* The decode stops for want of memory; if it had stopped before, the
\* control of Draco says why, that of BasisU does not.
HeapFailure(t) ==
  /\ Goto(t, "heapFailed", "idle")
  /\ StopWith("heap")
  /\ outcome' = [outcome EXCEPT
                   ![t] = IF stopReason = "none" \/ Codec = "basisu"
                            THEN "heap" ELSE OutcomeFor(stopReason)]
  /\ UNCHANGED <<liveBytes, peakBytes, allocations, settled, reservation,
                 current, peak, releases>>

-----------------------------------------------------------------------------
(* Release.                                                                *)

\* ReleaseMemory, fsv_release, the end of a scoped reservation: any thread
\* may release what was handed out, once.
BeginRelease(t, r) ==
  /\ Goto(t, "idle", "release")
  /\ r \in settled
  /\ settled' = settled \ {r}
  /\ reservation' = [reservation EXCEPT ![t] = r]
  /\ releases' = [releases EXCEPT ![t] = "freed"]
  /\ UNCHANGED <<liveBytes, peakBytes, stopReason, allocations, current, peak,
                 outcome>>

ReleaseLoads(t) ==
  /\ Goto(t, "release", "subtract")
  /\ current' = [current EXCEPT ![t] = liveBytes]
  /\ UNCHANGED <<sharedVars, reservation, peak, releases, outcome>>

\* Where the caller of Release goes on.
Afterwards(t) ==
  CASE releases[t] = "stopped"  -> "refused"
    [] releases[t] = "heapless" -> "heapFailed"
    [] OTHER                    -> "idle"

SubtractBytes(t) ==
  /\ Goto(t, "subtract", Afterwards(t))
  /\ liveBytes = current[t]
  /\ liveBytes' = Subtracted(t)
  /\ UNCHANGED <<peakBytes, stopReason, allocations, settled, reservation,
                 current, peak, releases, outcome>>

SubtractBytesFails(t) ==
  /\ pc[t] = "subtract"
  /\ liveBytes # current[t]
  /\ current' = [current EXCEPT ![t] = liveBytes]
  /\ UNCHANGED <<sharedVars, pc, reservation, peak, releases, outcome>>

-----------------------------------------------------------------------------

Reserve(t) ==
  \/ \E bytes \in Sizes : BeginReserve(t, bytes)
  \/ LoadLive(t) \/ ExceedBudget(t) \/ AddBytes(t) \/ AddBytesFails(t)
  \/ Recheck(t) \/ LoadPeak(t) \/ RaisePeak(t)

Allocate(t) ==
  Explain(t) \/ HeapSucceeds(t) \/ HeapReturnsNull(t) \/ HeapFailure(t)

Release(t) ==
  \/ \E r \in settled : BeginRelease(t, r)
  \/ ReleaseLoads(t) \/ SubtractBytes(t) \/ SubtractBytesFails(t)

ControlNext ==
  \/ \E reason \in {"cancelled", "deadline"} : StopFor(reason)
  \/ \E t \in Threads : Reserve(t) \/ Allocate(t) \/ Release(t)

ControlSpec == ControlInit /\ [][ControlNext]_controlVars

-----------------------------------------------------------------------------
(* Properties.                                                             *)

\* A thread holds its reservation from the exchange that added the bytes to
\* the one that subtracts them, unless it is handed out.
Keeps(t) == pc[t] \in {"recheck", "loadPeak", "raisePeak", "heap", "release",
                       "subtract"}
Outstanding == settled \cup {reservation[t] : t \in {u \in Threads : Keeps(u)}}

\* The bytes of some reservations, each byte told apart.
Bytes(reservations) == UNION {{r.id} \X (1..r.bytes) : r \in reservations}

\* live_bytes_ is what is outstanding, whoever holds it, and never above the
\* limit, so that a release never saturates at zero and the destructor, which
\* aborts on live bytes, finds none when everything was released.
LiveBytesAreExact ==
  /\ liveBytes = Cardinality(Bytes(Outstanding))
  /\ liveBytes <= Limit

\* The peak that is reported covers everything that was ever handed out and
\* stays within the limit, though it is raised after the bytes were added.
PeakCovers ==
  /\ Cardinality(Bytes(settled)) <= peakBytes
  /\ peakBytes <= Limit

\* A failed allocation is reported with the reason the decode stopped for,
\* even if it failed for another one and lost the race to say so; the control
\* of BasisU makes an exception for a heap that returned nothing.
OutcomeNamesReason ==
  \A t \in Threads : outcome[t] # "success" =>
    /\ stopReason # "none"
    /\ \/ outcome[t] = OutcomeFor(stopReason)
       \/ Codec = "basisu" /\ outcome[t] = "heap"

\* The control keeps the promise of WorkingByteLedger: a reservation counts as
\* granted when the stop reason was found unset for the second time.
Granted(t) == \/ pc[t] \in {"loadPeak", "raisePeak", "heap"}
              \/ /\ pc[t] \in {"release", "subtract"}
                 /\ releases[t] \in {"freed", "heapless"}
GrantedReservations ==
  settled \cup {reservation[t] : t \in {u \in Threads : Granted(u)}}

Ledger == INSTANCE WorkingByteLedger
            WITH granted <- GrantedReservations, reason <- stopReason,
                 Reservations <- [id : 1..MaxReservations, bytes : Sizes],
                 Reasons <- StopReasons

KeepsByteLedger == Ledger!Spec

-----------------------------------------------------------------------------
(* The inductive invariant behind them.                                    *)

\* Reservations are numbered in the order of their exchanges.
NumbersAreFresh ==
  /\ allocations <= MaxReservations
  /\ \A r \in settled : r.id \in 1..allocations /\ r.bytes \in Sizes
  /\ \A t \in Threads :
       /\ pc[t] \in {"load", "exchange"} \/ Keeps(t) => AskedBytes(t) \in Sizes
       /\ Keeps(t) => reservation[t].id \in 1..allocations

\* An admitted reservation is in one place: with one thread or handed out.
OneHolder ==
  /\ \A r, s \in settled : r.id = s.id => r = s
  /\ \A t \in Threads : Keeps(t) =>
       /\ \A r \in settled : r.id # reservation[t].id
       /\ \A u \in Threads : Keeps(u) /\ reservation[u].id = reservation[t].id
                              => u = t

BytesAreFinite == IsFiniteSet(Bytes(Outstanding))

\* What is outstanding of the reservations admitted up to number k.
UpTo(k) == {r \in Outstanding : r.id <= k}

\* The level a reservation reached covers whatever is left of it and of the
\* earlier ones, and the peak covers the level once it was raised.
LevelsCover ==
  \A t \in Threads : pc[t] \in {"recheck", "loadPeak", "raisePeak"} =>
    /\ Cardinality(Bytes(UpTo(reservation[t].id))) <= Level(t)
    /\ Level(t) <= Limit
PeakCoversUpTo(k) == Cardinality(Bytes(UpTo(k))) <= peakBytes
PeakIsRaised ==
  /\ peakBytes <= Limit
  /\ \A t \in Threads :
       /\ pc[t] = "raisePeak" => peak[t] <= peakBytes
       /\ pc[t] = "heap" => PeakCoversUpTo(reservation[t].id)
  /\ \A r \in settled : PeakCoversUpTo(r.id)

\* Whoever was refused finds a stop reason.
RefusedHaveReason ==
  \A t \in Threads :
    /\ pc[t] = "refused" => stopReason # "none"
    /\ pc[t] \in {"release", "subtract"} =>
         /\ releases[t] # "nothing"
         /\ releases[t] = "stopped" => stopReason # "none"
    /\ pc[t] = "heapFailed" => releases[t] = "heapless"

ControlInv ==
  /\ ControlTypeOK
  /\ NumbersAreFresh
  /\ OneHolder
  /\ BytesAreFinite
  /\ LiveBytesAreExact
  /\ LevelsCover
  /\ PeakIsRaised
  /\ RefusedHaveReason
  /\ OutcomeNamesReason
=============================================================================
