------------------------- MODULE DecodeControlProofs -------------------------
(***************************************************************************)
(* What is proved about the working bytes of a native decode, for any      *)
(* number of threads, any sizes and any limit.                             *)
(*                                                                         *)
(* The live bytes are a sum over reservations that nobody ever adds up, so *)
(* the proof counts the bytes themselves: every admitted byte is a pair of *)
(* a reservation's number and a position, and live_bytes_ is how many of   *)
(* those pairs are outstanding.                                            *)
(***************************************************************************)
EXTENDS DecodeControl, FiniteSetTheorems, WellFoundedInduction, TLAPS

USE SizesAssumption, LimitAssumption, MaxReservationsAssumption,
    CodecAssumption
USE DEF sharedVars, StopReasons, Outcomes, Reservations, AskedBytes, Level

-----------------------------------------------------------------------------
(* Counting bytes.                                                         *)

\* One reservation has as many bytes as it asked for.
LEMMA BytesOfOne ==
  ASSUME NEW r \in Reservations
  PROVE  /\ IsFiniteSet({r.id} \X (1..r.bytes))
         /\ Cardinality({r.id} \X (1..r.bytes)) = r.bytes
<1>1. IsFiniteSet({r.id}) /\ Cardinality({r.id}) = 1
  BY FS_Singleton
<1>2. r.bytes \in Nat
  BY DEF Reservations
<1>3. IsFiniteSet(1..r.bytes) /\ Cardinality(1..r.bytes) = r.bytes
  BY <1>2, FS_Interval
<1>4. /\ IsFiniteSet({r.id} \X (1..r.bytes))
      /\ Cardinality({r.id} \X (1..r.bytes)) = 1 * r.bytes
  BY <1>1, <1>3, FS_Product
<1> QED
  BY <1>2, <1>4

\* The bytes of a reservation under a new number add up.
LEMMA BytesOfMore ==
  ASSUME NEW R \in SUBSET Reservations, IsFiniteSet(Bytes(R)),
         NEW r \in Reservations, \A s \in R : s.id # r.id
  PROVE  /\ IsFiniteSet(Bytes(R \cup {r}))
         /\ Cardinality(Bytes(R \cup {r})) = Cardinality(Bytes(R)) + r.bytes
<1> DEFINE own == {r.id} \X (1..r.bytes)
<1>1. Bytes(R \cup {r}) = Bytes(R) \cup own
  BY DEF Bytes
<1>2. Bytes(R) \cap own = {}
  BY DEF Bytes
<1>3. IsFiniteSet(own) /\ Cardinality(own) = r.bytes
  BY BytesOfOne
<1>4. Cardinality(Bytes(R) \cap own) = 0
  BY <1>2, FS_EmptySet
<1>5. Cardinality(Bytes(R)) \in Nat /\ r.bytes \in Nat
  BY FS_CardinalityType DEF Reservations
<1> HIDE DEF own
<1>6. /\ IsFiniteSet(Bytes(R) \cup own)
      /\ Cardinality(Bytes(R) \cup own) =
           Cardinality(Bytes(R)) + Cardinality(own) - Cardinality(Bytes(R) \cap own)
  BY <1>3, FS_Union
<1>7. Cardinality(Bytes(R) \cup own) = Cardinality(Bytes(R)) + r.bytes
  BY <1>3, <1>4, <1>5, <1>6
<1> QED
  BY <1>1, <1>6, <1>7

\* Fewer reservations have fewer bytes.
LEMMA BytesOfFewer ==
  ASSUME NEW R, NEW S, R \subseteq S, IsFiniteSet(Bytes(S))
  PROVE  /\ IsFiniteSet(Bytes(R))
         /\ Cardinality(Bytes(R)) \in Nat
         /\ Cardinality(Bytes(S)) \in Nat
         /\ Cardinality(Bytes(R)) <= Cardinality(Bytes(S))
<1>1. Bytes(R) \in SUBSET Bytes(S)
  BY DEF Bytes
<1> QED
  BY <1>1, FS_Subset, FS_CardinalityType

\* A reservation that leaves takes its bytes along.
LEMMA BytesOfLess ==
  ASSUME NEW R \in SUBSET Reservations, IsFiniteSet(Bytes(R)),
         NEW r \in R, \A s \in R : s.id = r.id => s = r
  PROVE  /\ IsFiniteSet(Bytes(R \ {r}))
         /\ Cardinality(Bytes(R \ {r})) \in Nat
         /\ Cardinality(Bytes(R)) = Cardinality(Bytes(R \ {r})) + r.bytes
<1>1. IsFiniteSet(Bytes(R \ {r})) /\ Cardinality(Bytes(R \ {r})) \in Nat
  BY BytesOfFewer
<1>2. (R \ {r}) \cup {r} = R
  OBVIOUS
<1>3. \A s \in R \ {r} : s.id # r.id
  OBVIOUS
<1>4. Cardinality(Bytes((R \ {r}) \cup {r})) =
        Cardinality(Bytes(R \ {r})) + r.bytes
  BY <1>1, <1>3, BytesOfMore
<1> QED
  BY <1>1, <1>2, <1>4

-----------------------------------------------------------------------------
(* What is outstanding.                                                    *)

LEMMA OutstandingType ==
  ASSUME ControlTypeOK
  PROVE  Outstanding \in SUBSET Reservations
BY DEF ControlTypeOK, Outstanding

\* A step that moves no reservation in or out leaves the count alone.
LEMMA SameOutstanding ==
  ASSUME ControlInv, Outstanding' = Outstanding
  PROVE  /\ BytesAreFinite'
         /\ liveBytes' = liveBytes => LiveBytesAreExact'
         /\ \A k : UpTo(k)' = UpTo(k)
         /\ \A k : Bytes(UpTo(k))' = Bytes(UpTo(k))
<1>1. BytesAreFinite'
  BY DEF ControlInv, BytesAreFinite, Bytes
<1>2. liveBytes' = liveBytes => LiveBytesAreExact'
  BY DEF ControlInv, LiveBytesAreExact, Bytes
<1>3. \A k : UpTo(k)' = UpTo(k)
  BY DEF UpTo
<1>4. \A k : Bytes(UpTo(k))' = Bytes(UpTo(k))
  BY <1>3 DEF Bytes
<1> QED
  BY <1>1, <1>2, <1>3, <1>4

\* Every part of what is outstanding has a number of bytes.
LEMMA CountType ==
  ASSUME ControlInv
  PROVE  /\ \A k : Cardinality(Bytes(UpTo(k))) \in Nat
         /\ \A k : IsFiniteSet(Bytes(UpTo(k)))
         /\ Cardinality(Bytes(settled)) \in Nat
         /\ Cardinality(Bytes(Outstanding)) \in Nat
<1>1. IsFiniteSet(Bytes(Outstanding))
  BY DEF ControlInv, BytesAreFinite
<1>2. \A k : UpTo(k) \subseteq Outstanding
  BY DEF UpTo
<1>3. settled \subseteq Outstanding
  BY DEF Outstanding
<1> QED
  BY <1>1, <1>2, <1>3, BytesOfFewer

-----------------------------------------------------------------------------
(* The steps.                                                              *)

\* Cancel and Deadline touch the stop reason alone, and only an unset one.
LEMMA StopStep ==
  ASSUME ControlInv, NEW reason \in {"cancelled", "deadline"}, StopFor(reason)
  PROVE  ControlInv'
<1> USE DEF StopFor, Goto
<1>1. ControlTypeOK'
  BY DEF ControlInv, ControlTypeOK
<1>2. Outstanding' = Outstanding
  BY DEF ControlInv, ControlTypeOK, Outstanding, Keeps
<1>3. NumbersAreFresh'
  BY DEF ControlInv, ControlTypeOK, NumbersAreFresh, Keeps
<1>4. OneHolder'
  BY DEF ControlInv, ControlTypeOK, OneHolder, Keeps
<1>5. BytesAreFinite' /\ LiveBytesAreExact' /\ \A k : UpTo(k)' = UpTo(k)
  BY <1>2, SameOutstanding
<1>6. LevelsCover'
  BY <1>5 DEF ControlInv, ControlTypeOK, LevelsCover
<1>7. PeakIsRaised'
  BY <1>5 DEF ControlInv, ControlTypeOK, PeakIsRaised, PeakCoversUpTo
<1>8. RefusedHaveReason'
  BY DEF ControlInv, ControlTypeOK, RefusedHaveReason
<1>9. OutcomeNamesReason'
  BY DEF ControlInv, ControlTypeOK, OutcomeNamesReason, RefusedHaveReason,
         OutcomeFor
<1> QED
  BY <1>1, <1>3, <1>4, <1>5, <1>6, <1>7, <1>8, <1>9 DEF ControlInv

\* A thread asks; it holds nothing yet.
LEMMA BeginReserveStep ==
  ASSUME ControlInv, NEW t \in Threads, NEW bytes \in Sizes, BeginReserve(t, bytes)
  PROVE  ControlInv'
<1> USE DEF BeginReserve, Goto
<1>1. ControlTypeOK'
  BY DEF ControlInv, ControlTypeOK
<1>2. Outstanding' = Outstanding
  BY DEF ControlInv, ControlTypeOK, Outstanding, Keeps
<1>3. NumbersAreFresh'
  BY DEF ControlInv, ControlTypeOK, NumbersAreFresh, Keeps
<1>4. OneHolder'
  BY DEF ControlInv, ControlTypeOK, OneHolder, Keeps
<1>5. BytesAreFinite' /\ LiveBytesAreExact' /\ \A k : UpTo(k)' = UpTo(k)
  BY <1>2, SameOutstanding
<1>6. LevelsCover'
  BY <1>5 DEF ControlInv, ControlTypeOK, LevelsCover
<1>7. PeakIsRaised'
  BY <1>5 DEF ControlInv, ControlTypeOK, PeakIsRaised, PeakCoversUpTo
<1>8. RefusedHaveReason'
  BY DEF ControlInv, ControlTypeOK, RefusedHaveReason
<1>9. OutcomeNamesReason'
  BY DEF ControlInv, ControlTypeOK, OutcomeNamesReason, RefusedHaveReason,
         OutcomeFor
<1> QED
  BY <1>1, <1>3, <1>4, <1>5, <1>6, <1>7, <1>8, <1>9 DEF ControlInv

\* It reads the live bytes.
LEMMA LoadLiveStep ==
  ASSUME ControlInv, NEW t \in Threads, LoadLive(t)
  PROVE  ControlInv'
<1> USE DEF LoadLive, Goto
<1>1. ControlTypeOK'
  BY DEF ControlInv, ControlTypeOK
<1>2. Outstanding' = Outstanding
  BY DEF ControlInv, ControlTypeOK, Outstanding, Keeps
<1>3. NumbersAreFresh'
  BY DEF ControlInv, ControlTypeOK, NumbersAreFresh, Keeps
<1>4. OneHolder'
  BY DEF ControlInv, ControlTypeOK, OneHolder, Keeps
<1>5. BytesAreFinite' /\ LiveBytesAreExact' /\ \A k : UpTo(k)' = UpTo(k)
  BY <1>2, SameOutstanding
<1>6. LevelsCover'
  BY <1>5 DEF ControlInv, ControlTypeOK, LevelsCover
<1>7. PeakIsRaised'
  BY <1>5 DEF ControlInv, ControlTypeOK, PeakIsRaised, PeakCoversUpTo
<1>8. RefusedHaveReason'
  BY DEF ControlInv, ControlTypeOK, RefusedHaveReason
<1>9. OutcomeNamesReason'
  BY DEF ControlInv, ControlTypeOK, OutcomeNamesReason, RefusedHaveReason,
         OutcomeFor
<1> QED
  BY <1>1, <1>3, <1>4, <1>5, <1>6, <1>7, <1>8, <1>9 DEF ControlInv

\* Whoever exceeds the limit leaves a reason behind.
LEMMA ExceedBudgetStep ==
  ASSUME ControlInv, NEW t \in Threads, ExceedBudget(t)
  PROVE  ControlInv'
<1> USE DEF ExceedBudget, Goto, StopWith
<1>1. ControlTypeOK'
  BY DEF ControlInv, ControlTypeOK
<1>2. Outstanding' = Outstanding
  BY DEF ControlInv, ControlTypeOK, Outstanding, Keeps
<1>3. NumbersAreFresh'
  BY DEF ControlInv, ControlTypeOK, NumbersAreFresh, Keeps
<1>4. OneHolder'
  BY DEF ControlInv, ControlTypeOK, OneHolder, Keeps
<1>5. BytesAreFinite' /\ LiveBytesAreExact' /\ \A k : UpTo(k)' = UpTo(k)
  BY <1>2, SameOutstanding
<1>6. LevelsCover'
  BY <1>5 DEF ControlInv, ControlTypeOK, LevelsCover
<1>7. PeakIsRaised'
  BY <1>5 DEF ControlInv, ControlTypeOK, PeakIsRaised, PeakCoversUpTo
<1>8. RefusedHaveReason'
  BY DEF ControlInv, ControlTypeOK, RefusedHaveReason
<1>9. OutcomeNamesReason'
  BY DEF ControlInv, ControlTypeOK, OutcomeNamesReason, RefusedHaveReason,
         OutcomeFor
<1> QED
  BY <1>1, <1>3, <1>4, <1>5, <1>6, <1>7, <1>8, <1>9 DEF ControlInv

\* A lost exchange only renews the local copy.
LEMMA AddBytesFailsStep ==
  ASSUME ControlInv, NEW t \in Threads, AddBytesFails(t)
  PROVE  ControlInv'
<1> USE DEF AddBytesFails, Goto
<1>1. ControlTypeOK'
  BY DEF ControlInv, ControlTypeOK
<1>2. Outstanding' = Outstanding
  BY DEF ControlInv, ControlTypeOK, Outstanding, Keeps
<1>3. NumbersAreFresh'
  BY DEF ControlInv, ControlTypeOK, NumbersAreFresh, Keeps
<1>4. OneHolder'
  BY DEF ControlInv, ControlTypeOK, OneHolder, Keeps
<1>5. BytesAreFinite' /\ LiveBytesAreExact' /\ \A k : UpTo(k)' = UpTo(k)
  BY <1>2, SameOutstanding
<1>6. LevelsCover'
  BY <1>5 DEF ControlInv, ControlTypeOK, LevelsCover
<1>7. PeakIsRaised'
  BY <1>5 DEF ControlInv, ControlTypeOK, PeakIsRaised, PeakCoversUpTo
<1>8. RefusedHaveReason'
  BY DEF ControlInv, ControlTypeOK, RefusedHaveReason
<1>9. OutcomeNamesReason'
  BY DEF ControlInv, ControlTypeOK, OutcomeNamesReason, RefusedHaveReason,
         OutcomeFor
<1> QED
  BY <1>1, <1>3, <1>4, <1>5, <1>6, <1>7, <1>8, <1>9 DEF ControlInv

\* The second look at the stop reason.
LEMMA RecheckStep ==
  ASSUME ControlInv, NEW t \in Threads, Recheck(t)
  PROVE  ControlInv'
<1> USE DEF Recheck, Goto
<1>1. ControlTypeOK'
  BY DEF ControlInv, ControlTypeOK
<1>2. Outstanding' = Outstanding
  BY DEF ControlInv, ControlTypeOK, Outstanding, Keeps
<1>3. NumbersAreFresh'
  BY DEF ControlInv, ControlTypeOK, NumbersAreFresh, Keeps
<1>4. OneHolder'
  BY DEF ControlInv, ControlTypeOK, OneHolder, Keeps
<1>5. BytesAreFinite' /\ LiveBytesAreExact' /\ \A k : UpTo(k)' = UpTo(k)
  BY <1>2, SameOutstanding
<1>6. LevelsCover'
  BY <1>5 DEF ControlInv, ControlTypeOK, LevelsCover
<1>7. PeakIsRaised'
  BY <1>5 DEF ControlInv, ControlTypeOK, PeakIsRaised, PeakCoversUpTo
<1>8. RefusedHaveReason'
  BY DEF ControlInv, ControlTypeOK, RefusedHaveReason
<1>9. OutcomeNamesReason'
  BY DEF ControlInv, ControlTypeOK, OutcomeNamesReason, RefusedHaveReason,
         OutcomeFor
<1> QED
  BY <1>1, <1>3, <1>4, <1>5, <1>6, <1>7, <1>8, <1>9 DEF ControlInv

\* The local copy of the peak is never above the peak.
LEMMA LoadPeakStep ==
  ASSUME ControlInv, NEW t \in Threads, LoadPeak(t)
  PROVE  ControlInv'
<1> USE DEF LoadPeak, Goto
<1>1. ControlTypeOK'
  BY DEF ControlInv, ControlTypeOK
<1>2. Outstanding' = Outstanding
  BY DEF ControlInv, ControlTypeOK, Outstanding, Keeps
<1>3. NumbersAreFresh'
  BY DEF ControlInv, ControlTypeOK, NumbersAreFresh, Keeps
<1>4. OneHolder'
  BY DEF ControlInv, ControlTypeOK, OneHolder, Keeps
<1>5. BytesAreFinite' /\ LiveBytesAreExact' /\ \A k : UpTo(k)' = UpTo(k)
  BY <1>2, SameOutstanding
<1>6. LevelsCover'
  BY <1>5 DEF ControlInv, ControlTypeOK, LevelsCover
<1>7. PeakIsRaised'
  BY <1>5 DEF ControlInv, ControlTypeOK, PeakIsRaised, PeakCoversUpTo
<1>8. RefusedHaveReason'
  BY DEF ControlInv, ControlTypeOK, RefusedHaveReason
<1>9. OutcomeNamesReason'
  BY DEF ControlInv, ControlTypeOK, OutcomeNamesReason, RefusedHaveReason,
         OutcomeFor
<1> QED
  BY <1>1, <1>3, <1>4, <1>5, <1>6, <1>7, <1>8, <1>9 DEF ControlInv

\* The peak rises to the level, or is there already.
LEMMA RaisePeakStep ==
  ASSUME ControlInv, NEW t \in Threads, RaisePeak(t)
  PROVE  ControlInv'
<1> USE DEF RaisePeak, Goto
<1>1. ControlTypeOK'
  <2>1. Level(t) \in Nat
    BY DEF ControlInv, ControlTypeOK
  <2>2. /\ peakBytes' \in Nat
        /\ peak' \in [Threads -> Nat]
    BY <2>1 DEF ControlInv, ControlTypeOK
  <2>3. pc' \in [Threads -> {"idle", "load", "exchange", "recheck", "loadPeak",
                          "raisePeak", "heap", "release", "subtract",
                          "refused", "heapFailed"}]
    BY DEF ControlInv, ControlTypeOK
  <2> QED
    BY <2>2, <2>3 DEF ControlInv, ControlTypeOK
<1>2. Outstanding' = Outstanding
  BY DEF ControlInv, ControlTypeOK, Outstanding, Keeps
<1>3. NumbersAreFresh'
  BY DEF ControlInv, ControlTypeOK, NumbersAreFresh, Keeps
<1>4. OneHolder'
  BY DEF ControlInv, ControlTypeOK, OneHolder, Keeps
<1>5. BytesAreFinite' /\ LiveBytesAreExact' /\ \A k : UpTo(k)' = UpTo(k)
  BY <1>2, SameOutstanding
<1>6. LevelsCover'
  BY <1>5 DEF ControlInv, ControlTypeOK, LevelsCover
<1>7. PeakIsRaised'
  <2>1. \A k : Cardinality(Bytes(UpTo(k))) \in Nat
    BY CountType
  <2>2. /\ Level(t) \in Nat /\ Level(t) <= Limit
        /\ Cardinality(Bytes(UpTo(reservation[t].id))) <= Level(t)
        /\ peak[t] <= peakBytes /\ peak[t] \in Nat /\ peakBytes \in Nat
    BY DEF ControlInv, ControlTypeOK, LevelsCover, PeakIsRaised
  <2>3. /\ peakBytes <= peakBytes' /\ peakBytes' \in Nat /\ peakBytes' <= Limit
        /\ pc'[t] = "heap" => Level(t) <= peakBytes'
        /\ pc'[t] = "raisePeak" => peak'[t] <= peakBytes'
        /\ \A u \in Threads \ {t} : pc'[u] = pc[u] /\ peak'[u] = peak[u]
    BY <2>2 DEF ControlInv, ControlTypeOK, PeakIsRaised
  <2>4. UNCHANGED <<reservation, settled>>
    OBVIOUS
  <2> HIDE DEF RaisePeak
  <2>5. ASSUME NEW k, PeakCoversUpTo(k)
        PROVE  Cardinality(Bytes(UpTo(k)))' <= peakBytes'
    BY <1>2, <2>1, <2>2, <2>3, <2>5, SameOutstanding DEF PeakCoversUpTo
  <2>6. pc'[t] = "heap" =>
          Cardinality(Bytes(UpTo(reservation[t].id)))' <= peakBytes'
    BY <1>2, <2>1, <2>2, <2>3, <2>4, SameOutstanding
  <2>7. \A u \in Threads : pc'[u] = "raisePeak" => peak'[u] <= peakBytes'
    BY <2>2, <2>3 DEF ControlInv, ControlTypeOK, PeakIsRaised
  <2> QED
    BY <2>3, <2>5, <2>6, <2>7, <2>4 DEF ControlInv, PeakIsRaised, PeakCoversUpTo
<1>8. RefusedHaveReason'
  BY DEF ControlInv, ControlTypeOK, RefusedHaveReason
<1>9. OutcomeNamesReason'
  BY DEF ControlInv, ControlTypeOK, OutcomeNamesReason, RefusedHaveReason,
         OutcomeFor
<1> QED
  BY <1>1, <1>3, <1>4, <1>5, <1>6, <1>7, <1>8, <1>9 DEF ControlInv

\* A refusal names the reason.
LEMMA ExplainStep ==
  ASSUME ControlInv, NEW t \in Threads, Explain(t)
  PROVE  ControlInv'
<1> USE DEF Explain, Goto
<1>1. ControlTypeOK'
  BY DEF ControlInv, ControlTypeOK, OutcomeFor
<1>2. Outstanding' = Outstanding
  BY DEF ControlInv, ControlTypeOK, Outstanding, Keeps
<1>3. NumbersAreFresh'
  BY DEF ControlInv, ControlTypeOK, NumbersAreFresh, Keeps
<1>4. OneHolder'
  BY DEF ControlInv, ControlTypeOK, OneHolder, Keeps
<1>5. BytesAreFinite' /\ LiveBytesAreExact' /\ \A k : UpTo(k)' = UpTo(k)
  BY <1>2, SameOutstanding
<1>6. LevelsCover'
  BY <1>5 DEF ControlInv, ControlTypeOK, LevelsCover
<1>7. PeakIsRaised'
  BY <1>5 DEF ControlInv, ControlTypeOK, PeakIsRaised, PeakCoversUpTo
<1>8. RefusedHaveReason'
  BY DEF ControlInv, ControlTypeOK, RefusedHaveReason
<1>9. OutcomeNamesReason'
  BY DEF ControlInv, ControlTypeOK, OutcomeNamesReason, RefusedHaveReason,
         OutcomeFor
<1> QED
  BY <1>1, <1>3, <1>4, <1>5, <1>6, <1>7, <1>8, <1>9 DEF ControlInv

\* The reservation changes hands; nothing else does.
LEMMA HeapSucceedsStep ==
  ASSUME ControlInv, NEW t \in Threads, HeapSucceeds(t)
  PROVE  ControlInv'
<1> USE DEF HeapSucceeds, Goto
<1>1. ControlTypeOK'
  BY DEF ControlInv, ControlTypeOK
<1>2. Outstanding' = Outstanding
  BY DEF ControlInv, ControlTypeOK, Outstanding, Keeps
<1>3. NumbersAreFresh'
  BY DEF ControlInv, ControlTypeOK, NumbersAreFresh, Keeps
<1>4. OneHolder'
  BY DEF ControlInv, ControlTypeOK, OneHolder, Keeps
<1>5. BytesAreFinite' /\ LiveBytesAreExact' /\ \A k : UpTo(k)' = UpTo(k)
  BY <1>2, SameOutstanding
<1>6. LevelsCover'
  BY <1>5 DEF ControlInv, ControlTypeOK, LevelsCover
<1>7. PeakIsRaised'
  BY <1>5 DEF ControlInv, ControlTypeOK, PeakIsRaised, PeakCoversUpTo
<1>8. RefusedHaveReason'
  BY DEF ControlInv, ControlTypeOK, RefusedHaveReason
<1>9. OutcomeNamesReason'
  BY DEF ControlInv, ControlTypeOK, OutcomeNamesReason, RefusedHaveReason,
         OutcomeFor
<1> QED
  BY <1>1, <1>3, <1>4, <1>5, <1>6, <1>7, <1>8, <1>9 DEF ControlInv

\* The heap refuses: the bytes are to be returned.
LEMMA HeapReturnsNullStep ==
  ASSUME ControlInv, NEW t \in Threads, HeapReturnsNull(t)
  PROVE  ControlInv'
<1> USE DEF HeapReturnsNull, Goto
<1>1. ControlTypeOK'
  BY DEF ControlInv, ControlTypeOK
<1>2. Outstanding' = Outstanding
  BY DEF ControlInv, ControlTypeOK, Outstanding, Keeps
<1>3. NumbersAreFresh'
  BY DEF ControlInv, ControlTypeOK, NumbersAreFresh, Keeps
<1>4. OneHolder'
  BY DEF ControlInv, ControlTypeOK, OneHolder, Keeps
<1>5. BytesAreFinite' /\ LiveBytesAreExact' /\ \A k : UpTo(k)' = UpTo(k)
  BY <1>2, SameOutstanding
<1>6. LevelsCover'
  BY <1>5 DEF ControlInv, ControlTypeOK, LevelsCover
<1>7. PeakIsRaised'
  BY <1>5 DEF ControlInv, ControlTypeOK, PeakIsRaised, PeakCoversUpTo
<1>8. RefusedHaveReason'
  BY DEF ControlInv, ControlTypeOK, RefusedHaveReason
<1>9. OutcomeNamesReason'
  BY DEF ControlInv, ControlTypeOK, OutcomeNamesReason, RefusedHaveReason,
         OutcomeFor
<1> QED
  BY <1>1, <1>3, <1>4, <1>5, <1>6, <1>7, <1>8, <1>9 DEF ControlInv

\* They were returned: now there is a reason.
LEMMA HeapFailureStep ==
  ASSUME ControlInv, NEW t \in Threads, HeapFailure(t)
  PROVE  ControlInv'
<1> USE DEF HeapFailure, Goto, StopWith
<1>1. ControlTypeOK'
  BY DEF ControlInv, ControlTypeOK, OutcomeFor
<1>2. Outstanding' = Outstanding
  BY DEF ControlInv, ControlTypeOK, Outstanding, Keeps
<1>3. NumbersAreFresh'
  BY DEF ControlInv, ControlTypeOK, NumbersAreFresh, Keeps
<1>4. OneHolder'
  BY DEF ControlInv, ControlTypeOK, OneHolder, Keeps
<1>5. BytesAreFinite' /\ LiveBytesAreExact' /\ \A k : UpTo(k)' = UpTo(k)
  BY <1>2, SameOutstanding
<1>6. LevelsCover'
  BY <1>5 DEF ControlInv, ControlTypeOK, LevelsCover
<1>7. PeakIsRaised'
  BY <1>5 DEF ControlInv, ControlTypeOK, PeakIsRaised, PeakCoversUpTo
<1>8. RefusedHaveReason'
  BY DEF ControlInv, ControlTypeOK, RefusedHaveReason
<1>9. OutcomeNamesReason'
  BY DEF ControlInv, ControlTypeOK, OutcomeNamesReason, RefusedHaveReason,
         OutcomeFor
<1> QED
  BY <1>1, <1>3, <1>4, <1>5, <1>6, <1>7, <1>8, <1>9 DEF ControlInv

\* The releaser takes the reservation.
LEMMA BeginReleaseStep ==
  ASSUME ControlInv, NEW t \in Threads, NEW r \in settled, BeginRelease(t, r)
  PROVE  ControlInv'
<1> USE DEF BeginRelease, Goto
<1>1. ControlTypeOK'
  BY DEF ControlInv, ControlTypeOK
<1>2. Outstanding' = Outstanding
  BY DEF ControlInv, ControlTypeOK, Outstanding, Keeps
<1>3. NumbersAreFresh'
  BY DEF ControlInv, ControlTypeOK, NumbersAreFresh, Keeps
<1>4. OneHolder'
  BY DEF ControlInv, ControlTypeOK, OneHolder, Keeps
<1>5. BytesAreFinite' /\ LiveBytesAreExact' /\ \A k : UpTo(k)' = UpTo(k)
  BY <1>2, SameOutstanding
<1>6. LevelsCover'
  BY <1>5 DEF ControlInv, ControlTypeOK, LevelsCover
<1>7. PeakIsRaised'
  BY <1>5 DEF ControlInv, ControlTypeOK, PeakIsRaised, PeakCoversUpTo
<1>8. RefusedHaveReason'
  BY DEF ControlInv, ControlTypeOK, RefusedHaveReason
<1>9. OutcomeNamesReason'
  BY DEF ControlInv, ControlTypeOK, OutcomeNamesReason, RefusedHaveReason,
         OutcomeFor
<1> QED
  BY <1>1, <1>3, <1>4, <1>5, <1>6, <1>7, <1>8, <1>9 DEF ControlInv

\* It reads the live bytes.
LEMMA ReleaseLoadsStep ==
  ASSUME ControlInv, NEW t \in Threads, ReleaseLoads(t)
  PROVE  ControlInv'
<1> USE DEF ReleaseLoads, Goto
<1>1. ControlTypeOK'
  BY DEF ControlInv, ControlTypeOK
<1>2. Outstanding' = Outstanding
  BY DEF ControlInv, ControlTypeOK, Outstanding, Keeps
<1>3. NumbersAreFresh'
  BY DEF ControlInv, ControlTypeOK, NumbersAreFresh, Keeps
<1>4. OneHolder'
  BY DEF ControlInv, ControlTypeOK, OneHolder, Keeps
<1>5. BytesAreFinite' /\ LiveBytesAreExact' /\ \A k : UpTo(k)' = UpTo(k)
  BY <1>2, SameOutstanding
<1>6. LevelsCover'
  BY <1>5 DEF ControlInv, ControlTypeOK, LevelsCover
<1>7. PeakIsRaised'
  BY <1>5 DEF ControlInv, ControlTypeOK, PeakIsRaised, PeakCoversUpTo
<1>8. RefusedHaveReason'
  BY DEF ControlInv, ControlTypeOK, RefusedHaveReason
<1>9. OutcomeNamesReason'
  BY DEF ControlInv, ControlTypeOK, OutcomeNamesReason, RefusedHaveReason,
         OutcomeFor
<1> QED
  BY <1>1, <1>3, <1>4, <1>5, <1>6, <1>7, <1>8, <1>9 DEF ControlInv

\* A lost exchange only renews the local copy.
LEMMA SubtractBytesFailsStep ==
  ASSUME ControlInv, NEW t \in Threads, SubtractBytesFails(t)
  PROVE  ControlInv'
<1> USE DEF SubtractBytesFails, Goto
<1>1. ControlTypeOK'
  BY DEF ControlInv, ControlTypeOK
<1>2. Outstanding' = Outstanding
  BY DEF ControlInv, ControlTypeOK, Outstanding, Keeps
<1>3. NumbersAreFresh'
  BY DEF ControlInv, ControlTypeOK, NumbersAreFresh, Keeps
<1>4. OneHolder'
  BY DEF ControlInv, ControlTypeOK, OneHolder, Keeps
<1>5. BytesAreFinite' /\ LiveBytesAreExact' /\ \A k : UpTo(k)' = UpTo(k)
  BY <1>2, SameOutstanding
<1>6. LevelsCover'
  BY <1>5 DEF ControlInv, ControlTypeOK, LevelsCover
<1>7. PeakIsRaised'
  BY <1>5 DEF ControlInv, ControlTypeOK, PeakIsRaised, PeakCoversUpTo
<1>8. RefusedHaveReason'
  BY DEF ControlInv, ControlTypeOK, RefusedHaveReason
<1>9. OutcomeNamesReason'
  BY DEF ControlInv, ControlTypeOK, OutcomeNamesReason, RefusedHaveReason,
         OutcomeFor
<1> QED
  BY <1>1, <1>3, <1>4, <1>5, <1>6, <1>7, <1>8, <1>9 DEF ControlInv

\* The exchange adds the bytes of a reservation under a new number: what is
\* outstanding grows by exactly those, and nothing admitted before changes.
LEMMA AddBytesStep ==
  ASSUME ControlInv, NEW t \in Threads, AddBytes(t)
  PROVE  ControlInv'
<1> USE DEF AddBytes, Goto
<1>0. PICK new : new = [id |-> allocations + 1, bytes |-> AskedBytes(t)]
  OBVIOUS
<1>1. /\ new \in Reservations
      /\ reservation' = [reservation EXCEPT ![t] = new]
      /\ new.id = allocations + 1 /\ new.bytes = AskedBytes(t)
      /\ new.bytes \in Sizes
  <2>1. reservation[t] \in Reservations /\ allocations \in Nat
    BY DEF ControlInv, ControlTypeOK
  <2>2. [reservation[t] EXCEPT !.id = allocations + 1] = new
    BY <1>0, <2>1
  <2>3. AskedBytes(t) \in Sizes
    BY DEF ControlInv, NumbersAreFresh
  <2>4. new \in Reservations
    BY <1>0, <2>1
  <2>5. reservation' = [reservation EXCEPT ![t] = new]
    BY <2>2
  <2>6. new.id = allocations + 1 /\ new.bytes = AskedBytes(t)
    BY <1>0
  <2> QED
    BY <2>3, <2>4, <2>5, <2>6
<1>2. /\ liveBytes' = liveBytes + new.bytes /\ liveBytes' <= Limit
      /\ liveBytes' \in Nat /\ liveBytes \in Nat /\ Level(t) = liveBytes'
      /\ Level(t)' = liveBytes'
  BY <1>1 DEF ControlInv, ControlTypeOK, Fits
<1>3. ControlTypeOK'
  BY <1>1, <1>2 DEF ControlInv, ControlTypeOK
<1>4. Outstanding' = Outstanding \cup {new}
  <2>1. ~Keeps(t) /\ Keeps(t)' /\ reservation'[t] = new
    BY <1>1 DEF ControlInv, ControlTypeOK, Keeps
  <2>2. \A u \in Threads \ {t} : Keeps(u)' = Keeps(u)
                                 /\ reservation'[u] = reservation[u]
    BY <1>1 DEF ControlInv, ControlTypeOK, Keeps
  <2>3. settled' = settled
    OBVIOUS
  <2> HIDE DEF AddBytes
  <2> QED
    BY <2>1, <2>2, <2>3 DEF Outstanding
<1>5. \A r \in Outstanding : r.id \in 1..allocations
  BY DEF ControlInv, NumbersAreFresh, Outstanding
<1>6. Outstanding \in SUBSET Reservations /\ allocations \in Nat
  BY OutstandingType DEF ControlInv, ControlTypeOK
<1>7. \A r \in Outstanding : r.id # new.id
  BY <1>1, <1>5, <1>6
<1>8. /\ IsFiniteSet(Bytes(Outstanding \cup {new}))
      /\ Cardinality(Bytes(Outstanding \cup {new})) =
           Cardinality(Bytes(Outstanding)) + new.bytes
  BY <1>1, <1>6, <1>7, BytesOfMore DEF ControlInv, BytesAreFinite
<1>9. Bytes(Outstanding)' = Bytes(Outstanding \cup {new})
  BY <1>4 DEF Bytes
<1>10. BytesAreFinite' /\ LiveBytesAreExact'
  BY <1>2, <1>8, <1>9 DEF ControlInv, BytesAreFinite, LiveBytesAreExact
<1>11. NumbersAreFresh'
  <2>1. /\ allocations' = allocations + 1 /\ allocations' <= MaxReservations
        /\ allocations \in Nat /\ settled' = settled
    BY <1>3 DEF ControlInv, ControlTypeOK, NumbersAreFresh
  <2>2. AskedBytes(t)' \in Sizes /\ reservation'[t].id \in 1..allocations'
    BY <1>1, <2>1 DEF ControlInv, ControlTypeOK
  <2>3. \A u \in Threads \ {t} : pc'[u] = pc[u] /\ reservation'[u] = reservation[u]
    BY <1>1 DEF ControlInv, ControlTypeOK
  <2> HIDE DEF AddBytes
  <2> QED
    BY <2>1, <2>2, <2>3 DEF ControlInv, NumbersAreFresh, Keeps
<1>12. OneHolder'
  BY <1>1 DEF ControlInv, ControlTypeOK, OneHolder, NumbersAreFresh, Keeps
<1>13. \A k \in 1..allocations : Bytes(UpTo(k))' = Bytes(UpTo(k))
  <2>1. \A k \in 1..allocations : UpTo(k)' = UpTo(k)
    BY <1>1, <1>4, <1>6 DEF UpTo
  <2> QED
    BY <2>1 DEF Bytes
<1>14. Bytes(UpTo(new.id))' = Bytes(Outstanding)'
  <2>1. {r \in Outstanding' : r.id <= new.id} = Outstanding'
    BY <1>1, <1>4, <1>5, <1>6
  <2> QED
    BY <2>1 DEF UpTo, Bytes
<1>15. LevelsCover'
  <2>1. /\ Cardinality(Bytes(UpTo(new.id)))' <= Level(t)'
        /\ reservation'[t] = new
    BY <1>1, <1>2, <1>10, <1>14 DEF LiveBytesAreExact, ControlInv, ControlTypeOK
  <2>2. \A u \in Threads \ {t} :
          /\ pc'[u] = pc[u] /\ Level(u)' = Level(u)
          /\ reservation'[u] = reservation[u]
          /\ Keeps(u) => reservation[u].id \in 1..allocations
    BY <1>1 DEF ControlInv, ControlTypeOK, NumbersAreFresh
  <2> HIDE DEF AddBytes, Level
  <2> QED
    BY <1>2, <1>13, <2>1, <2>2 DEF ControlInv, LevelsCover, Keeps
<1>16. PeakIsRaised'
  <2>1. peakBytes' = peakBytes /\ peak' = peak /\ settled' = settled
    OBVIOUS
  <2>2. \A u \in Threads : pc'[u] \in {"raisePeak", "heap"} =>
          /\ pc'[u] = pc[u] /\ reservation'[u] = reservation[u]
          /\ reservation[u].id \in 1..allocations
    BY <1>1 DEF ControlInv, ControlTypeOK, NumbersAreFresh, Keeps
  <2>3. \A r \in settled : r.id \in 1..allocations
    BY DEF ControlInv, NumbersAreFresh
  <2> HIDE DEF AddBytes
  <2> QED
    BY <1>13, <2>1, <2>2, <2>3 DEF ControlInv, PeakIsRaised, PeakCoversUpTo
<1>17. RefusedHaveReason'
  BY DEF ControlInv, ControlTypeOK, RefusedHaveReason
<1>18. OutcomeNamesReason'
  BY DEF ControlInv, OutcomeNamesReason, OutcomeFor
<1> QED
  BY <1>3, <1>10, <1>11, <1>12, <1>15, <1>16, <1>17, <1>18 DEF ControlInv

\* The exchange takes exactly the bytes of the reservation away: they are
\* among the live bytes, so the subtraction does not saturate.
LEMMA SubtractBytesStep ==
  ASSUME ControlInv, NEW t \in Threads, SubtractBytes(t)
  PROVE  ControlInv'
<1> USE DEF SubtractBytes, Goto
<1> DEFINE r == reservation[t]
<1>1. r \in Reservations /\ Keeps(t) /\ r \in Outstanding
  BY DEF ControlInv, ControlTypeOK, Keeps, Outstanding
<1>2. Outstanding \in SUBSET Reservations
  BY OutstandingType DEF ControlInv
<1>3. \A s \in Outstanding : s.id = r.id => s = r
  BY <1>1 DEF ControlInv, OneHolder, Outstanding
<1>4. Outstanding' = Outstanding \ {r}
  <2>1. ~Keeps(t)' /\ \A u \in Threads \ {t} : Keeps(u)' = Keeps(u)
    BY DEF ControlInv, ControlTypeOK, Keeps, Afterwards
  <2>2. settled' = settled /\ reservation' = reservation
    OBVIOUS
  <2>3. r \notin settled
        /\ \A u \in Threads \ {t} : Keeps(u) => reservation[u] # r
    BY <1>1 DEF ControlInv, OneHolder
  <2> HIDE DEF SubtractBytes, r
  <2>4. r = reservation[t]
    BY DEF r
  <2> QED
    BY <1>1, <2>1, <2>2, <2>3, <2>4 DEF Outstanding
<1>5. /\ IsFiniteSet(Bytes(Outstanding \ {r}))
      /\ Cardinality(Bytes(Outstanding \ {r})) \in Nat
      /\ Cardinality(Bytes(Outstanding)) =
           Cardinality(Bytes(Outstanding \ {r})) + r.bytes
  BY <1>1, <1>2, <1>3, BytesOfLess DEF ControlInv, BytesAreFinite
<1>6. /\ liveBytes' = Cardinality(Bytes(Outstanding \ {r}))
      /\ liveBytes' \in Nat /\ liveBytes' <= Limit
  <2>1. /\ liveBytes = Cardinality(Bytes(Outstanding)) /\ liveBytes <= Limit
        /\ current[t] = liveBytes /\ r.bytes \in Nat /\ liveBytes \in Nat
    BY <1>1 DEF ControlInv, ControlTypeOK, LiveBytesAreExact
  <2>2. liveBytes' = liveBytes - (IF liveBytes <= r.bytes THEN liveBytes
                                                        ELSE r.bytes)
    BY <2>1 DEF Subtracted
  <2> QED
    BY <1>5, <2>1, <2>2
<1>7. Bytes(Outstanding)' = Bytes(Outstanding \ {r})
  BY <1>4 DEF Bytes
<1>8. BytesAreFinite' /\ LiveBytesAreExact'
  BY <1>5, <1>6, <1>7 DEF BytesAreFinite, LiveBytesAreExact
<1>9. ControlTypeOK'
  BY <1>6 DEF ControlInv, ControlTypeOK, Afterwards
<1>10. NumbersAreFresh'
  BY DEF ControlInv, ControlTypeOK, NumbersAreFresh, Keeps, Afterwards
<1>11. OneHolder'
  BY DEF ControlInv, ControlTypeOK, OneHolder, Keeps, Afterwards
<1>12. \A k : /\ Cardinality(Bytes(UpTo(k)))' <= Cardinality(Bytes(UpTo(k)))
              /\ Cardinality(Bytes(UpTo(k)))' \in Nat
              /\ Cardinality(Bytes(UpTo(k))) \in Nat
  <2>1. \A k : {s \in Outstanding' : s.id <= k} \subseteq UpTo(k)
    BY <1>4 DEF UpTo
  <2>2. \A k : IsFiniteSet(Bytes(UpTo(k)))
    BY CountType
  <2>3. \A k : /\ Cardinality(Bytes({s \in Outstanding' : s.id <= k}))
                    <= Cardinality(Bytes(UpTo(k)))
               /\ Cardinality(Bytes({s \in Outstanding' : s.id <= k})) \in Nat
               /\ Cardinality(Bytes(UpTo(k))) \in Nat
    BY <2>1, <2>2, BytesOfFewer
  <2>4. \A k : Bytes(UpTo(k))' = Bytes({s \in Outstanding' : s.id <= k})
    BY DEF UpTo, Bytes
  <2> QED
    BY <2>3, <2>4
<1>13. UNCHANGED <<reservation, current, peak, peakBytes, settled>>
  OBVIOUS
<1>14. \A u \in Threads :
        /\ pc'[u] \in {"recheck", "loadPeak", "raisePeak", "heap"} =>
             pc'[u] = pc[u]
        /\ Level(u)' = Level(u) /\ Level(u) \in Nat
  BY DEF ControlInv, ControlTypeOK, Afterwards
<1>15. LevelsCover'
  <2> HIDE DEF SubtractBytes, Level
  <2> QED
    BY <1>12, <1>13, <1>14 DEF ControlInv, LevelsCover
<1>16. PeakIsRaised'
  <2>1. peakBytes \in Nat
    BY DEF ControlInv, ControlTypeOK
  <2> HIDE DEF SubtractBytes
  <2> QED
    BY <1>12, <1>13, <1>14, <2>1 DEF ControlInv, PeakIsRaised, PeakCoversUpTo
<1>17. RefusedHaveReason'
  BY DEF ControlInv, ControlTypeOK, RefusedHaveReason, Afterwards
<1>18. OutcomeNamesReason'
  BY DEF ControlInv, OutcomeNamesReason, OutcomeFor
<1> QED
  BY <1>8, <1>9, <1>10, <1>11, <1>15, <1>16, <1>17, <1>18 DEF ControlInv

-----------------------------------------------------------------------------
(* The invariants.                                                         *)

LEMMA InitIInv == ControlInit => ControlInv
<1> SUFFICES ASSUME ControlInit PROVE ControlInv
  OBVIOUS
<1> USE DEF ControlInit
<1>1. ControlTypeOK
  BY DEF ControlTypeOK
<1>2. Outstanding = {} /\ Bytes(Outstanding) = {}
  BY DEF Outstanding, Keeps, Bytes
<1>3. BytesAreFinite /\ LiveBytesAreExact
  BY <1>2, FS_EmptySet DEF BytesAreFinite, LiveBytesAreExact
<1>4. NumbersAreFresh /\ OneHolder
  BY DEF NumbersAreFresh, OneHolder, Keeps
<1>5. LevelsCover /\ PeakIsRaised /\ RefusedHaveReason /\ OutcomeNamesReason
  BY DEF LevelsCover, PeakIsRaised, RefusedHaveReason, OutcomeNamesReason
<1> QED
  BY <1>1, <1>3, <1>4, <1>5 DEF ControlInv

LEMMA NextIInv == ControlInv /\ [ControlNext]_controlVars => ControlInv'
<1> SUFFICES ASSUME ControlInv, [ControlNext]_controlVars PROVE ControlInv'
  OBVIOUS
<1>1. ASSUME NEW reason \in {"cancelled", "deadline"}, StopFor(reason)
      PROVE  ControlInv'
  BY <1>1, StopStep
<1>2. ASSUME NEW t \in Threads, Reserve(t)
      PROVE  ControlInv'
  BY <1>2, BeginReserveStep, LoadLiveStep, ExceedBudgetStep, AddBytesStep,
     AddBytesFailsStep, RecheckStep, LoadPeakStep, RaisePeakStep DEF Reserve
<1>3. ASSUME NEW t \in Threads, Allocate(t)
      PROVE  ControlInv'
  BY <1>3, ExplainStep, HeapSucceedsStep, HeapReturnsNullStep,
     HeapFailureStep DEF Allocate
<1>4. ASSUME NEW t \in Threads, Release(t)
      PROVE  ControlInv'
  BY <1>4, BeginReleaseStep, ReleaseLoadsStep, SubtractBytesStep,
     SubtractBytesFailsStep DEF Release
<1>5. CASE UNCHANGED controlVars
  <2> USE <1>5 DEF controlVars
  <2>1. Outstanding' = Outstanding
    BY DEF Outstanding, Keeps
  <2>2. /\ BytesAreFinite' /\ LiveBytesAreExact'
        /\ \A k : UpTo(k)' = UpTo(k) /\ Bytes(UpTo(k))' = Bytes(UpTo(k))
    BY <2>1, SameOutstanding
  <2>3. ControlTypeOK' /\ NumbersAreFresh' /\ OneHolder' /\ RefusedHaveReason'
    BY DEF ControlInv, ControlTypeOK, NumbersAreFresh, OneHolder,
           RefusedHaveReason, Keeps
  <2>4. LevelsCover' /\ PeakIsRaised'
    BY <2>2 DEF ControlInv, LevelsCover, PeakIsRaised, PeakCoversUpTo
  <2>5. OutcomeNamesReason'
    BY DEF ControlInv, OutcomeNamesReason, OutcomeFor
  <2> QED
    BY <2>2, <2>3, <2>4, <2>5 DEF ControlInv
<1> QED
  BY <1>1, <1>2, <1>3, <1>4, <1>5 DEF ControlNext

\* The invariant that carries every property of the control.
THEOREM Invariant == ControlSpec => []ControlInv
BY InitIInv, NextIInv, PTL DEF ControlSpec

\* The control's words, counters and program counters keep their types.
THEOREM TypeCorrect == ControlSpec => []ControlTypeOK
<1>1. ControlInv => ControlTypeOK
  BY DEF ControlInv
<1> QED
  BY <1>1, Invariant, PTL

\* live_bytes_ is exact and within the limit in every state: TryReserve and
\* Release (fsv_draco_control.cc:62-97) need no lock.
THEOREM LiveBytesExact == ControlSpec => []LiveBytesAreExact
<1>1. ControlInv => LiveBytesAreExact
  BY DEF ControlInv
<1> QED
  BY <1>1, Invariant, PTL

\* A finite set of numbered reservations has a last one.
LEMMA LastNumber ==
  ASSUME NEW n \in Nat, NEW R, R # {}, \A r \in R : r.id \in 1..n
  PROVE  \E last \in R : \A r \in R : r.id <= last.id
<1> DEFINE T == {n - r.id : r \in R}
<1>1. T \subseteq Nat /\ T # {}
  OBVIOUS
<1>2. \E x \in T : \A y \in T : ~ (<<y, x>> \in OpToRel(<, Nat))
  BY <1>1, NatLessThanWellFounded, WFMin
<1>3. PICK x \in T : \A y \in T : ~ (y < x)
  BY <1>1, <1>2 DEF OpToRel
<1>4. PICK last \in R : x = n - last.id
  BY <1>3
<1>5. \A r \in R : r.id <= last.id
  BY <1>3, <1>4
<1> QED
  BY <1>5

\* The peak that the decode reports covers what it handed out: the last
\* admitted allocation that is still held saw all the others.
THEOREM PeakIsCovering == ControlSpec => []PeakCovers
<1>1. ControlInv => PeakCovers
  <2> SUFFICES ASSUME ControlInv PROVE PeakCovers
    OBVIOUS
  <2>1. peakBytes \in Nat /\ peakBytes <= Limit /\ allocations \in Nat
    BY DEF ControlInv, ControlTypeOK, PeakIsRaised
  <2>2. CASE settled = {}
    <3>1. Bytes(settled) = {}
      BY <2>2 DEF Bytes
    <3> QED
      BY <2>1, <3>1, FS_EmptySet DEF PeakCovers
  <2>3. CASE settled # {}
    <3>1. \A r \in settled : r.id \in 1..allocations
      BY DEF ControlInv, NumbersAreFresh
    <3>2. PICK last \in settled : \A r \in settled : r.id <= last.id
      BY <2>1, <2>3, <3>1, LastNumber
    <3>3. settled \subseteq UpTo(last.id)
      BY <3>2 DEF UpTo, Outstanding
    <3>4. /\ Cardinality(Bytes(settled)) <= Cardinality(Bytes(UpTo(last.id)))
          /\ Cardinality(Bytes(settled)) \in Nat
          /\ Cardinality(Bytes(UpTo(last.id))) \in Nat
      BY <3>3, CountType, BytesOfFewer
    <3>5. Cardinality(Bytes(UpTo(last.id))) <= peakBytes
      BY <3>2 DEF ControlInv, PeakIsRaised, PeakCoversUpTo
    <3> QED
      BY <2>1, <3>4, <3>5 DEF PeakCovers
  <2> QED
    BY <2>2, <2>3
<1> QED
  BY <1>1, Invariant, PTL

\* Every failure is reported with a reason the decode stopped for.
THEOREM FailuresNameReason == ControlSpec => []OutcomeNamesReason
<1>1. ControlInv => OutcomeNamesReason
  BY DEF ControlInv
<1> QED
  BY <1>1, Invariant, PTL

\* Every thread is done and everything handed out was released.
Quiet == settled = {} /\ \A t \in Threads : pc[t] = "idle"

\* When every thread is idle and every allocation was released, the
\* destructor (fsv_draco_control.cc:32-36) finds no live bytes to abort on.
THEOREM DestructorFindsNone == ControlSpec => [](Quiet => liveBytes = 0)
<1>1. ControlInv => (Quiet => liveBytes = 0)
  <2> SUFFICES ASSUME ControlInv, Quiet PROVE liveBytes = 0
    OBVIOUS
  <2>1. Bytes(Outstanding) = {}
    BY DEF Quiet, Outstanding, Keeps, Bytes
  <2> QED
    BY <2>1, FS_EmptySet DEF ControlInv, LiveBytesAreExact
<1> QED
  BY <1>1, Invariant, PTL

-----------------------------------------------------------------------------
(* The refinement.                                                         *)

GrantedStays == GrantedReservations' = GrantedReservations
ReasonSteps ==
  \/ stopReason' = stopReason
  \/ stopReason = "none" /\ stopReason' \in StopReasons

\* A step that moves no granted reservation is a stop or a stuttering step.
LEMMA StopOrStutter ==
  ASSUME GrantedStays, ReasonSteps
  PROVE  [Ledger!Next]_Ledger!vars
BY DEF GrantedStays, ReasonSteps, Ledger!Next, Ledger!vars, Ledger!Stop

LEMMA GrantedIsOutstanding ==
  ASSUME ControlInv
  PROVE  GrantedReservations \subseteq Outstanding
BY DEF GrantedReservations, Outstanding, Granted, Keeps

\* Both modules count alike.
LEMMA SameCardinality == \A S : Ledger!Cardinality(S) = Cardinality(S)
BY DEF Ledger!Cardinality, Cardinality

\* The second look at an unset stop reason is where a reservation is granted.
LEMMA RecheckRefines ==
  ASSUME ControlInv, NEW t \in Threads, Recheck(t)
  PROVE  [Ledger!Next]_Ledger!vars
<1> USE DEF Recheck, Goto
<1>1. CASE stopReason # "none"
  <2>1. GrantedStays
    BY <1>1 DEF ControlInv, ControlTypeOK, GrantedStays, GrantedReservations, Granted
  <2> QED
    BY <2>1, StopOrStutter DEF ReasonSteps
<1>2. CASE stopReason = "none"
  <2>1. pc[t] = "recheck" /\ Keeps(t) /\ ~Granted(t)
    BY DEF Keeps, Granted
  <2>2. GrantedReservations' = GrantedReservations \cup {reservation[t]}
    <3>1. Granted(t)' /\ \A u \in Threads \ {t} : Granted(u)' = Granted(u)
      BY <1>2 DEF ControlInv, ControlTypeOK, Granted
    <3>2. settled' = settled /\ reservation' = reservation
      OBVIOUS
    <3> HIDE DEF Recheck
    <3> QED
      BY <2>1, <3>1, <3>2 DEF GrantedReservations
  <2>3. reservation[t] \in [id : 1..MaxReservations, bytes : Sizes]
    BY <2>1 DEF ControlInv, ControlTypeOK, NumbersAreFresh
  <2>4. \A g \in GrantedReservations : g.id # reservation[t].id
    BY <2>1 DEF ControlInv, OneHolder, GrantedReservations, Granted, Keeps
  <2>5. GrantedReservations \cup {reservation[t]} \subseteq Outstanding
    BY <2>1, GrantedIsOutstanding DEF Outstanding
  <2>6. Cardinality(Bytes(GrantedReservations \cup {reservation[t]})) <= Limit
    BY <2>5, BytesOfFewer
    DEF ControlInv, ControlTypeOK, BytesAreFinite, LiveBytesAreExact
  <2>7. Ledger!Cardinality(Ledger!Bytes(GrantedReservations')) <= Limit
    <3>1. Ledger!Bytes(GrantedReservations') =
            Bytes(GrantedReservations \cup {reservation[t]})
      BY <2>2 DEF Bytes, Ledger!Bytes
    <3> QED
      BY <2>6, <3>1, SameCardinality
  <2>8. Ledger!Grant(reservation[t])
    BY <1>2, <2>2, <2>4, <2>7 DEF Ledger!Grant
  <2> QED
    BY <2>3, <2>8 DEF Ledger!Next
<1> QED
  BY <1>1, <1>2

\* The exchange that subtracts the bytes is where they are returned, unless
\* they were never granted.
LEMMA SubtractRefines ==
  ASSUME ControlInv, NEW t \in Threads, SubtractBytes(t)
  PROVE  [Ledger!Next]_Ledger!vars
<1> USE DEF SubtractBytes, Goto
<1>1. pc[t] = "subtract" /\ Keeps(t) /\ ~Granted(t)'
      /\ \A u \in Threads \ {t} : Granted(u)' = Granted(u)
  BY DEF ControlInv, ControlTypeOK, Keeps, Granted, Afterwards
<1>2. settled' = settled /\ reservation' = reservation
      /\ stopReason' = stopReason
  OBVIOUS
<1>3. /\ reservation[t] \notin settled
      /\ \A u \in Threads \ {t} : Granted(u) =>
           reservation[u] # reservation[t]
  BY <1>1 DEF ControlInv, OneHolder, Granted, Keeps
<1> HIDE DEF SubtractBytes
<1>4. GrantedReservations' = GrantedReservations \ {reservation[t]}
  BY <1>1, <1>2, <1>3 DEF GrantedReservations
<1>5. CASE Granted(t)
  <2>1. reservation[t] \in GrantedReservations
    BY <1>5 DEF GrantedReservations
  <2> QED
    BY <1>2, <1>4, <2>1 DEF Ledger!Next, Ledger!Return
<1>6. CASE ~Granted(t)
  <2>1. reservation[t] \notin GrantedReservations
    BY <1>3, <1>6 DEF GrantedReservations
  <2>2. GrantedStays
    BY <1>4, <2>1 DEF GrantedStays
  <2> QED
    BY <1>2, <2>2, StopOrStutter DEF ReasonSteps
<1> QED
  BY <1>5, <1>6

\* Every other operation moves no granted reservation.
LEMMA ReserveRefines ==
  ASSUME ControlInv, NEW t \in Threads, Reserve(t)
  PROVE  [Ledger!Next]_Ledger!vars
<1> USE DEF GrantedStays, ReasonSteps, GrantedReservations, Granted, Goto,
            ControlInv, ControlTypeOK
<1>1. ASSUME NEW bytes \in Sizes, BeginReserve(t, bytes)
      PROVE  GrantedStays /\ ReasonSteps
  BY <1>1 DEF BeginReserve
<1>2. LoadLive(t) => GrantedStays /\ ReasonSteps
  BY DEF LoadLive
<1>3. ExceedBudget(t) => GrantedStays /\ ReasonSteps
  BY DEF ExceedBudget, StopWith
<1>4. AddBytes(t) => GrantedStays /\ ReasonSteps
  BY DEF AddBytes
<1>5. AddBytesFails(t) => GrantedStays /\ ReasonSteps
  BY DEF AddBytesFails
<1>6. LoadPeak(t) => GrantedStays /\ ReasonSteps
  BY DEF LoadPeak
<1>7. RaisePeak(t) => GrantedStays /\ ReasonSteps
  BY DEF RaisePeak
<1> QED
  BY <1>1, <1>2, <1>3, <1>4, <1>5, <1>6, <1>7, RecheckRefines, StopOrStutter
  DEF Reserve

LEMMA AllocateRefines ==
  ASSUME ControlInv, NEW t \in Threads, Allocate(t)
  PROVE  [Ledger!Next]_Ledger!vars
<1> USE DEF GrantedStays, ReasonSteps, GrantedReservations, Granted, Goto,
            ControlInv, ControlTypeOK
<1>1. Explain(t) => GrantedStays /\ ReasonSteps
  BY DEF Explain
<1>2. HeapSucceeds(t) => GrantedStays /\ ReasonSteps
  BY DEF HeapSucceeds
<1>3. HeapReturnsNull(t) => GrantedStays /\ ReasonSteps
  BY DEF HeapReturnsNull
<1>4. HeapFailure(t) => GrantedStays /\ ReasonSteps
  BY DEF HeapFailure, StopWith
<1> QED
  BY <1>1, <1>2, <1>3, <1>4, StopOrStutter DEF Allocate

LEMMA ReleaseRefines ==
  ASSUME ControlInv, NEW t \in Threads, Release(t)
  PROVE  [Ledger!Next]_Ledger!vars
<1> USE DEF GrantedStays, ReasonSteps, GrantedReservations, Granted, Goto,
            ControlInv, ControlTypeOK
<1>1. ASSUME NEW r \in settled, BeginRelease(t, r)
      PROVE  GrantedStays /\ ReasonSteps
  BY <1>1 DEF BeginRelease
<1>2. ReleaseLoads(t) => GrantedStays /\ ReasonSteps
  BY DEF ReleaseLoads
<1>3. SubtractBytesFails(t) => GrantedStays /\ ReasonSteps
  BY DEF SubtractBytesFails
<1> QED
  BY <1>1, <1>2, <1>3, SubtractRefines, StopOrStutter DEF Release

\* The lock-free control behaves like a ledger whose operations are atomic:
\* no reservation is granted after the decode stopped, all that are granted
\* fit, and the first reason to stop stays.
THEOREM ControlKeepsLedger == ControlSpec => KeepsByteLedger
<1>1. ControlInit => Ledger!Init
  BY DEF ControlInit, Ledger!Init, GrantedReservations, Granted
<1>2. ControlInv /\ [ControlNext]_controlVars => [Ledger!Next]_Ledger!vars
  <2> SUFFICES ASSUME ControlInv, [ControlNext]_controlVars
               PROVE  [Ledger!Next]_Ledger!vars
    OBVIOUS
  <2>1. ASSUME NEW reason \in {"cancelled", "deadline"}, StopFor(reason)
        PROVE  [Ledger!Next]_Ledger!vars
    <3>1. GrantedStays /\ ReasonSteps
      BY <2>1 DEF StopFor, GrantedStays, ReasonSteps, GrantedReservations, Granted
    <3> QED
      BY <3>1, StopOrStutter
  <2>2. CASE UNCHANGED controlVars
    <3>1. GrantedStays /\ ReasonSteps
      BY <2>2 DEF controlVars, GrantedStays, ReasonSteps, GrantedReservations, Granted
    <3> QED
      BY <3>1, StopOrStutter
  <2> QED
    BY <2>1, <2>2, ReserveRefines, AllocateRefines, ReleaseRefines DEF ControlNext
<1> QED
  BY <1>1, <1>2, Invariant, PTL DEF ControlSpec, KeepsByteLedger, Ledger!Spec
=============================================================================
