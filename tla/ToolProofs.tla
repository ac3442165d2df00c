------------------------------ MODULE ToolProofs ------------------------------
(***************************************************************************)
(* Proofs about the tools that write a directory together without a lock:  *)
(* FixtureStaging, for any stagers and any files, and HarnessScaffold, for *)
(* any invocations, files and versions.                                    *)
(***************************************************************************)
EXTENDS FixtureStaging, HarnessScaffold, TLAPS

(* FixtureStaging.  What holds StagedFilesAreWhole up is that the last to    *)
(* truncate a torn file still has it open and was not truncated itself, and  *)
(* that a stager is never ahead of the files it has moved into place.        *)

\* The last to truncate a torn file is still writing it.
LastWrites ==
  \A n \in Name, i \in Stager :
    <<n, i>> \in torn => \E s \in Stager \ spoiled : Writes(s, n, i)

\* Where a stager is tells what it has done.
Progress ==
  \A s \in Stager :
    /\ at[s] \in 0..Len(Order[job[s]])
    /\ stage[s] \in {"open", "write", "replace"} => Left(s)
    /\ \A a \in 1..at[s] : final[Order[job[s]][a]] # Nobody
    /\ result[s] = "ok" => stage[s] = "next" /\ ~Left(s)

\* And which records it has verified.
Verified ==
  \A s \in Stager :
    /\ stage[s] # "idle" => "provenance" \in sound
    /\ stage[s] = "clearcoat" => job[s] \in {"verify", "clearcoat"}
    /\ job[s] = "clearcoat" /\ stage[s] \notin {"idle", "clearcoat"} => "clearcoat" \in sound
    /\ job[s] = "sheen" /\ stage[s] \notin {"idle", "sheen"} => "sheen" \in sound

StagingInv == StagingTypeOK /\ LastWrites /\ Progress /\ Verified /\ StagedInOrder

\* Type correctness, step by step.
LEMMA StagingTypeStep ==
  ASSUME StagingInv, [StagingNext]_stagingVars
  PROVE  StagingTypeOK'
<1> USE DEF StagingTypeOK, stagingVars, files
<1>1. StagingTypeOK
  BY DEF StagingInv
<1>2. CASE UNCHANGED stagingVars
  BY <1>1, <1>2
<1>3. ASSUME NEW s \in Stager,
             \/ VerifyMetadata(s) \/ VerifyClearcoatMetadata(s) \/ VerifySheenMetadata(s)
             \/ FetchKhronos(s) \/ FetchClearcoat(s) \/ ReadSheenFixture(s)
             \/ PackSheenCloth(s) \/ ReadA1b32(s)
      PROVE  StagingTypeOK'
  <2>1. \E g \in Stage : To(s, g)
    BY <1>3 DEF VerifyMetadata, VerifyClearcoatMetadata, VerifySheenMetadata, FetchKhronos,
      FetchClearcoat, ReadSheenFixture, PackSheenCloth, ReadA1b32, Obtains, Stage
  <2>2. UNCHANGED <<job, sound, result, at, files>>
    BY <1>3 DEF VerifyMetadata, VerifyClearcoatMetadata, VerifySheenMetadata, FetchKhronos,
      FetchClearcoat, ReadSheenFixture, PackSheenCloth, ReadA1b32, Obtains
  <2> QED BY <1>1, <2>1, <2>2 DEF To
<1>4. ASSUME NEW s \in Stager, OpenPartial(s)
      PROVE  StagingTypeOK'
  <2> DEFINE n == Current(s)
             i == IF dotPartial[n] = Nobody THEN s ELSE dotPartial[n]
  <2>1. Left(s)
    BY <1>4 DEF OpenPartial, At, StagingInv, Progress
  <2>2. n \in Name
    BY <1>1, <2>1, OrderAssumption DEF Left, Current, StagingInv, Progress
  <2>3. i \in Stager
    BY <1>1, <2>2
  <2>4. /\ dotPartial' = [dotPartial EXCEPT ![n] = i] /\ hand' = [hand EXCEPT ![s] = i]
        /\ torn' = torn \cup {<<n, i>>}
        /\ spoiled' = (spoiled \cup {t \in Stager : Writes(t, n, i)}) \ {s}
        /\ stage' = [stage EXCEPT ![s] = "write"]
        /\ UNCHANGED <<job, sound, result, at, final>>
    BY <1>4 DEF OpenPartial, To
  <2> HIDE DEF n, i
  <2> QED BY <1>1, <2>2, <2>3, <2>4 DEF Stage
<1>5. ASSUME NEW s \in Stager, WritePartial(s)
      PROVE  StagingTypeOK'
  <2>1. torn' \subseteq torn
    BY <1>5 DEF WritePartial
  <2> QED BY <1>1, <1>5, <2>1 DEF WritePartial, To, Stage
<1>6. ASSUME NEW s \in Stager, ReplaceFinal(s)
      PROVE  StagingTypeOK'
  <2> DEFINE n == Current(s)
  <2>1. Left(s)
    BY <1>6 DEF ReplaceFinal, At, StagingInv, Progress
  <2>2. n \in Name
    BY <1>1, <2>1, OrderAssumption DEF Left, Current, StagingInv, Progress
  <2> HIDE DEF n
  <2>3. /\ final' = [final EXCEPT ![n] = dotPartial[n]]
        /\ dotPartial' = [dotPartial EXCEPT ![n] = Nobody]
        /\ at' = [at EXCEPT ![s] = at[s] + 1]
        /\ stage' = [stage EXCEPT ![s] = "next"]
        /\ UNCHANGED <<job, sound, result, torn, spoiled, hand>>
    BY <1>6 DEF ReplaceFinal, To, n
  <2> QED BY <1>1, <2>2, <2>3 DEF Stage
<1>7. ASSUME NEW s \in Stager, Staged(s) \/ StagerStops(s)
      PROVE  StagingTypeOK'
  BY <1>1, <1>7 DEF Staged, StagerStops
<1> QED BY <1>2, <1>3, <1>4, <1>5, <1>6, <1>7 DEF StagingNext, StagerStep

\* Steps that touch no file.
Reads(s) ==
  \/ VerifyMetadata(s) \/ VerifyClearcoatMetadata(s) \/ VerifySheenMetadata(s)
  \/ FetchKhronos(s) \/ FetchClearcoat(s) \/ ReadSheenFixture(s)
  \/ PackSheenCloth(s) \/ ReadA1b32(s) \/ Staged(s) \/ StagerStops(s)

\* They open nothing, and end no write.
LEMMA ReadsFrame ==
  ASSUME NEW s \in Stager, Reads(s)
  PROVE  /\ UNCHANGED <<job, sound, at, files>>
         /\ UNCHANGED stage \/ (stage[s] # "write" /\ \E g \in Stage \ {"write"} : To(s, g))
<1>1. UNCHANGED <<job, sound, at, files>>
  BY DEF Reads, VerifyMetadata, VerifyClearcoatMetadata, VerifySheenMetadata, FetchKhronos,
    FetchClearcoat, ReadSheenFixture, PackSheenCloth, ReadA1b32, Obtains, Staged, StagerStops
<1>2. UNCHANGED stage \/ (stage[s] # "write" /\ \E g \in Stage \ {"write"} : To(s, g))
  BY DEF Reads, VerifyMetadata, VerifyClearcoatMetadata, VerifySheenMetadata, FetchKhronos,
    FetchClearcoat, ReadSheenFixture, PackSheenCloth, ReadA1b32, Obtains, Staged, StagerStops,
    At, Stage
<1> QED BY <1>1, <1>2

\* A torn file is still being written by the last to truncate it.
LEMMA LastStep ==
  ASSUME StagingInv, [StagingNext]_stagingVars
  PROVE  LastWrites'
<1> SUFFICES ASSUME NEW m \in Name, NEW j \in Stager, <<m, j>> \in torn'
             PROVE  \E t \in Stager \ spoiled' : Writes(t, m, j)'
  BY DEF LastWrites
<1>1. StagingTypeOK /\ LastWrites /\ Progress
  BY DEF StagingInv
<1>2. CASE UNCHANGED stagingVars
  BY <1>1, <1>2 DEF stagingVars, files, LastWrites, Writes, Left, Current
<1>3. ASSUME NEW s \in Stager, Reads(s)
      PROVE  \E t \in Stager \ spoiled' : Writes(t, m, j)'
  <2>1. PICK t \in Stager \ spoiled : Writes(t, m, j)
    BY <1>1, <1>3, ReadsFrame DEF LastWrites, files
  <2>2. stage'[t] = "write"
    BY <1>1, <1>3, <2>1, ReadsFrame DEF To, Writes, StagingTypeOK
  <2> QED BY <1>3, <2>1, <2>2, ReadsFrame DEF Writes, Left, Current, files
<1>4. ASSUME NEW s \in Stager, OpenPartial(s)
      PROVE  \E t \in Stager \ spoiled' : Writes(t, m, j)'
  <2> DEFINE n == Current(s)
             i == IF dotPartial[n] = Nobody THEN s ELSE dotPartial[n]
  <2>1. Left(s) /\ stage[s] # "write"
    BY <1>1, <1>4 DEF OpenPartial, At, Progress
  <2>2. /\ hand' = [hand EXCEPT ![s] = i]
        /\ torn' = torn \cup {<<n, i>>}
        /\ spoiled' = (spoiled \cup {t \in Stager : Writes(t, n, i)}) \ {s}
        /\ stage' = [stage EXCEPT ![s] = "write"]
        /\ UNCHANGED <<job, at>>
    BY <1>4 DEF OpenPartial, To
  <2> HIDE DEF i
  <2>3. CASE m = n /\ j = i
    <3>1. stage'[s] = "write" /\ hand'[s] = i /\ s \notin spoiled'
      BY <1>1, <2>2 DEF StagingTypeOK
    <3>2. Left(s)' /\ Current(s)' = n
      BY <2>1, <2>2 DEF Left, Current
    <3> QED BY <2>3, <3>1, <3>2 DEF Writes
  <2>4. CASE ~(m = n /\ j = i)
    <3>1. <<m, j>> \in torn
      BY <2>2, <2>4
    <3>2. PICK t \in Stager \ spoiled : Writes(t, m, j)
      BY <1>1, <3>1 DEF LastWrites
    <3>3. t # s
      BY <2>1, <3>2 DEF Writes
    <3>4. ~Writes(t, n, i)
      BY <2>4, <3>2 DEF Writes
    <3>5. t \notin spoiled'
      BY <2>2, <3>2, <3>4
    <3>6. stage'[t] = stage[t] /\ hand'[t] = hand[t]
      BY <1>1, <2>2, <3>3 DEF StagingTypeOK
    <3>7. Writes(t, m, j)'
      BY <2>2, <3>2, <3>6 DEF Writes, Left, Current
    <3> QED BY <3>5, <3>7
  <2> QED BY <2>3, <2>4
<1>5. ASSUME NEW s \in Stager, WritePartial(s)
      PROVE  \E t \in Stager \ spoiled' : Writes(t, m, j)'
  <2>1. /\ stage[s] = "write" /\ stage' = [stage EXCEPT ![s] = "replace"]
        /\ UNCHANGED <<job, at, hand, spoiled>>
        /\ torn' = torn \ {<<Current(s), hand[s]>>} \/ (s \in spoiled /\ torn' = torn)
    BY <1>5 DEF WritePartial, At, To
  <2>2. PICK t \in Stager \ spoiled : Writes(t, m, j)
    BY <1>1, <2>1 DEF LastWrites
  <2>3. t # s
    BY <2>1, <2>2 DEF Writes
  <2>4. stage'[t] = stage[t]
    BY <1>1, <2>1, <2>3 DEF StagingTypeOK
  <2> QED BY <2>1, <2>2, <2>4 DEF Writes, Left, Current
<1>6. ASSUME NEW s \in Stager, ReplaceFinal(s)
      PROVE  \E t \in Stager \ spoiled' : Writes(t, m, j)'
  <2>1. /\ stage[s] = "replace" /\ stage' = [stage EXCEPT ![s] = "next"]
        /\ at' = [at EXCEPT ![s] = at[s] + 1]
        /\ UNCHANGED <<job, hand, spoiled, torn>>
    BY <1>6 DEF ReplaceFinal, At, To
  <2>2. PICK t \in Stager \ spoiled : Writes(t, m, j)
    BY <1>1, <2>1 DEF LastWrites
  <2>3. t # s
    BY <2>1, <2>2 DEF Writes
  <2>4. stage'[t] = stage[t] /\ at'[t] = at[t]
    BY <1>1, <2>1, <2>3 DEF StagingTypeOK
  <2> QED BY <2>1, <2>2, <2>4 DEF Writes, Left, Current
<1> QED BY <1>2, <1>3, <1>4, <1>5, <1>6 DEF StagingNext, StagerStep, Reads

-----------------------------------------------------------------------------
\* What ReplaceFinal does, by name of the file.
LEMMA Replaced ==
  ASSUME StagingInv, NEW s \in Stager, ReplaceFinal(s)
  PROVE  /\ Left(s) /\ Current(s) \in Name /\ stage[s] = "replace" /\ result[s] = "none"
         /\ final'[Current(s)] # Nobody
         /\ \A n \in Name : final[n] # Nobody => final'[n] # Nobody
         /\ \A n \in Name : n # Current(s) => final'[n] = final[n]
         /\ at'[s] = at[s] + 1 /\ \A t \in Stager \ {s} : at'[t] = at[t]
         /\ stage'[s] = "next" /\ \A t \in Stager \ {s} : stage'[t] = stage[t]
         /\ UNCHANGED <<job, sound, result>>
<1> DEFINE n == Current(s)
<1>1. StagingTypeOK /\ Progress
  BY DEF StagingInv
<1>2. stage[s] = "replace" /\ result[s] = "none" /\ Left(s)
  BY <1>1 DEF ReplaceFinal, At, Progress
<1>3. n \in Name
  BY <1>1, <1>2, OrderAssumption DEF Left, Current, StagingTypeOK, Progress
<1> HIDE DEF n
<1>4. /\ dotPartial[n] # Nobody
      /\ final' = [final EXCEPT ![n] = dotPartial[n]]
      /\ at' = [at EXCEPT ![s] = at[s] + 1]
      /\ stage' = [stage EXCEPT ![s] = "next"]
      /\ UNCHANGED <<job, sound, result>>
  BY DEF ReplaceFinal, To, n
<1>5. /\ final'[n] # Nobody
      /\ \A x \in Name : x # n => final'[x] = final[x]
  BY <1>1, <1>3, <1>4 DEF StagingTypeOK
<1>6. \A x \in Name : final[x] # Nobody => final'[x] # Nobody
  BY <1>5
<1>7. /\ at'[s] = at[s] + 1 /\ \A t \in Stager \ {s} : at'[t] = at[t]
      /\ stage'[s] = "next" /\ \A t \in Stager \ {s} : stage'[t] = stage[t]
  BY <1>1, <1>4 DEF StagingTypeOK
<1> QED BY <1>2, <1>3, <1>4, <1>5, <1>6, <1>7 DEF n

\* The other steps move no file into place.
LEMMA Unmoved ==
  ASSUME StagingTypeOK, NEW s \in Stager, StagerStep(s), ~ReplaceFinal(s)
  PROVE  /\ UNCHANGED <<job, sound, at, final>>
         /\ \A t \in Stager \ {s} : stage'[t] = stage[t] /\ result'[t] = result[t]
         /\ stage'[s] \in {"open", "write", "replace"} =>
              stage[s] \in {"open", "write", "replace"} \/ Left(s)
         /\ result'[s] = "ok" =>
              \/ result[s] = "ok" /\ stage'[s] = stage[s]
              \/ stage[s] = "next" /\ ~Left(s) /\ stage'[s] = stage[s]
<1>1. CASE Reads(s)
  <2>1. UNCHANGED <<job, sound, at, final>>
    BY <1>1, ReadsFrame DEF files
  <2>2. \A t \in Stager \ {s} : stage'[t] = stage[t]
    BY <1>1, ReadsFrame DEF To, StagingTypeOK
  <2>3. CASE Staged(s) \/ StagerStops(s)
    BY <2>1, <2>2, <2>3 DEF Staged, StagerStops, At, StagingTypeOK
  <2>4. CASE VerifyMetadata(s) \/ VerifyClearcoatMetadata(s) \/ VerifySheenMetadata(s)
    <3>1. /\ UNCHANGED result /\ result[s] = "none"
          /\ To(s, "clearcoat") \/ To(s, "sheen") \/ To(s, "next")
      BY <2>4 DEF VerifyMetadata, VerifyClearcoatMetadata, VerifySheenMetadata, At
    <3>2. stage'[s] \in {"clearcoat", "sheen", "next"}
      BY <3>1 DEF To, StagingTypeOK
    <3> QED BY <2>1, <2>2, <3>1, <3>2
  <2>5. CASE Obtains(s)
    <3>1. UNCHANGED result /\ result[s] = "none" /\ Left(s)
      BY <2>5 DEF Obtains, At
    <3> QED BY <2>1, <2>2, <3>1
  <2> QED BY <1>1, <2>3, <2>4, <2>5 DEF Reads, FetchKhronos, FetchClearcoat,
        ReadSheenFixture, PackSheenCloth, ReadA1b32
<1>2. CASE OpenPartial(s) \/ WritePartial(s)
  <2>1. /\ UNCHANGED <<job, sound, at, final, result>> /\ result[s] = "none"
        /\ To(s, "write") \/ To(s, "replace")
        /\ stage[s] \in {"open", "write"} \/ Left(s)
    BY <1>2 DEF OpenPartial, WritePartial, At
  <2>2. \A t \in Stager \ {s} : stage'[t] = stage[t]
    BY <2>1 DEF To, StagingTypeOK
  <2> QED BY <2>1, <2>2
<1> QED BY <1>1, <1>2 DEF StagerStep, Reads

\* A stager is where its files are.
LEMMA ProgressStep ==
  ASSUME StagingInv, [StagingNext]_stagingVars
  PROVE  Progress'
<1>1. StagingTypeOK /\ Progress
  BY DEF StagingInv
<1>2. CASE UNCHANGED stagingVars
  BY <1>1, <1>2 DEF stagingVars, files, Progress, Left
<1>3. ASSUME NEW s \in Stager, StagerStep(s), ~ReplaceFinal(s)
      PROVE  Progress'
  BY <1>1, <1>3, Unmoved DEF Progress, Left
<1>4. ASSUME NEW s \in Stager, ReplaceFinal(s), NEW t \in Stager
      PROVE  /\ at'[t] \in 0..Len(Order[job'[t]])
             /\ stage'[t] \in {"open", "write", "replace"} => Left(t)'
             /\ \A a \in 1..at'[t] : final'[Order[job'[t]][a]] # Nobody
             /\ result'[t] = "ok" => stage'[t] = "next" /\ ~Left(t)'
  <2> DEFINE j == job[t]
  <2>1. j \in Job /\ Order[j] \in Seq(Name) /\ at[t] \in 0..Len(Order[j])
    BY <1>1, OrderAssumption DEF StagingTypeOK, Progress
  <2>2. \A a \in 1..at[t] : Order[j][a] \in Name /\ final[Order[j][a]] # Nobody
    BY <1>1, <2>1 DEF Progress
  <2>3. \A a \in 1..at[t] : final'[Order[j][a]] # Nobody
    BY <1>4, <2>2, Replaced
  <2>4. job' = job /\ result' = result
    BY <1>4, Replaced
  <2>5. CASE t # s
    <3>1. at'[t] = at[t] /\ stage'[t] = stage[t]
      BY <1>4, <2>5, Replaced
    <3> QED BY <1>1, <2>1, <2>3, <2>4, <3>1 DEF Progress, Left
  <2>6. CASE t = s
    <3>1. /\ at'[s] = at[s] + 1 /\ stage'[s] = "next" /\ result[s] = "none" /\ Left(s)
          /\ final'[Current(s)] # Nobody
      BY <1>4, Replaced
    <3>2. at[s] + 1 \in 1..Len(Order[j])
      BY <2>1, <2>6, <3>1 DEF Left
    <3>3. \A a \in 1..at[s] + 1 : final'[Order[j][a]] # Nobody
      <4> SUFFICES ASSUME NEW a \in 1..at[s] + 1 PROVE final'[Order[j][a]] # Nobody
        OBVIOUS
      <4>1. a \in 1..at[s] \/ a = at[s] + 1
        BY <2>1, <2>6
      <4> QED BY <2>3, <2>6, <3>1, <4>1 DEF Current
    <3> QED BY <2>4, <2>6, <3>1, <3>2, <3>3
  <2> QED BY <2>5, <2>6
<1> QED BY <1>2, <1>3, <1>4 DEF StagingNext, Progress

\* Files are staged in order: the file a stager moves into place follows
\* those it has moved before.
LEMMA OrderStep ==
  ASSUME StagingInv, [StagingNext]_stagingVars
  PROVE  StagedInOrder'
<1>1. StagingTypeOK /\ Progress /\ StagedInOrder
  BY DEF StagingInv
<1>2. CASE UNCHANGED stagingVars
  BY <1>1, <1>2 DEF stagingVars, files, StagedInOrder
<1>3. ASSUME NEW s \in Stager, StagerStep(s), ~ReplaceFinal(s)
      PROVE  StagedInOrder'
  BY <1>1, <1>3, Unmoved DEF StagedInOrder
<1>4. ASSUME NEW s \in Stager, ReplaceFinal(s), NEW j \in Job,
             NEW a \in 1..Len(Order[j]), NEW b \in 1..Len(Order[j]),
             a < b, final'[Order[j][b]] # Nobody
      PROVE  final'[Order[j][a]] # Nobody
  <2>1. Order[j][a] \in Name /\ Order[j][b] \in Name
    BY OrderAssumption
  <2>2. CASE final[Order[j][b]] # Nobody
    <3>1. final[Order[j][a]] # Nobody
      BY <1>1, <1>4, <2>2 DEF StagedInOrder
    <3> QED BY <1>4, <2>1, <3>1, Replaced
  <2>3. CASE final[Order[j][b]] = Nobody
    <3>1. Order[j][b] = Current(s)
      BY <1>4, <2>1, <2>3, Replaced
    <3>2. job[s] \in Job /\ at[s] + 1 \in 1..Len(Order[job[s]])
      <4>1. Left(s)
        BY <1>4, Replaced
      <4>2. at[s] \in Nat /\ job[s] \in Job /\ Order[job[s]] \in Seq(Name)
        BY <1>1, OrderAssumption DEF StagingTypeOK
      <4> QED BY <4>1, <4>2 DEF Left
    <3>3. job[s] = j /\ at[s] + 1 = b
      BY <3>1, <3>2, OrderAssumption DEF Current
    <3>4. a \in 1..at[s]
      BY <1>1, <1>4, <3>3 DEF StagingTypeOK
    <3>5. final[Order[j][a]] # Nobody
      BY <1>1, <3>3, <3>4 DEF Progress
    <3> QED BY <1>4, <2>1, <3>5, Replaced
  <2> QED BY <2>2, <2>3
<1> QED BY <1>2, <1>3, <1>4 DEF StagingNext, StagedInOrder

\* Nothing is staged before its records are verified.
LEMMA VerifiedStep ==
  ASSUME StagingInv, [StagingNext]_stagingVars
  PROVE  Verified'
<1>1. StagingTypeOK /\ Verified
  BY DEF StagingInv
<1>2. CASE UNCHANGED stagingVars
  BY <1>1, <1>2 DEF stagingVars, Verified
<1>3. ASSUME NEW s \in Stager, StagerStep(s)
      PROVE  Verified'
  <2>1. UNCHANGED <<job, sound>>
    BY <1>3, Unmoved, Replaced, <1>1 DEF ReplaceFinal
  <2>2. CASE stage' = stage
    BY <1>1, <2>1, <2>2 DEF Verified
  <2>3. CASE VerifyMetadata(s)
    BY <1>1, <2>1, <2>3 DEF VerifyMetadata, To, At, Verified, StagingTypeOK
  <2>4. CASE VerifyClearcoatMetadata(s)
    BY <1>1, <2>1, <2>4 DEF VerifyClearcoatMetadata, To, At, Verified, StagingTypeOK
  <2>5. CASE VerifySheenMetadata(s)
    BY <1>1, <2>1, <2>5 DEF VerifySheenMetadata, To, At, Verified, StagingTypeOK
  <2>6. CASE /\ stage[s] \in {"next", "open", "write", "replace"}
             /\ \E g \in {"next", "open", "write", "replace"} : To(s, g)
    BY <1>1, <2>1, <2>6 DEF To, Verified, StagingTypeOK
  <2> QED BY <1>3, <2>2, <2>3, <2>4, <2>5, <2>6 DEF StagerStep, FetchKhronos, FetchClearcoat,
        ReadSheenFixture, PackSheenCloth, ReadA1b32, Obtains, OpenPartial, WritePartial,
        ReplaceFinal, Staged, StagerStops, At
<1> QED BY <1>2, <1>3 DEF StagingNext

\* Nothing is staged at first.
LEMMA StagingInvInit ==
  ASSUME StagingInit
  PROVE  StagingInv
<1>1. StagingTypeOK
  BY DEF StagingInit, StagingTypeOK, Stage
<1>2. LastWrites /\ Verified
  BY DEF StagingInit, LastWrites, Verified
<1>3. Progress
  <2>1. \A s \in Stager : Len(Order[job[s]]) \in Nat
    BY <1>1, OrderAssumption DEF StagingTypeOK
  <2>2. \A s \in Stager : at[s] = 0 /\ stage[s] = "idle" /\ result[s] = "none"
    BY DEF StagingInit
  <2>3. \A k \in Nat : 0 \in 0..k /\ 1..0 = {}
    OBVIOUS
  <2>4. \A s \in Stager : at[s] \in 0..Len(Order[job[s]])
    BY <2>1, <2>2, <2>3
  <2>5. ASSUME NEW s \in Stager
        PROVE  \A a \in 1..at[s] : final[Order[job[s]][a]] # Nobody
    <3>1. at[s] = 0
      BY <2>2
    <3> QED BY <3>1
  <2>6. ASSUME NEW s \in Stager
        PROVE  /\ stage[s] \in {"open", "write", "replace"} => Left(s)
               /\ result[s] = "ok" => stage[s] = "next" /\ ~Left(s)
    BY <2>2
  <2> QED BY <2>4, <2>5, <2>6 DEF Progress
<1>4. StagedInOrder
  BY OrderAssumption DEF StagingInit, StagedInOrder
<1> QED BY <1>1, <1>2, <1>3, <1>4 DEF StagingInv

\* However stagers of one corpus overlap and stop, a staged file is torn only
\* while somebody writes it, a job is staged in order, and OK means staged
\* from verified records.
THEOREM StagedAreWhole == StagingSpec => []StagedFilesAreWhole
<1>1. StagingInit => StagingInv
  BY StagingInvInit
<1>2. StagingInv /\ [StagingNext]_stagingVars => StagingInv'
  BY StagingTypeStep, LastStep, ProgressStep, VerifiedStep, OrderStep DEF StagingInv
<1>3. StagingInv => StagedFilesAreWhole
  <2> SUFFICES ASSUME StagingInv PROVE StagedFilesAreWhole
    OBVIOUS
  <2>1. TornOnlyWhileWritten
    BY DEF StagingInv, LastWrites, TornOnlyWhileWritten
  <2>2. ASSUME NEW s \in Stager, result[s] = "ok"
        PROVE  /\ "provenance" \in sound
               /\ job[s] \in Corpus => job[s] \in sound
               /\ \A a \in 1..Len(Order[job[s]]) : final[Order[job[s]][a]] # Nobody
    <3>1. stage[s] = "next" /\ ~Left(s) /\ at[s] \in 0..Len(Order[job[s]])
      BY <2>2 DEF StagingInv, Progress
    <3>2. "provenance" \in sound /\ (job[s] \in Corpus => job[s] \in sound)
      BY <3>1 DEF StagingInv, Verified, Corpus
    <3>3. Order[job[s]] \in Seq(Name)
      BY OrderAssumption DEF StagingInv, StagingTypeOK
    <3>4. at[s] = Len(Order[job[s]])
      BY <3>1, <3>3 DEF Left
    <3> QED BY <3>2, <3>4 DEF StagingInv, Progress
  <2> QED BY <2>1, <2>2 DEF StagedFilesAreWhole, OKMeansStaged, StagingInv
<1> QED BY <1>1, <1>2, <1>3, PTL DEF StagingSpec

-----------------------------------------------------------------------------
(* HarnessScaffold.  Nothing that is in the output ever disappears, an       *)
(* invocation is where its files are, and a generator that has passed a file *)
(* stays past it: that is what keeps HarnessIsValidated.                     *)

\* Where an invocation is tells what it has done.
Placed ==
  \A g \in Maker :
    /\ g \in creators => place[g] = "create"
    /\ place[g] \in Place \ {"idle", "validate", "check"} => task[g] = "generate"
    /\ place[g] = "patch" => content[Project] # "absent"
    /\ place[g] = "writing" => content[open[g]] # "absent"
    /\ outcome[g] = "ok" =>
         place[g] = "check" /\ todo[g] = {Project} /\ content[Project] # "absent"

\* Nothing is to be written that is not there.
Wanted == \A g \in Maker : \A p \in Path : want[g][p] # "absent"

\* What a validation has found.
Found ==
  \A g \in Maker : place[g] = "check" =>
    /\ \A p \in Path \ ({Project, WidgetTest} \cup todo[g]) : content[p] # "absent"
    /\ \A p \in Copied \ States : want[g][p] = Pinned

HarnessInv ==
  /\ HarnessTypeOK /\ Placed /\ Wanted /\ Found
  /\ ScaffoldCompleteUnlessCut /\ ComparedUnlessRewritten

-----------------------------------------------------------------------------
\* What an invocation expects is there.
LEMMA ExpectedIs ==
  ASSUME HarnessTypeOK
  PROVE  /\ Expected \in [Path -> Content]
         /\ \A p \in Path : Expected[p] # "absent"
         /\ \A p \in Copied : Expected[p] = Pinned
<1>1. \A p \in Rendered : sources[p] \in Version
  BY DEF HarnessTypeOK, Tracked
<1>2. \A v \in Version : v \in Content /\ v # "absent"
  BY VersionAssumption DEF Content
<1>3. "ours" \in Content /\ Pinned \in Version
  BY VersionAssumption DEF Content
<1>4. \A p \in Path : Expected[p] \in Content /\ Expected[p] # "absent"
  BY <1>1, <1>2, <1>3 DEF Expected
<1>5. \A p \in Copied : p \in Path /\ p \notin Rendered
  BY PathAssumption DEF Path, Tracked
<1>6. \A p \in Copied : Expected[p] = Pinned
  BY <1>5 DEF Expected
<1>7. Expected \in [Path -> Content]
  BY <1>4 DEF Expected
<1> QED BY <1>4, <1>6, <1>7

\* How a step of g changes the output.
Writing(g) ==
  \/ content' = content
  \/ \E p \in Path :
       /\ content' = [content EXCEPT ![p] = "torn"]
       /\ place'[g] = "writing" /\ open'[g] = p /\ place[g] \in {"write", "patch"}
       /\ p = Project => place[g] = "patch"
  \/ /\ place[g] = "writing"
     /\ \E c \in {want[g][open[g]], "torn", content[open[g]]} :
          content' = [content EXCEPT ![open[g]] = c]
  \/ /\ g \in creators /\ place' = place
     /\ \/ content' = [content EXCEPT ![Project] = "foreign"]
        \/ rest' = TRUE /\ content' = [content EXCEPT ![WidgetTest] = "foreign"]

\* What opening a file, or leaving it, does.
LEMMA BytesWritten ==
  ASSUME HarnessTypeOK, NEW g \in Maker, NEW p \in Path, NEW d,
         Opens(g, p, d) \/ Leaves(g, p)
  PROVE  /\ UNCHANGED <<task, sources, drift, outcome, rest, creators>>
         /\ \A h \in Maker \ {g} : /\ place'[h] = place[h] /\ want'[h] = want[h]
                                   /\ todo'[h] = todo[h] /\ open'[h] = open[h]
         /\ \/ /\ content' = [content EXCEPT ![p] = "torn"]
               /\ place'[g] = "writing" /\ open'[g] = p /\ todo' = todo
               /\ want'[g] = [want[g] EXCEPT ![p] = d]
               /\ shared' \in SUBSET (shared \cup Maker)
               /\ place' \in [Maker -> Place] /\ open' \in [Maker -> Path]
               /\ want' = [want EXCEPT ![g] = [want[g] EXCEPT ![p] = d]]
            \/ /\ UNCHANGED <<content, place, want, open, shared>>
               /\ todo' = [todo EXCEPT ![g] = todo[g] \ {p}]
<1>1. CASE Opens(g, p, d)
  <2>1. /\ content' = [content EXCEPT ![p] = "torn"]
        /\ open' = [open EXCEPT ![g] = p]
        /\ want' = [want EXCEPT ![g] = [want[g] EXCEPT ![p] = d]]
        /\ place' = [place EXCEPT ![g] = "writing"]
        /\ UNCHANGED <<task, sources, drift, outcome, todo, rest, creators>>
    BY <1>1 DEF Opens, Moves
  <2>2. shared' \in SUBSET (shared \cup Maker)
    BY <1>1 DEF Opens
  <2> QED BY <2>1, <2>2 DEF HarnessTypeOK, Place
<1>2. CASE Leaves(g, p)
  BY <1>2 DEF Leaves, output, HarnessTypeOK
<1> QED BY <1>1, <1>2

\* The three loops that write one file at a time.
Loops(g) == WriteRendered(g) \/ CopyFrozen(g) \/ RewriteWidgetTest(g)

\* Each opens one file to be written, or leaves it.
LEMMA LoopWrites ==
  ASSUME HarnessTypeOK, Wanted, NEW g \in Maker, Loops(g)
  PROVE  /\ place[g] = "write" /\ outcome[g] = "none"
         /\ \E p \in Path \ {Project} : \E d \in Content \ {"absent"} :
              p \in todo[g] /\ (Opens(g, p, d) \/ Leaves(g, p))
<1>1. CASE WriteRendered(g)
  <2>1. PICK p \in todo[g] \cap Rendered : WriteBytes(g, p, want[g][p])
    BY <1>1 DEF WriteRendered
  <2>2. p \in Path \ {Project} /\ want[g][p] \in Content \ {"absent"}
    BY PathAssumption DEF HarnessTypeOK, Wanted, Tracked, Path
  <2> QED BY <1>1, <2>1, <2>2 DEF WriteRendered, InPlace, WriteBytes
<1>2. CASE CopyFrozen(g)
  <2>1. PICK p \in todo[g] \cap Copied : WriteBytes(g, p, sources[p])
    BY <1>2 DEF CopyFrozen
  <2>2. p \in Path \ {Project} /\ sources[p] \in Content \ {"absent"}
    BY PathAssumption, VersionAssumption DEF HarnessTypeOK, Tracked, Path, Content
  <2> QED BY <1>2, <2>1, <2>2 DEF CopyFrozen, InPlace, WriteBytes
<1>3. CASE RewriteWidgetTest(g)
  <2>1. /\ place[g] = "write" /\ outcome[g] = "none" /\ WidgetTest \in todo[g]
        /\ WidgetTest \in Path \ {Project} /\ "ours" \in Content \ {"absent"}
    BY <1>3, PathAssumption DEF RewriteWidgetTest, InPlace, Path, Content
  <2>2. Opens(g, WidgetTest, "ours") \/ Leaves(g, WidgetTest)
    BY <1>3 DEF RewriteWidgetTest, WriteBytes
  <2> QED BY <2>1, <2>2
<1> QED BY <1>1, <1>2, <1>3 DEF Loops

\* A step of g leaves the others where they are, and what is there, there.
LEMMA OthersWait ==
  ASSUME HarnessInv, NEW g \in Maker, MakerStep(g)
  PROVE  /\ UNCHANGED <<task, sources, drift>> /\ (rest => rest')
         /\ creators' \subseteq creators \cup {g} /\ creators \subseteq creators' \cup {g}
         /\ \A h \in Maker \ {g} :
              /\ place'[h] = place[h] /\ outcome'[h] = outcome[h] /\ want'[h] = want[h]
              /\ todo'[h] = todo[h] /\ open'[h] = open[h]
<1>1. HarnessTypeOK /\ Wanted
  BY DEF HarnessInv
<1>2. CASE Loops(g)
  <2>1. PICK p \in Path, d \in Content : Opens(g, p, d) \/ Leaves(g, p)
    BY <1>1, <1>2, LoopWrites
  <2> QED BY <1>1, <2>1, BytesWritten
<1>3. CASE PatchBundleIdentifiers(g)
  <2>1. Project \in Path /\ Opens(g, Project, want[g][Project])
    BY <1>3 DEF PatchBundleIdentifiers, Path
  <2> QED BY <1>1, <2>1, BytesWritten
<1>4. CASE FlutterCreates(g) \/ FlutterSucceeds(g) \/ FlutterFails(g) \/ EnsureIosScaffold(g)
  BY <1>1, <1>4 DEF FlutterCreates, FlutterSucceeds, FlutterFails, EnsureIosScaffold,
    Moves, mine, HarnessTypeOK
<1>5. CASE StartGenerate(g) \/ ReadTemplates(g) \/ WriteEnds(g)
  BY <1>1, <1>5 DEF StartGenerate, ReadTemplates, WriteEnds, Moves, output, HarnessTypeOK
<1>6. CASE ReadProject(g)
  BY <1>1, <1>6 DEF ReadProject, Moves, output, HarnessTypeOK
<1>7. CASE ReadSources(g) \/ Validated(g) \/ MakerStops(g)
  BY <1>1, <1>7 DEF ReadSources, Validated, MakerStops, Moves, output, HarnessTypeOK
<1>8. CASE CompareFile(g)
  BY <1>1, <1>8 DEF CompareFile, output, HarnessTypeOK
<1> QED BY <1>2, <1>3, <1>4, <1>5, <1>6, <1>7, <1>8 DEF MakerStep, Loops

\* How the output changes.
LEMMA MakerWrites ==
  ASSUME HarnessInv, NEW g \in Maker, MakerStep(g)
  PROVE  Writing(g)
<1>1. HarnessTypeOK /\ Wanted
  BY DEF HarnessInv
<1>2. CASE Loops(g)
  <2>1. PICK p \in Path \ {Project}, d \in Content : Opens(g, p, d) \/ Leaves(g, p)
    BY <1>1, <1>2, LoopWrites
  <2>2. place[g] = "write"
    BY <1>1, <1>2, LoopWrites
  <2>3. \/ content' = content
        \/ /\ content' = [content EXCEPT ![p] = "torn"]
           /\ place'[g] = "writing" /\ open'[g] = p
    BY <1>1, <2>1, BytesWritten
  <2> QED BY <2>1, <2>2, <2>3 DEF Writing
<1>3. CASE PatchBundleIdentifiers(g)
  <2>1. Project \in Path /\ Opens(g, Project, want[g][Project]) /\ place[g] = "patch"
    BY <1>3 DEF PatchBundleIdentifiers, Path, InPlace
  <2>2. /\ content' = [content EXCEPT ![Project] = "torn"]
        /\ place'[g] = "writing" /\ open'[g] = Project
    BY <1>1, <2>1 DEF Opens, Moves, HarnessTypeOK
  <2> QED BY <2>1, <2>2 DEF Writing
<1>4. CASE FlutterCreates(g)
  BY <1>4 DEF FlutterCreates, mine, Writing
<1>5. CASE WriteEnds(g)
  BY <1>5 DEF WriteEnds, InPlace, Writing
<1>6. CASE \/ FlutterSucceeds(g) \/ FlutterFails(g) \/ EnsureIosScaffold(g)
           \/ StartGenerate(g) \/ ReadTemplates(g) \/ ReadProject(g)
           \/ ReadSources(g) \/ CompareFile(g) \/ Validated(g) \/ MakerStops(g)
  BY <1>6 DEF FlutterSucceeds, FlutterFails, EnsureIosScaffold, StartGenerate,
    ReadTemplates, ReadProject, ReadSources, CompareFile, Validated, MakerStops,
    output, Writing
<1> QED BY <1>2, <1>3, <1>4, <1>5, <1>6 DEF MakerStep, Loops

\* What is there stays there.
LEMMA StaysThere ==
  ASSUME HarnessInv, [HarnessNext]_harnessVars
  PROVE  /\ content' \in [Path -> Content]
         /\ \A p \in Path : content[p] # "absent" => content'[p] # "absent"
<1>1. HarnessTypeOK /\ Wanted /\ Placed
  BY DEF HarnessInv
<1>2. content \in [Path -> Content] /\ {"torn", "foreign"} \subseteq Content
  BY <1>1 DEF HarnessTypeOK, Content
<1>3. CASE content' = content
  BY <1>2, <1>3
<1>4. ASSUME NEW p \in Path, NEW c \in Content \ {"absent"},
             content' = [content EXCEPT ![p] = c]
      PROVE  /\ content' \in [Path -> Content]
             /\ \A q \in Path : content[q] # "absent" => content'[q] # "absent"
  BY <1>2, <1>4
<1>5. ASSUME NEW g \in Maker, MakerStep(g)
      PROVE  \/ content' = content
             \/ \E p \in Path : \E c \in Content \ {"absent"} :
                  content' = [content EXCEPT ![p] = c]
  <2>1. Writing(g)
    BY <1>5, MakerWrites
  <2>2. {"torn", "foreign"} \subseteq Content \ {"absent"} /\ {Project, WidgetTest} \subseteq Path
    BY <1>2 DEF Path
  <2>3. ASSUME place[g] = "writing"
        PROVE  /\ open[g] \in Path
               /\ {want[g][open[g]], "torn", content[open[g]]} \subseteq Content \ {"absent"}
    BY <1>1, <1>2, <2>3 DEF HarnessTypeOK, Wanted, Placed
  <2> QED BY <2>1, <2>2, <2>3 DEF Writing
<1>6. CASE EditTracked \/ UNCHANGED harnessVars
  BY <1>3, <1>6 DEF EditTracked, output, harnessVars
<1> QED BY <1>3, <1>4, <1>5, <1>6 DEF HarnessNext

-----------------------------------------------------------------------------
\* Placed, of one invocation.
PlacedOne(g) ==
  /\ g \in creators => place[g] = "create"
  /\ place[g] \in Place \ {"idle", "validate", "check"} => task[g] = "generate"
  /\ place[g] = "patch" => content[Project] # "absent"
  /\ place[g] = "writing" => content[open[g]] # "absent"
  /\ outcome[g] = "ok" =>
       place[g] = "check" /\ todo[g] = {Project} /\ content[Project] # "absent"

\* After its own step.
LEMMA OwnPlace ==
  ASSUME HarnessInv, NEW g \in Maker, MakerStep(g)
  PROVE  PlacedOne(g)'
<1>1. HarnessTypeOK /\ Wanted /\ PlacedOne(g)
  BY DEF HarnessInv, Placed, PlacedOne
<1>2. \A p \in Path : content[p] # "absent" => content'[p] # "absent"
  BY StaysThere DEF HarnessNext
<1>3. Project \in Path /\ open[g] \in Path /\ task' = task
  BY <1>1, OthersWait DEF HarnessTypeOK, Path
<1>4. \A s \in Place : Moves(g, s) => place'[g] = s
  BY <1>1 DEF HarnessTypeOK, Moves
<1>5. {"idle", "scaffold", "create", "render", "write", "writing", "patch", "check"}
         \subseteq Place
  BY DEF Place
<1>6. ASSUME NEW p \in Path, NEW d, Opens(g, p, d) \/ Leaves(g, p),
             place[g] \in {"write", "patch"}, outcome[g] = "none"
      PROVE  PlacedOne(g)'
  <2>1. creators' = creators /\ outcome'[g] = "none" /\ task[g] = "generate" /\ g \notin creators
    BY <1>1, <1>5, <1>6, BytesWritten DEF PlacedOne
  <2>2. CASE content' = [content EXCEPT ![p] = "torn"] /\ place'[g] = "writing" /\ open'[g] = p
    <3>1. content'[open'[g]] = "torn"
      BY <1>1, <2>2 DEF HarnessTypeOK
    <3> QED BY <1>3, <2>1, <2>2, <3>1 DEF PlacedOne
  <2>3. CASE content' = content /\ place' = place
    BY <1>1, <1>3, <1>6, <2>1, <2>3 DEF PlacedOne
  <2> QED BY <1>1, <1>6, <2>2, <2>3, BytesWritten
<1>7. CASE Loops(g)
  BY <1>1, <1>6, <1>7, LoopWrites
<1>8. CASE PatchBundleIdentifiers(g)
  BY <1>3, <1>6, <1>8 DEF PatchBundleIdentifiers, InPlace
<1>9. CASE FlutterCreates(g)
  <2>1. g \in creators /\ UNCHANGED <<place, outcome, todo, open, creators>>
    BY <1>9 DEF FlutterCreates, mine
  <2> QED BY <1>1, <1>2, <1>3, <2>1 DEF PlacedOne
<1>10. CASE FlutterSucceeds(g) \/ FlutterFails(g)
  <2>1. place[g] = "create" /\ outcome[g] # "ok"
    BY <1>1, <1>10 DEF FlutterSucceeds, FlutterFails, PlacedOne
  <2>2. g \notin creators' /\ outcome'[g] # "ok"
    BY <1>1, <1>10, <2>1 DEF FlutterSucceeds, FlutterFails, HarnessTypeOK
  <2>3. Moves(g, "render") \/ UNCHANGED place
    BY <1>10 DEF FlutterSucceeds, FlutterFails
  <2>4. place'[g] \in {"render", "create"}
    BY <1>4, <1>5, <2>1, <2>3
  <2> QED BY <1>1, <1>3, <1>5, <2>1, <2>2, <2>4 DEF PlacedOne
<1>11. CASE EnsureIosScaffold(g) \/ StartGenerate(g)
  <2>1. /\ Moves(g, "scaffold") \/ Moves(g, "render") \/ Moves(g, "create")
        /\ outcome' = outcome /\ outcome[g] = "none" /\ place[g] \in {"idle", "scaffold"}
        /\ place[g] = "idle" => task[g] = "generate"
    BY <1>11 DEF EnsureIosScaffold, StartGenerate, InPlace
  <2>2. g \in creators' => place'[g] = "create"
    BY <1>1, <1>4, <1>5, <1>11, <2>1 DEF EnsureIosScaffold, StartGenerate, PlacedOne, output
  <2>3. place'[g] \in {"scaffold", "render", "create"}
    BY <1>4, <1>5, <2>1
  <2> QED BY <1>1, <1>3, <1>5, <2>1, <2>2, <2>3 DEF PlacedOne
<1>12. CASE ReadTemplates(g) \/ WriteEnds(g)
  <2>1. /\ Moves(g, "write") /\ outcome' = outcome /\ outcome[g] = "none"
        /\ place[g] \in {"render", "writing"} /\ creators' = creators
    BY <1>12 DEF ReadTemplates, WriteEnds, InPlace, output
  <2>2. place'[g] = "write"
    BY <1>4, <1>5, <2>1
  <2> QED BY <1>1, <1>3, <1>5, <2>1, <2>2 DEF PlacedOne
<1>13. CASE ReadProject(g)
  <2>1. /\ Moves(g, "patch") /\ outcome' = outcome /\ outcome[g] = "none"
        /\ place[g] = "write" /\ creators' = creators /\ content' = content
        /\ content[Project] # "absent"
    BY <1>13 DEF ReadProject, InPlace, output
  <2>2. place'[g] = "patch"
    BY <1>4, <1>5, <2>1
  <2> QED BY <1>1, <1>3, <1>5, <2>1, <2>2 DEF PlacedOne
<1>14. CASE ReadSources(g)
  <2>1. /\ Moves(g, "check") /\ outcome' = outcome /\ outcome[g] = "none"
        /\ place[g] \in {"idle", "write"} /\ creators' = creators
    BY <1>14 DEF ReadSources, InPlace, output
  <2>2. place'[g] = "check"
    BY <1>4, <1>5, <2>1
  <2> QED BY <1>1, <1>3, <1>5, <2>1, <2>2 DEF PlacedOne
<1>15. CASE CompareFile(g)
  <2>1. UNCHANGED <<place, outcome, open, creators, content>> /\ outcome[g] = "none"
    BY <1>15 DEF CompareFile, InPlace, output
  <2> QED BY <1>1, <1>3, <2>1 DEF PlacedOne
<1>16. CASE Validated(g)
  <2>1. /\ UNCHANGED <<place, open, creators, content, todo>>
        /\ place[g] = "check" /\ todo[g] = {Project} /\ content[Project] # "absent"
    BY <1>16 DEF Validated, InPlace, output
  <2> QED BY <1>1, <1>3, <2>1 DEF PlacedOne
<1>17. CASE MakerStops(g)
  <2>1. UNCHANGED <<place, open, creators, content, todo>> /\ outcome'[g] = "failed"
    BY <1>1, <1>17 DEF MakerStops, output, HarnessTypeOK
  <2> QED BY <1>1, <1>3, <2>1 DEF PlacedOne
<1> QED BY <1>7, <1>8, <1>9, <1>10, <1>11, <1>12, <1>13, <1>14, <1>15, <1>16, <1>17
  DEF MakerStep, Loops

\* Every invocation is where its files are, after any step.
LEMMA PlacedStep ==
  ASSUME HarnessInv, [HarnessNext]_harnessVars
  PROVE  Placed'
<1> SUFFICES ASSUME NEW h \in Maker PROVE PlacedOne(h)'
  BY DEF Placed, PlacedOne
<1>1. HarnessTypeOK /\ PlacedOne(h)
  BY DEF HarnessInv, Placed, PlacedOne
<1>2. CASE EditTracked \/ UNCHANGED harnessVars
  BY <1>1, <1>2 DEF EditTracked, harnessVars, mine, output, PlacedOne
<1>3. ASSUME NEW g \in Maker, MakerStep(g), g # h
      PROVE  PlacedOne(h)'
  <2>1. \A p \in Path : content[p] # "absent" => content'[p] # "absent"
    BY <1>3, StaysThere DEF HarnessNext
  <2>2. /\ place'[h] = place[h] /\ outcome'[h] = outcome[h]
        /\ todo'[h] = todo[h] /\ open'[h] = open[h] /\ task' = task
        /\ h \in creators' => h \in creators
    BY <1>3, OthersWait
  <2>3. Project \in Path /\ open[h] \in Path
    BY <1>1 DEF HarnessTypeOK, Path
  <2> QED BY <1>1, <2>1, <2>2, <2>3 DEF PlacedOne
<1> QED BY <1>2, <1>3, OwnPlace DEF HarnessNext

-----------------------------------------------------------------------------
\* What is wanted has its type and is there.
LEMMA WantedStep ==
  ASSUME HarnessInv, [HarnessNext]_harnessVars
  PROVE  want' \in [Maker -> [Path -> Content]] /\ Wanted'
<1> DEFINE There == Content \ {"absent"}
<1>1. HarnessTypeOK /\ Wanted
  BY DEF HarnessInv
<1>2. want \in [Maker -> [Path -> There]]
  BY <1>1 DEF HarnessTypeOK, Wanted
<1>3. SUFFICES want' \in [Maker -> [Path -> There]]
  BY DEF Wanted
<1>4. ASSUME NEW g \in Maker, NEW p \in Path, NEW d \in There,
             want' = [want EXCEPT ![g] = [want[g] EXCEPT ![p] = d]]
      PROVE  want' \in [Maker -> [Path -> There]]
  BY <1>2, <1>4
<1>5. CASE want' = want
  BY <1>2, <1>5
<1>6. ASSUME NEW g \in Maker, Loops(g)
      PROVE  want' \in [Maker -> [Path -> There]]
  <2>1. PICK p \in Path, d \in There : Opens(g, p, d) \/ Leaves(g, p)
    BY <1>1, <1>6, LoopWrites
  <2>2. want' = want \/ want' = [want EXCEPT ![g] = [want[g] EXCEPT ![p] = d]]
    BY <2>1 DEF Opens, Leaves
  <2> QED BY <1>4, <1>5, <2>2
<1>7. ASSUME NEW g \in Maker, PatchBundleIdentifiers(g)
      PROVE  want' \in [Maker -> [Path -> There]]
  <2>1. Project \in Path /\ want[g][Project] \in There
    BY <1>2 DEF Path
  <2>2. Opens(g, Project, want[g][Project])
    BY <1>7 DEF PatchBundleIdentifiers
  <2>3. want' = [want EXCEPT ![g] = [want[g] EXCEPT ![Project] = want[g][Project]]]
    BY <2>2 DEF Opens
  <2> QED BY <1>4, <2>1, <2>3
<1>8. ASSUME NEW g \in Maker, ReadTemplates(g) \/ ReadSources(g)
      PROVE  want' \in [Maker -> [Path -> There]]
  <2>1. Expected \in [Path -> There]
    BY <1>1, ExpectedIs
  <2>2. want' = [want EXCEPT ![g] = Expected]
    BY <1>8 DEF ReadTemplates, ReadSources
  <2> QED BY <1>2, <2>1, <2>2
<1>9. ASSUME NEW g \in Maker, ReadProject(g)
      PROVE  want' \in [Maker -> [Path -> There]]
  <2>1. PICK d \in {"ours", "short"} : want' = [want EXCEPT ![g] = [want[g] EXCEPT ![Project] = d]]
    BY <1>9 DEF ReadProject
  <2>2. d \in There /\ Project \in Path
    BY <2>1 DEF Content, Path
  <2> QED BY <1>4, <2>1, <2>2
<1>10. ASSUME NEW g \in Maker, CompareFile(g)
       PROVE  want' \in [Maker -> [Path -> There]]
  <2>1. PICK p \in todo[g] \ {Project} :
           /\ content[p] = IF p \in States THEN sources[p] ELSE want[g][p]
           /\ want' = [want EXCEPT ![g] = [want[g] EXCEPT ![p] = content[p]]]
    BY <1>10 DEF CompareFile
  <2>2. p \in Path
    BY <1>1, <2>1 DEF HarnessTypeOK
  <2>3. p \in States => sources[p] \in Version
    BY <1>1, <2>1, PathAssumption DEF HarnessTypeOK, Tracked
  <2>4. content[p] \in There
    BY <1>2, <2>1, <2>2, <2>3, VersionAssumption DEF Content
  <2> QED BY <1>4, <2>1, <2>2, <2>4
<1>11. ASSUME NEW g \in Maker,
              \/ StartGenerate(g) \/ EnsureIosScaffold(g) \/ FlutterCreates(g)
              \/ FlutterSucceeds(g) \/ FlutterFails(g) \/ WriteEnds(g)
              \/ Validated(g) \/ MakerStops(g)
       PROVE  want' = want
  BY <1>11 DEF StartGenerate, EnsureIosScaffold, FlutterCreates, FlutterSucceeds,
    FlutterFails, WriteEnds, Validated, MakerStops, mine
<1>12. CASE EditTracked \/ UNCHANGED harnessVars
  BY <1>5, <1>12 DEF EditTracked, harnessVars, mine
<1> HIDE DEF There
<1> QED BY <1>5, <1>6, <1>7, <1>8, <1>9, <1>10, <1>11, <1>12 DEF HarnessNext, MakerStep, Loops

\* Type correctness of the rest, step by step.
LEMMA HarnessTypeStep ==
  ASSUME HarnessInv, [HarnessNext]_harnessVars
  PROVE  HarnessTypeOK'
<1>1. HarnessTypeOK /\ Wanted
  BY DEF HarnessInv
<1>2. want' \in [Maker -> [Path -> Content]] /\ content' \in [Path -> Content]
  BY WantedStep, StaysThere
<1>3. CASE UNCHANGED harnessVars
  BY <1>1, <1>3 DEF harnessVars, mine, output, HarnessTypeOK
<1>4. CASE EditTracked
  BY <1>1, <1>4, DriftAssumption DEF EditTracked, mine, output, HarnessTypeOK
<1>5. ASSUME NEW g \in Maker, MakerStep(g)
      PROVE  HarnessTypeOK'
  <2>1. /\ UNCHANGED <<task, sources, drift>> /\ creators' \subseteq creators \cup {g}
    BY <1>5, OthersWait
  <2>2. SUFFICES /\ place' \in [Maker -> Place] /\ rest' \in BOOLEAN
                 /\ outcome' \in [Maker -> {"none", "ok", "failed"}]
                 /\ todo' \in [Maker -> SUBSET Path] /\ open' \in [Maker -> Path]
                 /\ shared' \in SUBSET Maker
    BY <1>1, <1>2, <2>1 DEF HarnessTypeOK
  <2>3. \A s \in Place : Moves(g, s) => place' \in [Maker -> Place]
    BY <1>1 DEF HarnessTypeOK, Moves
  <2>4. {"idle", "scaffold", "create", "render", "write", "writing", "patch", "check"}
           \subseteq Place
    BY DEF Place
  <2>5. ASSUME NEW p \in Path, NEW d, Opens(g, p, d) \/ Leaves(g, p)
        PROVE  /\ place' \in [Maker -> Place] /\ rest' \in BOOLEAN
               /\ outcome' \in [Maker -> {"none", "ok", "failed"}]
               /\ todo' \in [Maker -> SUBSET Path] /\ open' \in [Maker -> Path]
               /\ shared' \in SUBSET Maker
    <3>1. CASE Opens(g, p, d)
      BY <1>1, <2>3, <2>4, <3>1 DEF Opens, HarnessTypeOK
    <3>2. CASE Leaves(g, p)
      BY <1>1, <3>2 DEF Leaves, output, HarnessTypeOK
    <3> QED BY <2>5, <3>1, <3>2
  <2>6. CASE Loops(g)
    BY <1>1, <2>5, <2>6, LoopWrites
  <2>7. CASE PatchBundleIdentifiers(g)
    BY <2>5, <2>7 DEF PatchBundleIdentifiers, Path
  <2>8. CASE FlutterCreates(g)
    BY <1>1, <2>8 DEF FlutterCreates, mine, HarnessTypeOK
  <2>9. CASE FlutterSucceeds(g) \/ FlutterFails(g)
    BY <1>1, <2>3, <2>4, <2>9 DEF FlutterSucceeds, FlutterFails, HarnessTypeOK
  <2>10. CASE StartGenerate(g) \/ EnsureIosScaffold(g) \/ ReadProject(g)
    BY <1>1, <2>3, <2>4, <2>10 DEF StartGenerate, EnsureIosScaffold, ReadProject, output,
      HarnessTypeOK
  <2>11. CASE ReadTemplates(g) \/ ReadSources(g)
    BY <1>1, <2>3, <2>4, <2>11 DEF ReadTemplates, ReadSources, output, HarnessTypeOK
  <2>12. CASE WriteEnds(g) \/ CompareFile(g)
    BY <1>1, <2>3, <2>4, <2>12 DEF WriteEnds, CompareFile, output, HarnessTypeOK
  <2>13. CASE Validated(g) \/ MakerStops(g)
    BY <1>1, <2>13 DEF Validated, MakerStops, output, HarnessTypeOK
  <2> QED BY <1>5, <2>6, <2>7, <2>8, <2>9, <2>10, <2>11, <2>12, <2>13 DEF MakerStep, Loops
<1> QED BY <1>3, <1>4, <1>5 DEF HarnessNext

-----------------------------------------------------------------------------
\* A flutter create that was waited for has made everything.
LEMMA CreateEnds ==
  ASSUME HarnessInv, NEW g \in Maker, MakerStep(g), place[g] = "create"
  PROVE  place'[g] = "create" \/ rest'
<1>1. HarnessTypeOK /\ Wanted
  BY DEF HarnessInv
<1>2. ~Loops(g)
  BY <1>1, LoopWrites
<1>3. CASE FlutterSucceeds(g)
  BY <1>3 DEF FlutterSucceeds
<1>4. CASE FlutterCreates(g) \/ FlutterFails(g) \/ MakerStops(g)
  BY <1>4 DEF FlutterCreates, FlutterFails, MakerStops, mine
<1> QED BY <1>2, <1>3, <1>4 DEF MakerStep, Loops, StartGenerate, EnsureIosScaffold,
  ReadTemplates, ReadProject, PatchBundleIdentifiers, WriteEnds, ReadSources,
  CompareFile, Validated, InPlace

\* Only a cut flutter create leaves a project without the rest.
LEMMA ScaffoldStep ==
  ASSUME HarnessInv, [HarnessNext]_harnessVars
  PROVE  ScaffoldCompleteUnlessCut'
<1>1. HarnessTypeOK /\ Placed /\ ScaffoldCompleteUnlessCut
  BY DEF HarnessInv
<1>2. CASE EditTracked \/ UNCHANGED harnessVars
  BY <1>1, <1>2 DEF EditTracked, harnessVars, mine, output, ScaffoldCompleteUnlessCut
<1>3. ASSUME NEW g \in Maker, MakerStep(g), content'[Project] # "absent"
      PROVE  rest' \/ \E h \in Maker : place'[h] = "create"
  <2>1. CASE content[Project] # "absent"
    <3>1. rest => rest'
      BY <1>3, OthersWait
    <3>2. ASSUME NEW h \in Maker, place[h] = "create"
          PROVE  rest' \/ place'[h] = "create"
      BY <1>3, <3>2, OthersWait, CreateEnds
    <3> QED BY <1>1, <2>1, <3>1, <3>2 DEF ScaffoldCompleteUnlessCut
  <2>2. CASE content[Project] = "absent"
    <3>1. place[g] # "patch" /\ (place[g] = "writing" => open[g] # Project)
      BY <1>1, <2>2 DEF Placed
    <3>2. Project \in Path /\ WidgetTest \in Path /\ Project # WidgetTest
      BY PathAssumption DEF Path
    <3>3. place[g] = "writing" => open[g] \in Path
      BY <1>1 DEF HarnessTypeOK
    <3>4. g \in creators /\ place' = place
      BY <1>1, <1>3, <2>2, <3>1, <3>2, <3>3, MakerWrites DEF Writing, HarnessTypeOK
    <3> QED BY <1>1, <3>4 DEF Placed
  <2> QED BY <2>1, <2>2
<1> QED BY <1>2, <1>3 DEF HarnessNext, ScaffoldCompleteUnlessCut

\* How a validation goes on.
LEMMA OwnCheck ==
  ASSUME HarnessInv, NEW g \in Maker, MakerStep(g), place'[g] = "check"
  PROVE  \/ /\ want'[g] = Expected /\ todo'[g] = Path \ {WidgetTest}
         \/ /\ place[g] = "check" /\ content' = content
            /\ \/ todo' = todo /\ want' = want
               \/ \E p \in todo[g] \ {Project} :
                    /\ p \in States \/ content[p] = want[g][p]
                    /\ content[p] # "absent"
                    /\ want'[g] = [want[g] EXCEPT ![p] = content[p]]
                    /\ todo'[g] = todo[g] \ {p}
<1>1. HarnessTypeOK /\ Wanted /\ PlacedOne(g)
  BY DEF HarnessInv, Placed, PlacedOne
<1>2. \A s \in Place : Moves(g, s) => place'[g] = s
  BY <1>1 DEF HarnessTypeOK, Moves
<1>3. {"idle", "scaffold", "create", "render", "write", "writing", "patch", "check"}
         \subseteq Place
  BY DEF Place
<1>4. ~Loops(g)
  <2> SUFFICES ASSUME Loops(g) PROVE FALSE
    OBVIOUS
  <2>1. PICK p \in Path, d \in Content : Opens(g, p, d) \/ Leaves(g, p)
    BY <1>1, LoopWrites
  <2>2. place[g] = "write"
    BY <1>1, LoopWrites
  <2> QED BY <1>1, <2>1, <2>2, BytesWritten
<1>5. \A s \in Place \ {"check"} : ~Moves(g, s)
  BY <1>2
<1>6. ~PatchBundleIdentifiers(g)
  BY <1>3, <1>5 DEF PatchBundleIdentifiers, Opens
<1>7. /\ ~StartGenerate(g) /\ ~EnsureIosScaffold(g) /\ ~ReadTemplates(g)
      /\ ~ReadProject(g) /\ ~WriteEnds(g)
  BY <1>3, <1>5 DEF StartGenerate, EnsureIosScaffold, ReadTemplates, ReadProject, WriteEnds
<1>8. ~FlutterCreates(g) /\ ~FlutterSucceeds(g) /\ ~FlutterFails(g)
  <2> SUFFICES ASSUME FlutterCreates(g) \/ FlutterSucceeds(g) \/ FlutterFails(g) PROVE FALSE
    OBVIOUS
  <2>1. place[g] = "create"
    BY <1>1 DEF FlutterCreates, FlutterSucceeds, FlutterFails, PlacedOne
  <2>2. UNCHANGED place
    BY <1>3, <1>5 DEF FlutterCreates, FlutterSucceeds, FlutterFails, mine
  <2> QED BY <2>1, <2>2
<1>9. CASE ReadSources(g)
  BY <1>1, <1>9 DEF ReadSources, HarnessTypeOK
<1>10. CASE CompareFile(g)
  <2>1. PICK p \in todo[g] \ {Project} :
           /\ content[p] = IF p \in States THEN sources[p] ELSE want[g][p]
           /\ want' = [want EXCEPT ![g][p] = content[p]]
           /\ todo' = [todo EXCEPT ![g] = todo[g] \ {p}]
    BY <1>10 DEF CompareFile
  <2>2. place[g] = "check" /\ content' = content
    BY <1>10 DEF CompareFile, InPlace, output
  <2>3. p \in Path /\ (p \in States => sources[p] \in Version)
    BY <1>1, <2>1, PathAssumption DEF HarnessTypeOK, Tracked
  <2>4. content[p] # "absent"
    BY <1>1, <2>1, <2>3, VersionAssumption DEF Wanted
  <2>5. want'[g] = [want[g] EXCEPT ![p] = content[p]] /\ todo'[g] = todo[g] \ {p}
    BY <1>1, <2>1 DEF HarnessTypeOK
  <2> QED BY <2>1, <2>2, <2>4, <2>5
<1>11. CASE Validated(g) \/ MakerStops(g)
  BY <1>11 DEF Validated, MakerStops, output
<1> QED BY <1>4, <1>6, <1>7, <1>8, <1>9, <1>10, <1>11 DEF MakerStep, Loops

\* What a validation has found is there, after any step.
LEMMA FoundStep ==
  ASSUME HarnessInv, [HarnessNext]_harnessVars
  PROVE  Found'
<1> SUFFICES ASSUME NEW h \in Maker, place'[h] = "check"
             PROVE  /\ \A p \in Path \ ({Project, WidgetTest} \cup todo'[h]) : content'[p] # "absent"
                    /\ \A p \in Copied \ States : want'[h][p] = Pinned
  BY DEF Found
<1>1. HarnessTypeOK /\ Found
  BY DEF HarnessInv
<1>2. \A p \in Path : content[p] # "absent" => content'[p] # "absent"
  BY StaysThere
<1>3. CASE EditTracked \/ UNCHANGED harnessVars
  BY <1>1, <1>3 DEF EditTracked, harnessVars, mine, output, Found
<1>4. ASSUME NEW g \in Maker, MakerStep(g), g # h
      PROVE  /\ \A p \in Path \ ({Project, WidgetTest} \cup todo'[h]) : content'[p] # "absent"
             /\ \A p \in Copied \ States : want'[h][p] = Pinned
  <2>1. place'[h] = place[h] /\ todo'[h] = todo[h] /\ want'[h] = want[h]
    BY <1>4, OthersWait
  <2> QED BY <1>1, <1>2, <2>1 DEF Found
<1>5. CASE MakerStep(h)
  <2>1. CASE want'[h] = Expected /\ todo'[h] = Path \ {WidgetTest}
    BY <1>1, <2>1, ExpectedIs
  <2>2. CASE place[h] = "check" /\ content' = content /\ todo' = todo /\ want' = want
    BY <1>1, <2>2 DEF Found
  <2>3. ASSUME place[h] = "check", content' = content, NEW p \in todo[h] \ {Project},
               p \in States \/ content[p] = want[h][p], content[p] # "absent",
               want'[h] = [want[h] EXCEPT ![p] = content[p]],
               todo'[h] = todo[h] \ {p}
        PROVE  /\ \A q \in Path \ ({Project, WidgetTest} \cup todo'[h]) : content'[q] # "absent"
               /\ \A q \in Copied \ States : want'[h][q] = Pinned
    <3>1. \A q \in Path \ ({Project, WidgetTest} \cup todo'[h]) : content'[q] # "absent"
      BY <1>1, <2>3 DEF Found
    <3>2. want[h] \in [Path -> Content] /\ Copied \subseteq Path
      BY <1>1 DEF HarnessTypeOK, Path, Tracked
    <3>3. \A q \in Copied \ States : want'[h][q] = want[h][q]
      BY <2>3, <3>2
    <3> QED BY <1>1, <2>3, <3>1, <3>3 DEF Found
  <2> QED BY <1>5, <2>1, <2>2, <2>3, OwnCheck
<1> QED BY <1>3, <1>4, <1>5 DEF HarnessNext

\* A generator that has passed a file stays past it.
LEMMA PassedStays ==
  ASSUME HarnessInv, NEW g \in Maker, MakerStep(g), NEW h \in Maker, NEW p \in Path,
         Passed(h, p)
  PROVE  Passed(h, p)'
<1>1. HarnessTypeOK /\ Wanted /\ PlacedOne(h)
  BY DEF HarnessInv, Placed, PlacedOne
<1>2. task' = task
  BY OthersWait
<1>3. CASE g # h
  BY <1>2, <1>3, OthersWait DEF Passed, HasOpen
<1>4. CASE g = h
  <2>1. place[h] \in {"write", "writing", "patch", "check"}
    BY DEF Passed, HasOpen
  <2>2. h \notin creators
    BY <1>1, <2>1 DEF PlacedOne
  <2>3. place[h] # "check" => task[h] = "generate"
    BY <1>1, <2>1 DEF PlacedOne, Place
  <2>4. CASE UNCHANGED <<place, todo, open>>
    BY <1>2, <2>4 DEF Passed, HasOpen
  <2>5. CASE place'[h] = "check"
    BY <1>2, <2>1, <2>3, <2>5 DEF Passed, HasOpen
  <2>6. ASSUME NEW q \in Path, NEW d, Opens(h, q, d) \/ Leaves(h, q),
               place[h] \in {"write", "patch"}
        PROVE  Passed(h, p)'
    <3>1. p \notin todo[h]
      BY <2>6 DEF Passed, HasOpen
    <3>2. p \notin todo'[h] /\ place'[h] \in {"write", "patch", "writing"}
      <4>1. CASE Opens(h, q, d)
        BY <1>1, <3>1, <4>1 DEF Opens, Moves, HarnessTypeOK
      <4>2. CASE Leaves(h, q)
        BY <1>1, <2>6, <3>1, <4>2 DEF Leaves, HarnessTypeOK
      <4> QED BY <2>6, <4>1, <4>2
    <3> QED BY <3>2 DEF Passed
  <2>7. CASE Loops(h)
    BY <1>1, <2>6, <2>7, LoopWrites
  <2>8. CASE PatchBundleIdentifiers(h)
    BY <2>6, <2>8 DEF PatchBundleIdentifiers, Path, InPlace
  <2>9. CASE WriteEnds(h)
    <3>1. place[h] = "writing" /\ place'[h] = "write" /\ todo'[h] = todo[h] \ {open[h]}
      BY <1>1, <2>9 DEF WriteEnds, InPlace, Moves, HarnessTypeOK
    <3>2. p \notin todo'[h]
      BY <3>1 DEF Passed, HasOpen
    <3> QED BY <3>1, <3>2 DEF Passed
  <2>10. CASE ReadProject(h)
    <3>1. place[h] = "write" /\ place'[h] = "patch" /\ todo' = todo
      BY <1>1, <2>10 DEF ReadProject, InPlace, Moves, HarnessTypeOK
    <3> QED BY <3>1 DEF Passed, HasOpen
  <2>11. CASE ReadSources(h)
    BY <1>1, <2>5, <2>11 DEF ReadSources, Moves, HarnessTypeOK
  <2>12. CASE CompareFile(h)
    BY <1>1, <2>5, <2>12 DEF CompareFile, InPlace
  <2>13. CASE Validated(h) \/ MakerStops(h)
    BY <2>4, <2>13 DEF Validated, MakerStops
  <2> QED BY <1>4, <2>1, <2>2, <2>7, <2>8, <2>9, <2>10, <2>11, <2>12, <2>13 DEF MakerStep,
        Loops, StartGenerate, EnsureIosScaffold, FlutterCreates, FlutterSucceeds,
        FlutterFails, ReadTemplates, InPlace
<1> QED BY <1>3, <1>4

\* What was compared stays but for the files of other generators.
LEMMA ComparedStep ==
  ASSUME HarnessInv, [HarnessNext]_harnessVars
  PROVE  ComparedUnlessRewritten'
<1> SUFFICES ASSUME NEW h \in Maker, place'[h] = "check",
                    NEW p \in Path \ ({Project, WidgetTest} \cup todo'[h])
             PROVE  \/ content'[p] = want'[h][p]
                    \/ \E g \in Maker \ {h} : Passed(g, p)'
  BY DEF ComparedUnlessRewritten
<1>1. HarnessTypeOK /\ ComparedUnlessRewritten
  BY DEF HarnessInv
<1>2. CASE EditTracked \/ UNCHANGED harnessVars
  BY <1>1, <1>2 DEF EditTracked, harnessVars, mine, output, ComparedUnlessRewritten,
    Passed, HasOpen
<1>3. ASSUME NEW g \in Maker, MakerStep(g), g # h
      PROVE  \/ content'[p] = want'[h][p]
             \/ \E k \in Maker \ {h} : Passed(k, p)'
  <2>1. place'[h] = place[h] /\ todo'[h] = todo[h] /\ want'[h] = want[h]
    BY <1>3, OthersWait
  <2>2. content[p] = want[h][p] \/ \E k \in Maker \ {h} : Passed(k, p)
    BY <1>1, <2>1 DEF ComparedUnlessRewritten
  <2>3. ASSUME NEW k \in Maker \ {h}, Passed(k, p)
        PROVE  Passed(k, p)'
    BY <1>3, <2>3, PassedStays
  <2>4. content'[p] = content[p] \/ Passed(g, p)' \/ Passed(g, p)
    BY <1>1, <1>3, MakerWrites DEF Writing, Passed, HasOpen, HarnessTypeOK
  <2> QED BY <1>3, <2>1, <2>2, <2>3, <2>4
<1>4. CASE MakerStep(h)
  <2>1. CASE todo'[h] = Path \ {WidgetTest}
    BY <2>1
  <2>2. ASSUME place[h] = "check", content' = content, p \notin todo[h], want'[h][p] = want[h][p]
        PROVE  \/ content'[p] = want'[h][p]
               \/ \E g \in Maker \ {h} : Passed(g, p)'
    <3>1. content[p] = want[h][p] \/ \E k \in Maker \ {h} : Passed(k, p)
      BY <1>1, <2>2 DEF ComparedUnlessRewritten
    <3>2. ASSUME NEW k \in Maker \ {h}, Passed(k, p)
          PROVE  Passed(k, p)'
      BY <1>4, <3>2, PassedStays
    <3> QED BY <2>2, <3>1, <3>2
  <2>3. ASSUME place[h] = "check", content' = content, NEW q \in todo[h] \ {Project},
               want'[h] = [want[h] EXCEPT ![q] = content[q]], todo'[h] = todo[h] \ {q}
        PROVE  \/ content'[p] = want'[h][p]
               \/ \E g \in Maker \ {h} : Passed(g, p)'
    <3>1. want[h] \in [Path -> Content]
      BY <1>1 DEF HarnessTypeOK
    <3>2. CASE p = q
      BY <2>3, <3>1, <3>2
    <3>3. CASE p # q
      BY <2>2, <2>3, <3>1, <3>3
    <3> QED BY <3>2, <3>3
  <2> QED BY <1>4, <2>1, <2>2, <2>3, OwnCheck
<1> QED BY <1>2, <1>3, <1>4 DEF HarnessNext

-----------------------------------------------------------------------------
\* Nothing is there at first.
LEMMA HarnessInvInit ==
  ASSUME HarnessInit
  PROVE  HarnessInv
<1>1. \A g \in Maker : place[g] = "idle" /\ outcome[g] = "none"
  BY DEF HarnessInit
<1>2. HarnessTypeOK
  BY DEF HarnessInit, HarnessTypeOK, Place, Content, Path
<1>3. Placed /\ Wanted /\ Found
  BY <1>1 DEF HarnessInit, Placed, Wanted, Found
<1>4. ScaffoldCompleteUnlessCut
  BY DEF HarnessInit, ScaffoldCompleteUnlessCut, Path
<1>5. ComparedUnlessRewritten
  BY <1>1 DEF ComparedUnlessRewritten
<1> QED BY <1>2, <1>3, <1>4, <1>5 DEF HarnessInv

\* However generators and validators of one output overlap, are cut and race
\* with edits of the sources, OK means that nothing is missing and nothing
\* differs but by what other generators do.
THEOREM HarnessValidated == HarnessSpec => []HarnessIsValidated
<1>1. HarnessInit => HarnessInv
  BY HarnessInvInit
<1>2. HarnessInv /\ [HarnessNext]_harnessVars => HarnessInv'
  BY HarnessTypeStep, PlacedStep, WantedStep, FoundStep, ScaffoldStep, ComparedStep
  DEF HarnessInv
<1>3. HarnessInv => HarnessIsValidated
  <2> SUFFICES ASSUME HarnessInv PROVE HarnessIsValidated
    OBVIOUS
  <2>1. ASSUME NEW g \in Maker, outcome[g] = "ok"
        PROVE  /\ \A p \in Path \ {WidgetTest} : content[p] # "absent"
               /\ \A p \in Copied \ States : want[g][p] = Pinned
    <3>1. place[g] = "check" /\ todo[g] = {Project} /\ content[Project] # "absent"
      BY <2>1 DEF HarnessInv, Placed
    <3> QED BY <3>1 DEF HarnessInv, Found
  <2> QED BY <2>1 DEF HarnessInv, HarnessIsValidated
<1> QED BY <1>1, <1>2, <1>3, PTL DEF HarnessSpec

=============================================================================
