--------------------------- MODULE FixtureStaging ---------------------------
(***************************************************************************)
(* Staging fixtures outside git, tools/stage_material_extension_fixtures.py. *)
(* An invocation verifies the records of the manifest, then reads or       *)
(* downloads one fixture at a time, verifies its bytes and moves each file *)
(* into place from a `.name.partial` beside it.  Two invocations that      *)
(* stage the same corpus use the same partial files.                       *)
(*                                                                         *)
(* The bytes of a name are pinned by a hash, so what two stagers write     *)
(* under it is the same.  A file (an inode) is named after the stager that *)
(* created it, and is torn from the truncation of an open to the end of    *)
(* the write.                                                              *)
(***************************************************************************)
EXTENDS Naturals, Sequences

CONSTANTS
  Stager,  \* the invocations of the tool: a bound on their number
  Name,    \* the files that are staged
  Order,   \* Order[j]: the files job j stages, as it writes them
  First,   \* those with which a fixture begins, and the derived pack
  Pack,    \* the derived pack of sheen_cloth
  Nobody   \* the creator of a file that does not exist

Job == {"none", "verify", "khronos", "clearcoat", "sheen", "a1b32"}
Corpus == {"provenance", "clearcoat", "sheen"}

ASSUME OrderAssumption ==
  /\ Order \in [Job -> Seq(Name)]
  /\ \A j, k \in Job : \A a \in 1..Len(Order[j]), b \in 1..Len(Order[k]) :
       Order[j][a] = Order[k][b] => j = k /\ a = b
ASSUME NobodyAssumption == Nobody \notin Stager

VARIABLES
  job,     \* the option each stager was given
  sound,   \* the parts of the manifest that pass their verification
  stage,   \* where each stager is; it stays there when it is stopped
  result,  \* how it ended
  at,      \* how many files it has moved into place
  hand,    \* the file it has open, or had open last
  dotPartial, \* .name.partial
  final,   \* name
  torn,    \* the files whose bytes are not all there
  spoiled  \* stagers whose open file was truncated by another since

files == <<dotPartial, final, torn, spoiled, hand>>
stagingVars == <<job, sound, stage, result, at, files>>

Stage == {"idle", "clearcoat", "sheen", "next", "open", "write", "replace"}

StagingTypeOK ==
  /\ job \in [Stager -> Job]
  /\ sound \in SUBSET Corpus
  /\ stage \in [Stager -> Stage]
  /\ result \in [Stager -> {"none", "ok", "failed"}]
  /\ at \in [Stager -> Nat]
  /\ hand \in [Stager -> Stager \cup {Nobody}]
  /\ dotPartial \in [Name -> Stager \cup {Nobody}]
  /\ final \in [Name -> Stager \cup {Nobody}]
  /\ torn \in SUBSET (Name \X Stager)
  /\ spoiled \in SUBSET Stager

StagingInit ==
  /\ job \in [Stager -> Job]
  /\ sound \in SUBSET Corpus
  /\ stage = [s \in Stager |-> "idle"]
  /\ result = [s \in Stager |-> "none"]
  /\ at = [s \in Stager |-> 0]
  /\ hand = [s \in Stager |-> Nobody]
  /\ dotPartial = [n \in Name |-> Nobody]
  /\ final = [n \in Name |-> Nobody]
  /\ torn = {}
  /\ spoiled = {}

-----------------------------------------------------------------------------

At(s, g) == result[s] = "none" /\ stage[s] = g
To(s, g) == stage' = [stage EXCEPT ![s] = g]

Left(s) == at[s] < Len(Order[job[s]])
Current(s) == Order[job[s]][at[s] + 1]

(* s has name n open as file i, or was stopped while it had. *)
Writes(s, n, i) == stage[s] = "write" /\ Left(s) /\ Current(s) = n /\ hand[s] = i

(* Provenance is verified whatever the option. *)
VerifyMetadata(s) ==
  /\ At(s, "idle") /\ job[s] # "none"
  /\ "provenance" \in sound
  /\ \/ job[s] \in {"verify", "clearcoat"} /\ To(s, "clearcoat")
     \/ job[s] = "sheen" /\ To(s, "sheen")
     \/ job[s] \in {"khronos", "a1b32"} /\ To(s, "next")
  /\ UNCHANGED <<job, sound, result, at, files>>

VerifyClearcoatMetadata(s) ==
  /\ At(s, "clearcoat")
  /\ "clearcoat" \in sound
  /\ To(s, IF job[s] = "verify" THEN "sheen" ELSE "next")
  /\ UNCHANGED <<job, sound, result, at, files>>

VerifySheenMetadata(s) ==
  /\ At(s, "sheen")
  /\ "sheen" \in sound
  /\ To(s, "next")
  /\ UNCHANGED <<job, sound, result, at, files>>

(* The bytes of a fixture are in memory and match their records. *)
Obtains(s) ==
  /\ At(s, "next") /\ Left(s) /\ Current(s) \in First
  /\ To(s, "open")
  /\ UNCHANGED <<job, sound, result, at, files>>

FetchKhronos(s) == job[s] = "khronos" /\ Obtains(s)

FetchClearcoat(s) == job[s] = "clearcoat" /\ Obtains(s)

(* The sources and the license, from the network or a local directory. *)
ReadSheenFixture(s) == job[s] = "sheen" /\ Obtains(s) /\ Current(s) \notin Pack

(* Packed from the sources in memory, after they were written. *)
PackSheenCloth(s) == job[s] = "sheen" /\ Obtains(s) /\ Current(s) \in Pack

ReadA1b32(s) == job[s] = "a1b32" /\ Obtains(s)

\* Seeded bug: it is moved before its bytes are written.
OpenPartialToMove(s) ==
  LET n == Current(s)
      i == IF dotPartial[n] = Nobody THEN s ELSE dotPartial[n]
  IN
  /\ At(s, "open") \/ (At(s, "next") /\ Left(s) /\ n \notin First)
  /\ dotPartial' = [dotPartial EXCEPT ![n] = i]
  /\ hand' = [hand EXCEPT ![s] = i]
  /\ torn' = torn \cup {<<n, i>>}
  /\ spoiled' = (spoiled \cup {t \in Stager : Writes(t, n, i)}) \ {s}
  /\ To(s, "replace")
  /\ UNCHANGED <<job, sound, result, at, final>>

(* The partial is opened, created or truncated. *)
OpenPartial(s) ==
  LET n == Current(s)
      i == IF dotPartial[n] = Nobody THEN s ELSE dotPartial[n]
  IN
  /\ At(s, "open") \/ (At(s, "next") /\ Left(s) /\ n \notin First)
  /\ dotPartial' = [dotPartial EXCEPT ![n] = i]
  /\ hand' = [hand EXCEPT ![s] = i]
  /\ torn' = torn \cup {<<n, i>>}
  /\ spoiled' = (spoiled \cup {t \in Stager : Writes(t, n, i)}) \ {s}
  /\ To(s, "write")
  /\ UNCHANGED <<job, sound, result, at, final>>

(* Truncated under the writer, the file has a hole where its bytes were,   *)
(* unless it was truncated before the first of them.                       *)
WritePartial(s) ==
  /\ At(s, "write")
  /\ \/ torn' = torn \ {<<Current(s), hand[s]>>}
     \/ s \in spoiled /\ UNCHANGED torn
  /\ To(s, "replace")
  /\ UNCHANGED <<job, sound, result, at, dotPartial, final, spoiled, hand>>

(* Whatever file has the name of the partial by now is moved. *)
ReplaceFinal(s) ==
  LET n == Current(s) IN
  /\ At(s, "replace")
  /\ dotPartial[n] # Nobody
  /\ final' = [final EXCEPT ![n] = dotPartial[n]]
  /\ dotPartial' = [dotPartial EXCEPT ![n] = Nobody]
  /\ at' = [at EXCEPT ![s] = @ + 1]
  /\ To(s, "next")
  /\ UNCHANGED <<job, sound, result, torn, spoiled, hand>>

Staged(s) ==
  /\ At(s, "next") /\ ~Left(s)
  /\ result' = [result EXCEPT ![s] = "ok"]
  /\ UNCHANGED <<job, sound, stage, at, files>>

(* A check or an OSError, which is what os.replace raises when the partial *)
(* was moved by another; or the stager is killed.                          *)
StagerStops(s) ==
  /\ result[s] = "none" /\ job[s] # "none"
  /\ result' = [result EXCEPT ![s] = "failed"]
  /\ UNCHANGED <<job, sound, stage, at, files>>

StagerStep(s) ==
  \/ VerifyMetadata(s) \/ VerifyClearcoatMetadata(s) \/ VerifySheenMetadata(s)
  \/ FetchKhronos(s) \/ FetchClearcoat(s) \/ ReadSheenFixture(s)
  \/ PackSheenCloth(s) \/ ReadA1b32(s)
  \/ OpenPartial(s) \/ WritePartial(s) \/ ReplaceFinal(s)
  \/ Staged(s) \/ StagerStops(s)

StagingNext == \E s \in Stager : StagerStep(s)

StagingSpec == StagingInit /\ [][StagingNext]_stagingVars

-----------------------------------------------------------------------------
(* A staged file is torn only while, or because, another stager that has   *)
(* it open is between the truncation and the end of its write.             *)
TornOnlyWhileWritten ==
  \A n \in Name, i \in Stager :
    <<n, i>> \in torn => \E s \in Stager : Writes(s, n, i)

(* What a job stages, it stages in order: no pack without the sources and  *)
(* the license it comes from, no fixture before those that precede it.     *)
StagedInOrder ==
  \A j \in Job : \A a, b \in 1..Len(Order[j]) :
    a < b /\ final[Order[j][b]] # Nobody => final[Order[j][a]] # Nobody

(* A stager that prints OK has put every file of its job in place, and no  *)
(* file is ever staged from records that do not pass their verification.   *)
OKMeansStaged ==
  \A s \in Stager : result[s] = "ok" =>
    /\ "provenance" \in sound
    /\ job[s] \in Corpus => job[s] \in sound
    /\ \A a \in 1..Len(Order[job[s]]) : final[Order[job[s]][a]] # Nobody

(* What the staging tool promises of the files it leaves behind, whichever *)
(* stagers of one corpus overlap and stop (_write_atomic, 486-490).        *)
StagedFilesAreWhole == TornOnlyWhileWritten /\ StagedInOrder /\ OKMeansStaged
=============================================================================
