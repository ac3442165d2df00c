--------------------------- MODULE EvidenceLedger ---------------------------
(***************************************************************************)
(* What the capture recorder promises of a run root: a ledger.  A model is *)
(* entered at most once, with the sources and the Simulator it was made    *)
(* from; the ledger is sealed when the entries of all models agree, and    *)
(* neither an entry nor the seal ever changes.  There are no files, no     *)
(* processes and no checks here.                                           *)
(***************************************************************************)
CONSTANTS Model, Source, Device, None

VARIABLES entry, seal
ledger == <<entry, seal>>

Entries == [source : Source, phone : Device]

LedgerInit ==
  /\ entry = [m \in Model |-> None]
  /\ seal = None

(* Any entry of the Simulator of those that are there. *)
Enter(m) ==
  LET e == entry'[m] IN
  /\ entry[m] = None /\ e \in Entries
  /\ \A n \in Model : entry[n] # None => entry[n].phone = e.phone
  /\ entry' = [entry EXCEPT ![m] = e]
  /\ UNCHANGED seal

Seal ==
  /\ seal = None /\ seal' \in Entries
  /\ \A m \in Model : entry[m] = seal'
  /\ UNCHANGED entry

LedgerNext == Seal \/ \E m \in Model : Enter(m)

LedgerSpec == LedgerInit /\ [][LedgerNext]_ledger
=============================================================================
