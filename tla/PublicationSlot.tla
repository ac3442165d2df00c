--------------------------- MODULE PublicationSlot ---------------------------
(***************************************************************************)
(* What the viewer promises about loading models, with none of the         *)
(* machinery that keeps the promise.  The viewer is one slot.  A load      *)
(* takes the slot over when it starts; only the load that holds the slot   *)
(* and was not cancelled may commit its scene, and from its commit until   *)
(* it settles nobody else can take the slot.                               *)
(***************************************************************************)

CONSTANTS Loads,    \* the load calls
          NoLoad    \* "no load yet"

VARIABLES phase,      \* how far each load got
          holder,     \* the load that holds the slot
          shown,      \* the load whose scene the viewer draws
          withdrawn   \* the loads whose caller cancelled them

slotVars == <<phase, holder, shown, withdrawn>>

SlotInit ==
  /\ phase = [l \in Loads |-> "idle"]
  /\ holder = NoLoad
  /\ shown = NoLoad
  /\ withdrawn = {}

\* A load takes the slot over, unless a committed load has yet to settle.
Start(l) ==
  /\ phase[l] = "idle"
  /\ \A m \in Loads : phase[m] # "committed"
  /\ phase' = [phase EXCEPT ![l] = "pending"]
  /\ holder' = l
  /\ UNCHANGED <<shown, withdrawn>>

\* The scene of the slot's holder replaces the one that is shown.
Commit(l) ==
  /\ phase[l] = "pending"
  /\ holder = l
  /\ l \notin withdrawn
  /\ phase' = [phase EXCEPT ![l] = "committed"]
  /\ shown' = l
  /\ UNCHANGED <<holder, withdrawn>>

\* A committed load settles; it still holds the slot and is the one shown.
Settle(l) ==
  /\ phase[l] = "committed"
  /\ holder = l
  /\ shown = l
  /\ l \notin withdrawn
  /\ phase' = [phase EXCEPT ![l] = "settled"]
  /\ UNCHANGED <<holder, shown, withdrawn>>

\* A load ends without ever having committed.
Drop(l) ==
  /\ phase[l] \in {"idle", "pending"}
  /\ phase' = [phase EXCEPT ![l] = "dropped"]
  /\ UNCHANGED <<holder, shown, withdrawn>>

\* Callers cancel a set of loads; none of them has committed.
Withdraw ==
  /\ \E W \in SUBSET {l \in Loads : phase[l] \notin {"committed", "settled"}} :
       withdrawn' = withdrawn \cup W
  /\ UNCHANGED <<phase, holder, shown>>

SlotNext ==
  \/ \E l \in Loads : Start(l) \/ Commit(l) \/ Settle(l) \/ Drop(l)
  \/ Withdraw

SlotSpec == SlotInit /\ [][SlotNext]_slotVars
=============================================================================
