-------------------------- MODULE WorkingByteLedger --------------------------
(***************************************************************************)
(* What the control of a native decode promises of its working bytes, as   *)
(* if every operation were atomic: reservations are granted while the      *)
(* decode has no reason to stop and all of them fit, they are returned one *)
(* by one, and the first reason to stop is the reason for good.            *)
(***************************************************************************)
EXTENDS Naturals, FiniteSets

CONSTANTS Limit,         \* the working bytes of one decode
          Reservations,  \* what may be reserved: an id and a number of bytes
          Reasons        \* why a decode stops

VARIABLES granted,   \* the reservations that hold their bytes
          reason     \* "none" or why the decode stopped
vars == <<granted, reason>>

\* The bytes of some reservations, each byte told apart.
Bytes(reservations) == UNION {{r.id} \X (1..r.bytes) : r \in reservations}

Init == granted = {} /\ reason = "none"

Grant(r) ==
  /\ reason = "none"
  /\ \A g \in granted : g.id # r.id
  /\ granted' = granted \cup {r}
  /\ Cardinality(Bytes(granted')) <= Limit
  /\ UNCHANGED reason

Return(r) == r \in granted /\ granted' = granted \ {r} /\ UNCHANGED reason

Stop(why) == reason = "none" /\ reason' = why /\ UNCHANGED granted

Next ==
  \/ \E r \in Reservations : Grant(r)
  \/ \E r \in granted : Return(r)
  \/ \E why \in Reasons : Stop(why)

Spec == Init /\ [][Next]_vars
=============================================================================
