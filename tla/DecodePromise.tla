---------------------------- MODULE DecodePromise ----------------------------
(***************************************************************************)
(* What a decoder plugin promises of each decodeGlb call, without queue,   *)
(* workers or registry: one answer; a value only if no cancelDecode was    *)
(* acknowledged; "cancelled" only if one was; nothing to a request that    *)
(* was pending when the plugin closed.                                     *)
(***************************************************************************)
CONSTANTS Requests

VARIABLES request,   \* what became of each request
          closed     \* the plugin has begun to detach
vars == <<request, closed>>

Become(r, from, to) ==
  request[r] \in from /\ request' = [request EXCEPT ![r] = to]

Init == request = [r \in Requests |-> "unsent"] /\ closed = FALSE

Admit(r) == ~closed /\ Become(r, {"unsent"}, "pending") /\ UNCHANGED closed

\* A request that is not admitted is told so, even after the close.
Refuse(r) == Become(r, {"unsent"}, "error") /\ UNCHANGED closed

Revoke(r) == ~closed /\ Become(r, {"pending"}, "revoked") /\ UNCHANGED closed

Succeed(r) == ~closed /\ Become(r, {"pending"}, "value") /\ UNCHANGED closed

Fail(r) ==
  ~closed /\ Become(r, {"pending", "revoked"}, "error") /\ UNCHANGED closed

Cancel(r) == ~closed /\ Become(r, {"revoked"}, "cancelled") /\ UNCHANGED closed

Close ==
  /\ ~closed
  /\ closed' = TRUE
  /\ request' = [r \in Requests |->
                   IF request[r] \in {"pending", "revoked"} THEN "dropped"
                   ELSE request[r]]

Next ==
  \/ Close
  \/ \E r \in Requests : Admit(r) \/ Refuse(r) \/ Revoke(r) \/ Succeed(r)
                           \/ Fail(r) \/ Cancel(r)

Spec == Init /\ [][Next]_vars
=============================================================================
