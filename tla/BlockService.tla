---------------------------- MODULE BlockService ----------------------------
(***************************************************************************)
(* What the cooperative block device promises the guest's block layer: a   *)
(* request in flight is transferred once, and ended once, after its        *)
(* transfer, with the transfer's own result.                               *)
(***************************************************************************)
CONSTANT Requests

VARIABLES phase,    \* "free", "inflight", or the result of its transfer
          answer    \* the status the block layer was last given

vars == <<phase, answer>>
Results == {"ok", "err"}

Init ==
  /\ phase = [r \in Requests |-> "free"]
  /\ answer = [r \in Requests |-> "none"]

Issue(r) ==
  /\ phase[r] = "free"
  /\ phase' = [phase EXCEPT ![r] = "inflight"]
  /\ UNCHANGED answer

Transfer(r) ==
  /\ phase[r] = "inflight"
  /\ \E res \in Results : phase' = [phase EXCEPT ![r] = res]
  /\ UNCHANGED answer

End(r) ==
  /\ phase[r] \in Results
  /\ answer' = [answer EXCEPT ![r] = phase[r]]
  /\ phase' = [phase EXCEPT ![r] = "free"]

Next == \E r \in Requests : Issue(r) \/ Transfer(r) \/ End(r)

Spec == Init /\ [][Next]_vars
=============================================================================
