------------------------------ MODULE MCRunGate ------------------------------
(* Instances of RunGate for TLC. *)
EXTENDS RunGateInv, TLC

CONSTANTS b1, b2, p1, p2, t1, t2, s1

Callers == Boots \cup Pollers \cup Testers

(* p1 and p2 carry processors 1 and 2; t1 and t2 are test lanes 0 and 1.   *)
TwoLanes ==
  [t \in Callers |-> IF t \in {p1, t2} THEN 1 ELSE IF t = p2 THEN 2 ELSE 0]

(* p1 and p2, of two daemons, ask for the same processor. *)
SameLane == [t \in Callers |-> IF t \in {p1, p2, t2} THEN 1 ELSE 0]

(* Two KBOOT callers are alike. *)
BootsAlike == Permutations({b1, b2})

TwoCores == 0..1
ThreeCores == 0..2
TestCores == [v \in Slots |-> v]
=============================================================================
