----------------------------- MODULE MCProcessors -----------------------------
(***************************************************************************)
(* What a run of the guest must bring about, for TLC: the time of one      *)
(* processor of VcpuClock and the run gate of RunGate.  The two share no   *)
(* state; focus, chosen at the start, says which of them a behaviour is    *)
(* about, and the other stays as it began.  In RunGate's initial state     *)
(* none of its fair actions is enabled, so its fairness needs no guard.    *)
(***************************************************************************)
EXTENDS VcpuClock

CONSTANTS Boots, Pollers, Testers, Stoppers, NLanes, SlotOf, Cores, CoreOfTest, NoCore, NoThread

VARIABLES focus,
  co_run_gate, vcpu_abort_all, claim_lock, active, host_cpu, ap_start_pending, ap_passage,
  workers, ctl_async, thread, ret, cpu, scan

Run == INSTANCE RunGate WITH pc <- thread

gate == <<co_run_gate, vcpu_abort_all, claim_lock, active, host_cpu, ap_start_pending,
          ap_passage, workers, ctl_async, thread, ret, cpu, scan>>

all == <<focus, vars, gate>>

(* The boot processor's thread, the poller of the only secondary, a test   *)
(* lane of the boot processor; lane n is pinned to host processor n.       *)
OneSecondary == [t \in Boots \cup Pollers \cup Testers |-> IF t \in Pollers THEN 1 ELSE 0]
TwoCores == 0..1
TestCores == [v \in 0..NLanes |-> v]

InGate == focus = "gate" /\ UNCHANGED <<focus, vars>>
InTime == focus = "time" /\ UNCHANGED <<focus, gate>>

ProcessorsInit == focus \in {"gate", "time"} /\ Init /\ Run!Init

ProcessorsNext ==
  \/ InGate /\ Run!Next
  \/ InTime /\ Next

ProcessorsSpec ==
  /\ ProcessorsInit
  /\ [][ProcessorsNext]_all
  /\ Run!Fairness
  /\ WF_all(InTime /\ Pass)
  /\ WF_all(InTime /\ Loop)
  /\ SF_all(InTime /\ Interrupt)
  /\ SF_all(InTime /\ GuestGoesOn)
  /\ SF_all(InTime /\ LeaveKernel)

\* RunGate: a closed gate reopens (see there).
StopEndsRun == Run!StopEndsRun

\* RunGate: losing a secondary ends the run (see there).
LostProcessorEndsRun == Run!LostProcessorEndsRun
=============================================================================
