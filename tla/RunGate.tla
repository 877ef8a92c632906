------------------------------- MODULE RunGate -------------------------------
(***************************************************************************)
(* Who may run the guest, and for how long.                                *)
(*                                                                         *)
(* The driver admits callers with one atomic word, co_run_gate (a state    *)
(* and, for TEST_SMP, a reference count), a table of vCPU slots guarded by *)
(* a spin lock, and one broadcast stop flag.  Four kinds of threads meet   *)
(* there: KBOOT (co_arch_boot_loaded), which owns a run; KVCPU_RUN         *)
(* (co_arch_test_smp_lane with join_guest), which polls for the guest's    *)
(* START_VCPU and then carries a secondary processor; TEST_SMP (the same   *)
(* function without join_guest); and KSTOP or unload (co_arch_boot_abort). *)
(*                                                                         *)
(* A step is one access to shared state, or a run of accesses no other     *)
(* thread can tell apart.  A critical section of the registry lock is      *)
(* split where the code outside the lock could observe the middle of it.   *)
(***************************************************************************)
EXTENDS Naturals, FiniteSets

CONSTANTS Boots,      \* threads that call KBOOT
          Pollers,    \* threads that call KVCPU_RUN
          Testers,    \* threads that call TEST_SMP
          Stoppers,   \* threads that call KSTOP, or unload the driver
          NLanes,     \* CO_MAX_VCPUS - 1: the secondary processors
          SlotOf,     \* the vCPU slot each calling thread names
          Cores,      \* host processors; 0 is never given to a secondary
          CoreOfTest, \* co_os_cpu_nth(lane): where a TEST_SMP lane is pinned
          NoCore,     \* the host_cpu of a slot nobody holds
          NoThread    \* the holder of a free registry lock

Lanes == 1..NLanes
Slots == 0..NLanes
Threads == Boots \cup Pollers \cup Testers \cup Stoppers

(* The kinds of caller are disjoint, KBOOT claims slot 0, KVCPU_RUN is     *)
(* refused for slot 0, and no two lanes of a TEST_SMP share a core.        *)
ASSUME CallersAssumption ==
  /\ Boots \cap (Pollers \cup Testers \cup Stoppers) = {}
  /\ Pollers \cap (Testers \cup Stoppers) = {}
  /\ Testers \cap Stoppers = {}
  /\ NoThread \notin Threads
ASSUME SlotsAssumption ==
  /\ NLanes \in Nat
  /\ SlotOf \in [Boots \cup Pollers \cup Testers -> Slots]
  /\ \A b \in Boots : SlotOf[b] = 0
  /\ \A p \in Pollers : SlotOf[p] \in Lanes
ASSUME CoresAssumption ==
  /\ NoCore \notin Cores
  /\ CoreOfTest \in [Slots -> Cores]
  /\ \A u, v \in Slots : CoreOfTest[u] = CoreOfTest[v] => u = v
ASSUME FiniteTesters == IsFiniteSet(Testers)

VARIABLES
  co_run_gate,      \* [state, refs]: one atomic word
  vcpu_abort_all,   \* the broadcast stop flag
  claim_lock,       \* holder of co_vcpu_claim_lock
  active,           \* co_vcpu[v].active
  host_cpu,         \* co_vcpu[v].host_cpu, NoCore once the slot is free
  ap_start_pending, \* START_VCPU requests the guest has posted
  ap_passage,       \* is there a passage page for secondary v?
  workers,          \* are the asynchronous block workers running?
  ctl_async,        \* vcpu_ctl.async_cobd: may a crossing submit to them?
  pc, ret,          \* where a thread is, and where its abort returns to
  cpu,              \* the host processor a thread is pinned to
  scan              \* the slot a KBOOT's teardown scan reads next

shared == <<co_run_gate, vcpu_abort_all, claim_lock, active, host_cpu,
            ap_start_pending, ap_passage, workers, ctl_async>>
vars == <<shared, pc, ret, cpu, scan>>

GateStates == {"IDLE", "STARTING", "RUNNING", "STOPPING",
               "TEST_STARTING", "TESTING", "TEST_STOPPING"}
Idle == [state |-> "IDLE", refs |-> 0]
Gate(s) == [state |-> s, refs |-> 0]
co_run_state == co_run_gate.state

Go(t, label) == pc' = [pc EXCEPT ![t] = label]

(* A thread that leaves the driver is no longer pinned. *)
Return(t) == Go(t, "out") /\ cpu' = [cpu EXCEPT ![t] = NoCore]

(* Call co_arch_boot_abort and go on at label. *)
AbortThen(t, label) == Go(t, "close") /\ ret' = [ret EXCEPT ![t] = label]

Init ==
  /\ co_run_gate = Idle
  /\ vcpu_abort_all = FALSE
  /\ claim_lock = NoThread
  /\ active = [v \in Slots |-> "FREE"]
  /\ host_cpu = [v \in Slots |-> NoCore]
  /\ ap_start_pending = [v \in Lanes |-> FALSE]
  /\ ap_passage = [v \in Lanes |-> FALSE]
  /\ workers = FALSE
  /\ ctl_async = FALSE
  /\ pc = [t \in Threads |-> "out"]
  /\ ret = [t \in Threads |-> "out"]
  /\ cpu = [t \in Threads |-> NoCore]
  /\ scan = [b \in Boots |-> 1]
-----------------------------------------------------------------------------
(* co_arch_boot_abort: close the gate under the registry lock ...          *)
Closed(g) ==
  CASE g.state \in {"STARTING", "RUNNING"} -> [g EXCEPT !.state = "STOPPING"]
    [] g.state \in {"TEST_STARTING", "TESTING"} -> [g EXCEPT !.state = "TEST_STOPPING"]
    [] OTHER -> g

CloseGate(t) ==
  /\ pc[t] = "close"
  /\ claim_lock = NoThread
  /\ co_run_gate' = Closed(co_run_gate)
  /\ Go(t, "raise")
  /\ UNCHANGED <<vcpu_abort_all, claim_lock, active, host_cpu, ap_start_pending,
                 ap_passage, workers, ctl_async, ret, cpu, scan>>

(* Slip: the gate is closed and the flag left down. *)
RaiseAbortForgotten(t) ==
  /\ pc[t] = "raise"
  /\ IF ret[t] = "out" THEN Return(t) ELSE Go(t, ret[t]) /\ UNCHANGED cpu
  /\ ret' = [ret EXCEPT ![t] = "out"]
  /\ UNCHANGED <<shared, scan>>

(* ... then, the lock dropped, raise the stop flag and wake every waiter.  *)
RaiseAbort(t) ==
  /\ pc[t] = "raise"
  /\ vcpu_abort_all' = TRUE
  /\ IF ret[t] = "out" THEN Return(t) ELSE Go(t, ret[t]) /\ UNCHANGED cpu
  /\ ret' = [ret EXCEPT ![t] = "out"]
  /\ UNCHANGED <<co_run_gate, claim_lock, active, host_cpu, ap_start_pending,
                 ap_passage, workers, ctl_async, scan>>

(* KSTOP, and the unload path, abort only when a run is up. *)
Stop(s) ==
  /\ pc[s] = "out"
  /\ co_run_state # "IDLE"
  /\ AbortThen(s, "out")
  /\ UNCHANGED <<shared, cpu, scan>>
-----------------------------------------------------------------------------
(* co_vcpu_claim, entered with the registry lock held at label "claim":    *)
(* win the slot, fill it in, bind the kick DPC, publish ACTIVE.            *)
ClaimSlot(t, refused) ==
  /\ pc[t] = "claim"
  /\ IF active[SlotOf[t]] = "FREE"
     THEN /\ active' = [active EXCEPT ![SlotOf[t]] = "CLAIMING"]
          /\ host_cpu' = [host_cpu EXCEPT ![SlotOf[t]] = cpu[t]]
          /\ Go(t, "bind")
          /\ UNCHANGED <<claim_lock, ret, cpu>>
     ELSE /\ claim_lock' = NoThread
          /\ refused
          /\ UNCHANGED <<active, host_cpu>>
  /\ UNCHANGED <<co_run_gate, vcpu_abort_all, ap_start_pending, ap_passage,
                 workers, ctl_async, scan>>

BindSlot(t, next) ==
  /\ pc[t] = "bind"
  /\ active' = [active EXCEPT ![SlotOf[t]] = "ACTIVE"]
  /\ claim_lock' = NoThread
  /\ Go(t, next)
  /\ UNCHANGED <<co_run_gate, vcpu_abort_all, host_cpu, ap_start_pending,
                 ap_passage, workers, ctl_async, ret, cpu, scan>>

(* co_os_vcpu_kick_bind refuses: the slot is given back. *)
BindFails(t, refused) ==
  /\ pc[t] = "bind"
  /\ active' = [active EXCEPT ![SlotOf[t]] = "FREE"]
  /\ host_cpu' = [host_cpu EXCEPT ![SlotOf[t]] = NoCore]
  /\ claim_lock' = NoThread
  /\ refused
  /\ UNCHANGED <<co_run_gate, vcpu_abort_all, ap_start_pending, ap_passage,
                 workers, ctl_async, scan>>

(* co_vcpu_release: refuse new kicks, then free the slot. *)
ReleaseBegin(t, from, to) ==
  /\ pc[t] = from
  /\ active[SlotOf[t]] = "ACTIVE"
  /\ active' = [active EXCEPT ![SlotOf[t]] = "STOPPING"]
  /\ Go(t, to)
  /\ UNCHANGED <<co_run_gate, vcpu_abort_all, claim_lock, host_cpu,
                 ap_start_pending, ap_passage, workers, ctl_async, ret, cpu, scan>>

ReleaseEnd(t, from, next) ==
  /\ pc[t] = from
  /\ active' = [active EXCEPT ![SlotOf[t]] = "FREE"]
  /\ host_cpu' = [host_cpu EXCEPT ![SlotOf[t]] = NoCore]
  /\ next
  /\ UNCHANGED <<co_run_gate, vcpu_abort_all, claim_lock, ap_start_pending,
                 ap_passage, workers, ctl_async, scan>>
-----------------------------------------------------------------------------
(* KBOOT.  The thread is pinned where it happens to be, then co_run_begin  *)
(* takes the gate, clears the previous run's stop flag and looks again.    *)
co_run_begin(b) ==
  /\ pc[b] = "out"
  /\ co_run_gate = Idle
  /\ co_run_gate' = Gate("STARTING")
  /\ Go(b, "clear")
  /\ \E c \in Cores : cpu' = [cpu EXCEPT ![b] = c]
  /\ UNCHANGED <<vcpu_abort_all, claim_lock, active, host_cpu, ap_start_pending,
                 ap_passage, workers, ctl_async, ret, scan>>

ClearAbort(b) ==
  /\ pc[b] = "clear"
  /\ vcpu_abort_all' = FALSE
  /\ Go(b, "recheck")
  /\ UNCHANGED <<co_run_gate, claim_lock, active, host_cpu, ap_start_pending,
                 ap_passage, workers, ctl_async, ret, cpu, scan>>

RecheckBegin(b) ==
  /\ pc[b] = "recheck"
  /\ Go(b, IF co_run_state = "STARTING" THEN "prepare" ELSE "lost")
  /\ UNCHANGED <<shared, ret, cpu, scan>>

(* KSTOP came during the clear: put its request back and give up. *)
LostBegin(b) ==
  /\ pc[b] = "lost"
  /\ vcpu_abort_all' = TRUE
  /\ Go(b, "finish")
  /\ UNCHANGED <<co_run_gate, claim_lock, active, host_cpu, ap_start_pending,
                 ap_passage, workers, ctl_async, ret, cpu, scan>>

(* co_arch_boot_prepare.  A failure before the secondaries' pages are made *)
(* leaves the start requests of the last run in place; afterwards any of   *)
(* the pages may be missing, and a later step may still fail.              *)
PrepareFailsEarly(b) ==
  /\ pc[b] = "prepare"
  /\ AbortThen(b, "free")
  /\ UNCHANGED <<shared, cpu, scan>>

Prepare(b) ==
  /\ pc[b] = "prepare"
  /\ ap_start_pending' = [v \in Lanes |-> FALSE]
  /\ ap_passage' \in [Lanes -> BOOLEAN]
  /\ \/ Go(b, "lock") /\ UNCHANGED ret
     \/ AbortThen(b, "free")
  /\ UNCHANGED <<co_run_gate, vcpu_abort_all, claim_lock, active, host_cpu,
                 workers, ctl_async, cpu, scan>>

(* The registry lock around co_vcpu_claim(0, 0). *)
LockForBoot(b) ==
  /\ pc[b] = "lock"
  /\ claim_lock = NoThread
  /\ claim_lock' = b
  /\ Go(b, "claim")
  /\ UNCHANGED <<co_run_gate, vcpu_abort_all, active, host_cpu, ap_start_pending,
                 ap_passage, workers, ctl_async, ret, cpu, scan>>

BootRefused(b) == AbortThen(b, "free") /\ UNCHANGED cpu

(* co_cobd_async_start succeeds or is not wanted, and vcpu_ctl is written. *)
StartWorkers(b) ==
  /\ pc[b] = "start"
  /\ \E on \in BOOLEAN : workers' = on /\ ctl_async' = on
  /\ Go(b, "publish")
  /\ UNCHANGED <<co_run_gate, vcpu_abort_all, claim_lock, active, host_cpu,
                 ap_start_pending, ap_passage, ret, cpu, scan>>

(* The only transition that admits KVCPU_RUN. *)
co_run_publish(b) ==
  /\ pc[b] = "publish"
  /\ IF co_run_gate = Gate("STARTING")
     THEN /\ co_run_gate' = Gate("RUNNING")
          /\ Go(b, "run")
          /\ UNCHANGED ret
     ELSE AbortThen(b, "failWorkers") /\ UNCHANGED co_run_gate
  /\ UNCHANGED <<vcpu_abort_all, claim_lock, active, host_cpu, ap_start_pending,
                 ap_passage, workers, ctl_async, cpu, scan>>

(* Slip: the scan's index is not reset when it ends. *)
JoinScanNotReset(b) ==
  /\ pc[b] = "join"
  /\ scan' = [scan EXCEPT ![b] = IF scan[b] \notin Lanes \/ active[scan[b]] = "FREE"
                                 THEN scan[b] + 1 ELSE 1]
  /\ IF scan[b] \in Lanes THEN UNCHANGED pc ELSE Go(b, "stopWorkers")
  /\ UNCHANGED <<shared, ret, cpu>>

(* Slip: a busy slot does not start the scan again. *)
JoinScanPassesBusy(b) ==
  /\ pc[b] = "join"
  /\ scan' = [scan EXCEPT ![b] = IF scan[b] \in Lanes THEN scan[b] + 1 ELSE 1]
  /\ IF scan[b] \in Lanes THEN UNCHANGED pc ELSE Go(b, "stopWorkers")
  /\ UNCHANGED <<shared, ret, cpu>>

(* The teardown scan, one slot at a time, again from the start when a slot *)
(* is not free. *)
JoinScan(b) ==
  /\ pc[b] = "join"
  /\ scan' = [scan EXCEPT ![b] = IF scan[b] \in Lanes /\ active[scan[b]] = "FREE"
                                 THEN scan[b] + 1 ELSE 1]
  /\ IF scan[b] \in Lanes THEN UNCHANGED pc ELSE Go(b, "stopWorkers")
  /\ UNCHANGED <<shared, ret, cpu>>

(* co_cobd_async_stop, on the normal path and on the error path. *)
StopWorkers(b, from, to) ==
  /\ pc[b] = from
  /\ workers' = FALSE
  /\ Go(b, to)
  /\ UNCHANGED <<co_run_gate, vcpu_abort_all, claim_lock, active, host_cpu,
                 ap_start_pending, ap_passage, ctl_async, ret, cpu, scan>>

(* Slip: off by one, the last secondary's page is kept. *)
FreePassagesButLast(b) ==
  /\ pc[b] = "free"
  /\ ap_passage' = [v \in Lanes |-> v = NLanes /\ ap_passage[v]]
  /\ Go(b, "finish")
  /\ UNCHANGED <<co_run_gate, vcpu_abort_all, claim_lock, active, host_cpu,
                 ap_start_pending, workers, ctl_async, ret, cpu, scan>>

FreePassages(b) ==
  /\ pc[b] = "free"
  /\ ap_passage' = [v \in Lanes |-> FALSE]
  /\ Go(b, "finish")
  /\ UNCHANGED <<co_run_gate, vcpu_abort_all, claim_lock, active, host_cpu,
                 ap_start_pending, workers, ctl_async, ret, cpu, scan>>

(* co_run_finish: only STOPPING becomes IDLE. *)
co_run_finish(b) ==
  /\ pc[b] = "finish"
  /\ co_run_gate' = IF co_run_state = "STOPPING" THEN Idle ELSE co_run_gate
  /\ Return(b)
  /\ UNCHANGED <<vcpu_abort_all, claim_lock, active, host_cpu, ap_start_pending,
                 ap_passage, workers, ctl_async, ret, scan>>
-----------------------------------------------------------------------------
(* The crossing loop, shared by the boot processor (at "run") and every    *)
(* secondary (at "guest"): what it does to the state above.                *)
Crossing(t) == pc[t] \in {"run", "guest"}
LeaveLoop(t) ==
  IF t \in Boots THEN AbortThen(t, "join") ELSE Go(t, "left") /\ UNCHANGED ret

(* CO_OPERATION_START_VCPU, posted for a poller of that processor. *)
StartVcpu(t, v) ==
  /\ Crossing(t)
  /\ ap_start_pending' = [ap_start_pending EXCEPT ![v] = TRUE]
  /\ UNCHANGED <<co_run_gate, vcpu_abort_all, claim_lock, active, host_cpu,
                 ap_passage, workers, ctl_async, pc, ret, cpu, scan>>

(* The top of every iteration reads the stop flag. *)
LoopSeesAbort(t) ==
  /\ Crossing(t)
  /\ vcpu_abort_all
  /\ LeaveLoop(t)
  /\ UNCHANGED <<shared, cpu, scan>>

(* A fault, a limit, a deadline, damaged host state, an unknown operation. *)
LoopBreaks(t) ==
  /\ Crossing(t)
  /\ LeaveLoop(t)
  /\ UNCHANGED <<shared, cpu, scan>>

(* CO_OPERATION_TERMINATE aborts the run before it leaves the loop. *)
Terminate(t) ==
  /\ Crossing(t)
  /\ AbortThen(t, IF t \in Boots THEN "ended" ELSE "left")
  /\ UNCHANGED <<shared, cpu, scan>>

BootEnded(b) ==
  /\ pc[b] = "ended"
  /\ AbortThen(b, "join")
  /\ UNCHANGED <<shared, cpu, scan>>
-----------------------------------------------------------------------------
(* co_arch_vcpu_core_taken *)
CoreTaken(c) == \E v \in Slots : active[v] # "FREE" /\ host_cpu[v] = c

(* KVCPU_RUN: with a run up, pin the thread to a core no vCPU is seen on.  *)
(* The scan holds no lock, so a slot that is being claimed may be missed.  *)
KvcpuRun(p) ==
  /\ pc[p] = "out"
  /\ co_run_state # "IDLE"
  /\ \E c \in Cores \ {0} :
       /\ \A v \in Slots : active[v] \in {"ACTIVE", "STOPPING"} => host_cpu[v] # c
       /\ cpu' = [cpu EXCEPT ![p] = c]
  /\ Go(p, "poll")
  /\ UNCHANGED <<shared, ret, scan>>

Wanted(p) ==
  /\ co_run_state = "RUNNING"
  /\ ~vcpu_abort_all
  /\ ap_start_pending[SlotOf[p]]

(* The first, unlocked look at the run and at the start request. *)
PollCheck(p) ==
  /\ pc[p] = "poll"
  /\ IF Wanted(p) THEN Go(p, "vmx") /\ UNCHANGED cpu ELSE Return(p)
  /\ UNCHANGED <<shared, ret, scan>>

(* co_arch_world_switch_allowed, on the core the lane was pinned to.  The  *)
(* guest is already waiting for this processor: a refusal ends the run.    *)
SwitchAllowed(p) ==
  /\ pc[p] = "vmx"
  /\ Go(p, "admit")
  /\ UNCHANGED <<shared, ret, cpu, scan>>

SwitchRefused(p) ==
  /\ pc[p] = "vmx"
  /\ ap_start_pending' = [ap_start_pending EXCEPT ![SlotOf[p]] = FALSE]
  /\ AbortThen(p, "out")
  /\ UNCHANGED <<co_run_gate, vcpu_abort_all, claim_lock, active, host_cpu,
                 ap_passage, workers, ctl_async, cpu, scan>>

(* Slip: placement is trusted to the scan made before the lock. *)
AdmitAnyCore(p) ==
  /\ pc[p] = "admit"
  /\ claim_lock = NoThread
  /\ IF Wanted(p)
     THEN claim_lock' = p /\ Go(p, "claim") /\ UNCHANGED cpu
     ELSE Return(p) /\ UNCHANGED claim_lock
  /\ UNCHANGED <<co_run_gate, vcpu_abort_all, active, host_cpu, ap_start_pending,
                 ap_passage, workers, ctl_async, ret, scan>>

(* Admission, decided again under the registry lock. *)
Admit(p) ==
  /\ pc[p] = "admit"
  /\ claim_lock = NoThread
  /\ IF Wanted(p) /\ ~CoreTaken(cpu[p])
     THEN claim_lock' = p /\ Go(p, "claim") /\ UNCHANGED cpu
     ELSE Return(p) /\ UNCHANGED claim_lock
  /\ UNCHANGED <<co_run_gate, vcpu_abort_all, active, host_cpu, ap_start_pending,
                 ap_passage, workers, ctl_async, ret, scan>>

PollRefused(p) == Return(p) /\ UNCHANGED ret

(* The look that pairs with teardown: between the claim and this point the *)
(* run may have been stopped. *)
AdmittedCheck(p) ==
  /\ pc[p] = "admitted"
  /\ Go(p, IF co_run_state # "RUNNING" \/ vcpu_abort_all THEN "release" ELSE "take")
  /\ UNCHANGED <<shared, ret, cpu, scan>>

TakePassage(p) ==
  /\ pc[p] = "take"
  /\ IF ap_passage[SlotOf[p]]
     THEN Go(p, "request") /\ UNCHANGED <<ret, ap_start_pending>>
     ELSE /\ ap_start_pending' = [ap_start_pending EXCEPT ![SlotOf[p]] = FALSE]
          /\ AbortThen(p, "release")
  /\ UNCHANGED <<co_run_gate, vcpu_abort_all, claim_lock, active, host_cpu,
                 ap_passage, workers, ctl_async, cpu, scan>>

(* Consume the request; a request another caller withdrew starts nothing.  *)
ConsumeRequest(p) ==
  /\ pc[p] = "request"
  /\ ap_start_pending' = [ap_start_pending EXCEPT ![SlotOf[p]] = FALSE]
  /\ Go(p, IF ap_start_pending[SlotOf[p]] THEN "build" ELSE "release")
  /\ UNCHANGED <<co_run_gate, vcpu_abort_all, claim_lock, active, host_cpu,
                 ap_passage, workers, ctl_async, ret, cpu, scan>>

(* Build and publish the passage page, check the address space, preflight. *)
EnterGuest(p) ==
  /\ pc[p] = "build"
  /\ \/ Go(p, "guest") /\ UNCHANGED ret
     \/ AbortThen(p, "release")
  /\ UNCHANGED <<shared, cpu, scan>>

(* Slip: the lane only cleans up after itself. *)
LaneLeftQuietly(p) ==
  /\ pc[p] = "left"
  /\ Go(p, "release")
  /\ UNCHANGED <<shared, ret, cpu, scan>>

(* The guest counts this processor as online: losing it ends the run. *)
LaneLeft(p) ==
  /\ pc[p] = "left"
  /\ IF co_run_state = "RUNNING" /\ ~vcpu_abort_all
     THEN AbortThen(p, "release")
     ELSE Go(p, "release") /\ UNCHANGED ret
  /\ UNCHANGED <<shared, cpu, scan>>
-----------------------------------------------------------------------------
(* TEST_SMP.  co_run_test_enter opens the gate for the first lane and adds *)
(* a reference for the others; a lane that finds TEST_STARTING spins.      *)
TestStarting == [state |-> "TEST_STARTING", refs |-> 1]

(* Slip: a lane opens the gate whenever no lane is counted. *)
TestEnterUncounted(t) ==
  /\ pc[t] = "out"
  /\ cpu' = [cpu EXCEPT ![t] = CoreOfTest[SlotOf[t]]]
  /\ \/ /\ co_run_gate.refs = 0
        /\ co_run_gate' = TestStarting
        /\ Go(t, "testClear")
     \/ /\ co_run_state = "TESTING"
        /\ co_run_gate' = [co_run_gate EXCEPT !.refs = @ + 1]
        /\ Go(t, "testAdmit")
  /\ UNCHANGED <<vcpu_abort_all, claim_lock, active, host_cpu, ap_start_pending,
                 ap_passage, workers, ctl_async, ret, scan>>

(* Slip: every lane, not only the first, clears the stop flag. *)
TestEnterAlwaysClears(t) ==
  /\ pc[t] = "out"
  /\ cpu' = [cpu EXCEPT ![t] = CoreOfTest[SlotOf[t]]]
  /\ \/ co_run_gate = Idle /\ co_run_gate' = TestStarting
     \/ /\ co_run_state = "TESTING"
        /\ co_run_gate' = [co_run_gate EXCEPT !.refs = @ + 1]
  /\ Go(t, "testClear")
  /\ UNCHANGED <<vcpu_abort_all, claim_lock, active, host_cpu, ap_start_pending,
                 ap_passage, workers, ctl_async, ret, scan>>

co_run_test_enter(t) ==
  /\ pc[t] = "out"
  /\ cpu' = [cpu EXCEPT ![t] = CoreOfTest[SlotOf[t]]]
  /\ \/ /\ co_run_gate = Idle
        /\ co_run_gate' = TestStarting
        /\ Go(t, "testClear")
     \/ /\ co_run_state = "TESTING"
        /\ co_run_gate' = [co_run_gate EXCEPT !.refs = @ + 1]
        /\ Go(t, "testAdmit")
  /\ UNCHANGED <<vcpu_abort_all, claim_lock, active, host_cpu, ap_start_pending,
                 ap_passage, workers, ctl_async, ret, scan>>

TestClearAbort(t) ==
  /\ pc[t] = "testClear"
  /\ vcpu_abort_all' = FALSE
  /\ Go(t, "testRecheck")
  /\ UNCHANGED <<co_run_gate, claim_lock, active, host_cpu, ap_start_pending,
                 ap_passage, workers, ctl_async, ret, cpu, scan>>

TestRecheck(t) ==
  /\ pc[t] = "testRecheck"
  /\ IF co_run_gate = TestStarting
     THEN co_run_gate' = [TestStarting EXCEPT !.state = "TESTING"] /\ Go(t, "testAdmit")
     ELSE Go(t, "testLost") /\ UNCHANGED co_run_gate
  /\ UNCHANGED <<vcpu_abort_all, claim_lock, active, host_cpu, ap_start_pending,
                 ap_passage, workers, ctl_async, ret, cpu, scan>>

TestLost(t) ==
  /\ pc[t] = "testLost"
  /\ vcpu_abort_all' = TRUE
  /\ Go(t, "testLeave")
  /\ UNCHANGED <<co_run_gate, claim_lock, active, host_cpu, ap_start_pending,
                 ap_passage, workers, ctl_async, ret, cpu, scan>>

TestAdmit(t) ==
  /\ pc[t] = "testAdmit"
  /\ claim_lock = NoThread
  /\ IF co_run_state = "TESTING"
     THEN claim_lock' = t /\ Go(t, "claim")
     ELSE Go(t, "testLeave") /\ UNCHANGED claim_lock
  /\ UNCHANGED <<co_run_gate, vcpu_abort_all, active, host_cpu, ap_start_pending,
                 ap_passage, workers, ctl_async, ret, cpu, scan>>

TestRefused(t) == Go(t, "testLeave") /\ UNCHANGED <<ret, cpu>>

(* The lane's own crossings end by count, by fault or by the stop flag. *)
TestLaneEnds(t) ==
  /\ pc[t] = "testLane"
  /\ Go(t, "release")
  /\ UNCHANGED <<shared, ret, cpu, scan>>

(* The last reference out opens the gate, whatever its state was. *)
co_run_test_leave(t) ==
  /\ pc[t] = "testLeave"
  /\ co_run_state \in {"TESTING", "TEST_STOPPING", "TEST_STARTING"}
  /\ co_run_gate.refs > 0
  /\ co_run_gate' = IF co_run_gate.refs = 1 THEN Idle
                    ELSE [co_run_gate EXCEPT !.refs = @ - 1]
  /\ Return(t)
  /\ UNCHANGED <<vcpu_abort_all, claim_lock, active, host_cpu, ap_start_pending,
                 ap_passage, workers, ctl_async, ret, scan>>
-----------------------------------------------------------------------------
(* What each thread does on its own account once it is in the driver ...   *)
BootProgress(b) ==
  \/ ClearAbort(b) \/ RecheckBegin(b) \/ LostBegin(b)
  \/ PrepareFailsEarly(b) \/ Prepare(b)
  \/ LockForBoot(b)
  \/ ClaimSlot(b, BootRefused(b))
  \/ BindSlot(b, "start") \/ BindFails(b, BootRefused(b))
  \/ StartWorkers(b) \/ co_run_publish(b)
  \/ LoopSeesAbort(b) \/ BootEnded(b)
  \/ JoinScan(b)
  \/ StopWorkers(b, "stopWorkers", "releaseBoot")
  \/ ReleaseBegin(b, "releaseBoot", "freeBoot")
  \/ ReleaseEnd(b, "freeBoot", BootRefused(b))
  \/ StopWorkers(b, "failWorkers", "failRelease")
  \/ ReleaseBegin(b, "failRelease", "failFree")
  \/ ReleaseEnd(b, "failFree", Go(b, "free") /\ UNCHANGED <<ret, cpu>>)
  \/ FreePassages(b) \/ co_run_finish(b)

PollProgress(p) ==
  \/ PollCheck(p)
  \/ SwitchAllowed(p) \/ SwitchRefused(p)
  \/ Admit(p)
  \/ ClaimSlot(p, PollRefused(p))
  \/ BindSlot(p, "admitted") \/ BindFails(p, PollRefused(p))
  \/ AdmittedCheck(p) \/ TakePassage(p) \/ ConsumeRequest(p) \/ EnterGuest(p)
  \/ LoopSeesAbort(p) \/ LaneLeft(p)
  \/ ReleaseBegin(p, "release", "freeSlot")
  \/ ReleaseEnd(p, "freeSlot", PollRefused(p))

TestProgress(t) ==
  \/ TestClearAbort(t) \/ TestRecheck(t) \/ TestLost(t)
  \/ TestAdmit(t)
  \/ ClaimSlot(t, TestRefused(t))
  \/ BindSlot(t, "testLane") \/ BindFails(t, TestRefused(t))
  \/ TestLaneEnds(t)
  \/ ReleaseBegin(t, "release", "freeSlot")
  \/ ReleaseEnd(t, "freeSlot", TestRefused(t))
  \/ co_run_test_leave(t)

(* ... and what the daemon, the guest or the user may or may not ask for.  *)
Next ==
  \/ \E t \in Threads : CloseGate(t) \/ RaiseAbort(t)
  \/ \E b \in Boots : co_run_begin(b) \/ BootProgress(b)
  \/ \E p \in Pollers : KvcpuRun(p) \/ PollProgress(p)
  \/ \E t \in Testers : co_run_test_enter(t) \/ TestProgress(t)
  \/ \E s \in Stoppers : Stop(s)
  \/ \E t \in Boots \cup Pollers :
       \/ \E v \in Lanes : StartVcpu(t, v)
       \/ LoopBreaks(t) \/ Terminate(t)

Spec == Init /\ [][Next]_vars

(* A thread in the driver keeps running: the host's scheduler is fair to   *)
(* it, and a guest crossing returns at every host interrupt, so the stop   *)
(* flag is read again.  The registry lock is held for a few instructions   *)
(* at a time by callers that come back every 200 ms, so a spinning abort   *)
(* gets it (SF on CloseGate).                                              *)
Fairness ==
  /\ \A t \in Threads : SF_vars(CloseGate(t)) /\ WF_vars(RaiseAbort(t))
  /\ \A b \in Boots : WF_vars(BootProgress(b))
  /\ \A p \in Pollers : WF_vars(PollProgress(p))
  /\ \A t \in Testers : WF_vars(TestProgress(t))

FairSpec == Spec /\ Fairness
-----------------------------------------------------------------------------
BootLabels == {"out", "clear", "recheck", "lost", "prepare", "lock", "claim",
               "bind", "start", "publish", "run", "ended", "join", "stopWorkers",
               "releaseBoot", "freeBoot", "failWorkers", "failRelease", "failFree",
               "free", "finish", "close", "raise"}
PollLabels == {"out", "poll", "vmx", "admit", "claim", "bind", "admitted", "take",
               "request", "build", "guest", "left", "release", "freeSlot",
               "close", "raise"}
TestLabels == {"out", "testClear", "testRecheck", "testLost", "testAdmit", "claim",
               "bind", "testLane", "release", "freeSlot", "testLeave"}
StopLabels == {"out", "close", "raise"}

SharedTypes ==
  /\ co_run_gate \in [state : GateStates, refs : Nat]
  /\ vcpu_abort_all \in BOOLEAN
  /\ claim_lock \in Threads \cup {NoThread}
  /\ active \in [Slots -> {"FREE", "CLAIMING", "ACTIVE", "STOPPING"}]
  /\ host_cpu \in [Slots -> Cores \cup {NoCore}]
  /\ ap_start_pending \in [Lanes -> BOOLEAN]
  /\ ap_passage \in [Lanes -> BOOLEAN]
  /\ workers \in BOOLEAN
  /\ ctl_async \in BOOLEAN

Labels == BootLabels \cup PollLabels \cup TestLabels

ThreadTypes ==
  /\ pc \in [Threads -> Labels]
  /\ \A b \in Boots : pc[b] \in BootLabels
  /\ \A p \in Pollers : pc[p] \in PollLabels
  /\ \A t \in Testers : pc[t] \in TestLabels
  /\ \A s \in Stoppers : pc[s] \in StopLabels
  /\ ret \in [Threads -> Labels]
  /\ cpu \in [Threads -> Cores \cup {NoCore}]
  /\ scan \in [Boots -> 1..(NLanes + 1)]

(* The gate word, the slots, the pages and the threads keep their types:   *)
(* each kind of caller stays at labels of its own code path.               *)
TypeOK == SharedTypes /\ ThreadTypes

(* t is at one of the labels, or in an abort that returns to one of them.  *)
At(t, labels) == pc[t] \in labels \/ (pc[t] \in {"close", "raise"} /\ ret[t] \in labels)

UsesPassage(p) == pc[p] \in {"request", "build", "guest"}
HoldsTestRef(t) == pc[t] # "out"

(* A secondary never crosses through, or builds, a passage page that       *)
(* co_arch_boot_loaded has freed: its cleanup frees ap_passage[] only when *)
(* no lane can still be using a page or be about to.                       *)
PassageHeld == \A p \in Pollers : UsesPassage(p) => ap_passage[SlotOf[p]]

(* No executable page is stranded: the next boot_prepare overwrites the    *)
(* ap_passage[] pointers, so a finished run must have freed every page.    *)
NoPassageLeak == co_run_state = "IDLE" => \A v \in Lanes : ~ap_passage[v]

(* While any processor can still answer BLOCK_IO with asynchronous         *)
(* submission configured, the block workers are running: teardown joins    *)
(* the secondaries before it stops the workers.                            *)
WorkersOutliveCrossings ==
  \A t \in Boots \cup Pollers : Crossing(t) /\ ctl_async => workers

(* Two vCPUs never hold the same host core, although each placement scan   *)
(* is made before the slot is claimed and without the lock.                *)
CoresDistinct ==
  \A u, v \in Slots :
    u # v /\ active[u] # "FREE" /\ active[v] # "FREE" => host_cpu[u] # host_cpu[v]

(* One KBOOT at a time is between co_run_begin and co_run_finish, and none *)
(* while a TEST_SMP lane holds a reference.                                *)
RunExclusive ==
  \A b \in Boots : pc[b] # "out" =>
    /\ \A c \in Boots \ {b} : pc[c] = "out"
    /\ \A t \in Testers : ~HoldsTestRef(t)

(* The reference count packed in the gate word is the number of TEST_SMP   *)
(* lanes inside, on every entry, refusal, abort and exit path.             *)
RefsExact == co_run_gate.refs = Cardinality({t \in Testers : HoldsTestRef(t)})

(* A stop request is never wiped under a processor that is crossing: the   *)
(* flag is cleared only by a run that has no processor in its loop yet.    *)
AbortNotLost ==
  [][vcpu_abort_all /\ ~vcpu_abort_all' =>
       \A t \in Threads : ~Crossing(t) /\ pc[t] # "testLane"]_vars

(* Once the gate is closed the run ends: every lane leaves, the teardown   *)
(* scan finishes and the gate opens again.                                 *)
StopEndsRun == co_run_state \in {"STOPPING", "TEST_STOPPING"} ~> co_run_state = "IDLE"

(* A secondary that leaves its loop for any reason takes the run with it:  *)
(* the guest still counts that processor as online.                        *)
LostProcessorEndsRun ==
  \A p \in Pollers : pc[p] = "left" ~> co_run_state # "RUNNING"

(* The comment in co_arch_boot_abort: "Close admission first."  Whenever   *)
(* the stop flag is up, the gate no longer admits.                         *)
AdmissionClosedFirst == vcpu_abort_all => co_run_state \notin {"RUNNING", "TESTING"}
=============================================================================
