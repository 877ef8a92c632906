--------------------------- MODULE RunGateProofs ----------------------------
(***************************************************************************)
(* Proofs about RunGate, concluded: the registry lock and the vCPU slots,  *)
(* the teardown scan and the passage pages, the block workers, core        *)
(* placement and the stop flag, and the safety theorems of the run gate.   *)
(***************************************************************************)
EXTENDS RunGateWord

USE CallersAssumption, SlotsAssumption
    DEF Threads, Slots, Lanes, Go, Return, AbortThen, BootRefused, PollRefused, TestRefused

(* The registry lock. *)

(* What a thread may do to the lock: leave it, take it free, give it up.   *)
Locked(t) == pc[t] \in {"claim", "bind"}
LockStep(t) ==
  \/ claim_lock' = claim_lock /\ (Locked(t)' => Locked(t))
  \/ claim_lock = NoThread /\ claim_lock' = t
  \/ Locked(t) /\ ~Locked(t)'

LEMMA LockSteps ==
  ASSUME Typed
  PROVE  /\ \A t \in Threads : CloseGate(t) \/ RaiseAbort(t) => LockStep(t)
         /\ \A b \in Boots : BootStep(b) => LockStep(b)
         /\ \A p \in Pollers : PollStep(p) => LockStep(p)
         /\ \A t \in Testers : TestStep(t) => LockStep(t)
<1> USE DEF Typed, TypeOK, SharedTypes, ThreadTypes, LockStep, Locked
<1>1. ASSUME NEW t \in Threads, CloseGate(t) \/ RaiseAbort(t) PROVE LockStep(t)
  <2>1. pc[t] \in {"close", "raise"} /\ t \notin Testers
    BY <1>1, ZenonT(60) DEF CloseGate, RaiseAbort, TestLabels
  <2>2. ret[t] \in BootReturns \cup PollReturns
    BY Zenon, <2>1 DEF ReturnInv, InAbort, PollReturns
  <2> QED BY <1>1, <2>2 DEF CloseGate, RaiseAbort, BootReturns, PollReturns
<1>2. ASSUME NEW b \in Boots, BootStep(b) PROVE LockStep(b)
  <2>1. CASE \/ co_run_begin(b) \/ ClearAbort(b) \/ RecheckBegin(b) \/ LostBegin(b)
             \/ PrepareFailsEarly(b) \/ Prepare(b)
    BY Zenon, <2>1 DEF co_run_begin, ClearAbort, RecheckBegin, LostBegin, PrepareFailsEarly,
       Prepare, shared
  <2>2. CASE LockForBoot(b) \/ ClaimSlot(b, BootRefused(b))
    BY Zenon, <2>2 DEF LockForBoot, ClaimSlot
  <2>3. CASE BindSlot(b, "start") \/ BindFails(b, BootRefused(b))
    BY Zenon, <2>3 DEF BindSlot, BindFails
  <2>4. CASE StartWorkers(b) \/ co_run_publish(b) \/ JoinScan(b)
    BY <2>4 DEF StartWorkers, co_run_publish, JoinScan, shared
  <2>5. CASE LoopSeesAbort(b) \/ LoopBreaks(b) \/ Terminate(b) \/ BootEnded(b)
    BY Zenon, <2>5 DEF LoopSeesAbort, LoopBreaks, Terminate, BootEnded, LeaveLoop, shared
  <2>6. CASE \/ StopWorkers(b, "stopWorkers", "releaseBoot")
             \/ StopWorkers(b, "failWorkers", "failRelease")
             \/ FreePassages(b) \/ co_run_finish(b)
    BY Zenon, <2>6 DEF StopWorkers, FreePassages, co_run_finish
  <2>7. CASE \/ ReleaseBegin(b, "releaseBoot", "freeBoot")
             \/ ReleaseBegin(b, "failRelease", "failFree")
    BY Zenon, <2>7 DEF ReleaseBegin
  <2>8. CASE \/ ReleaseEnd(b, "freeBoot", BootRefused(b))
             \/ ReleaseEnd(b, "failFree", Go(b, "free") /\ UNCHANGED <<ret, cpu>>)
    BY Zenon, <2>8 DEF ReleaseEnd
  <2> QED
    BY <1>2, <2>1, <2>2, <2>3, <2>4, <2>5, <2>6, <2>7, <2>8, ZenonT(60)
       DEF BootStep, BootProgress
<1>3. ASSUME NEW p \in Pollers, PollStep(p) PROVE LockStep(p)
  <2>1. CASE KvcpuRun(p) \/ PollCheck(p) \/ SwitchAllowed(p) \/ SwitchRefused(p)
    BY <2>1 DEF KvcpuRun, PollCheck, SwitchAllowed, SwitchRefused, shared
  <2>2. CASE Admit(p)
    BY Zenon, <2>2 DEF Admit
  <2>3. CASE ClaimSlot(p, PollRefused(p))
    BY Zenon, <2>3 DEF ClaimSlot
  <2>4. CASE BindSlot(p, "admitted") \/ BindFails(p, PollRefused(p))
    BY Zenon, <2>4 DEF BindSlot, BindFails
  <2>5. CASE AdmittedCheck(p) \/ TakePassage(p) \/ ConsumeRequest(p) \/ EnterGuest(p)
    BY Zenon, <2>5 DEF AdmittedCheck, TakePassage, ConsumeRequest, EnterGuest, shared
  <2>6. CASE LoopSeesAbort(p) \/ LoopBreaks(p) \/ Terminate(p) \/ LaneLeft(p)
    BY <2>6 DEF LoopSeesAbort, LoopBreaks, Terminate, LaneLeft, LeaveLoop, shared
  <2>7. CASE \/ ReleaseBegin(p, "release", "freeSlot")
             \/ ReleaseEnd(p, "freeSlot", PollRefused(p))
    BY Zenon, <2>7 DEF ReleaseBegin, ReleaseEnd
  <2> QED
    BY <1>3, <2>1, <2>2, <2>3, <2>4, <2>5, <2>6, <2>7, ZenonT(60) DEF PollStep, PollProgress
<1>4. ASSUME NEW t \in Testers, TestStep(t) PROVE LockStep(t)
  BY <1>4 DEF TestStep, TestProgress, co_run_test_enter, TestClearAbort, TestRecheck,
     TestLost, TestAdmit, ClaimSlot, BindSlot, BindFails, TestLaneEnds, ReleaseBegin,
     ReleaseEnd, co_run_test_leave, shared
<1> QED BY ZenonT(60), <1>1, <1>2, <1>3, <1>4

(* A run cannot be taken from RUNNING while the lock is held. *)
LEMMA RunningKept ==
  ASSUME Typed, GateAll, LockInv, Next, co_run_state = "RUNNING",
         NEW p \in Pollers, Locked(p)
  PROVE  co_run_state' = "RUNNING"
<1> USE DEF Typed, TypeOK, SharedTypes, ThreadTypes, GateAll
<1>1. ASSUME NEW t \in Threads, CloseGate(t) \/ RaiseAbort(t) PROVE co_run_state' = "RUNNING"
  BY Zenon, <1>1 DEF CloseGate, RaiseAbort, LockInv, Locked, co_run_state
<1>2. ASSUME NEW b \in Boots, BootStep(b) PROVE co_run_state' = "RUNNING"
  <2>1. \/ co_run_gate' = co_run_gate
        \/ co_run_begin(b) \/ co_run_publish(b) \/ co_run_finish(b)
    BY <1>2, ZenonT(60) DEF BootStep, BootProgress, ClearAbort, RecheckBegin, LostBegin,
       PrepareFailsEarly, Prepare, LockForBoot, ClaimSlot, BindSlot, BindFails,
       StartWorkers, LoopSeesAbort, LoopBreaks, Terminate, BootEnded, JoinScan,
       StopWorkers, ReleaseBegin, ReleaseEnd, FreePassages, shared
  <2>2. CASE co_run_begin(b)
    BY Zenon, <2>2 DEF co_run_begin, Idle, co_run_state
  <2>3. CASE co_run_publish(b)
    BY <2>3 DEF co_run_publish, Gate, co_run_state
  <2>4. CASE co_run_finish(b)
    BY Zenon, <2>4 DEF co_run_finish, co_run_state
  <2> QED BY Zenon, <2>1, <2>2, <2>3, <2>4 DEF co_run_state
<1>3. ASSUME NEW t \in Testers, TestStep(t) PROVE co_run_state' = "RUNNING"
  BY <1>3 DEF TestStep, TestProgress, co_run_test_enter, TestClearAbort, TestRecheck,
     TestLost, TestAdmit, ClaimSlot, BindSlot, BindFails, TestLaneEnds, ReleaseBegin,
     ReleaseEnd, co_run_test_leave, TestStarting, Idle, co_run_state, shared
<1>4. ASSUME NEW q \in Pollers, PollStep(q) PROVE co_run_state' = "RUNNING"
  BY Zenon, <1>4, GatePoll DEF co_run_state
<1>5. ASSUME NEW s \in Stoppers, Stop(s) PROVE co_run_state' = "RUNNING"
  BY Zenon, <1>5 DEF Stop, shared, co_run_state
<1>6. ASSUME NEW t \in Boots \cup Pollers, NEW v \in Lanes, StartVcpu(t, v)
      PROVE  co_run_state' = "RUNNING"
  BY Zenon, <1>6 DEF StartVcpu, co_run_state
<1> QED BY <1>1, <1>2, <1>3, <1>4, <1>5, <1>6, StepCases, ZenonT(60)

LEMMA LockNext == Typed /\ GateAll /\ LockInv /\ [Next]_vars => LockInv'
<1> SUFFICES ASSUME Typed, GateAll, LockInv, [Next]_vars PROVE LockInv'
  BY Zenon
<1> DEFINE Held == \A u \in Threads : Locked(u) => claim_lock = u
<1>1. ASSUME NEW t \in Threads, Others(t), LockStep(t) PROVE Held'
  BY Zenon, <1>1 DEF Others, LockStep, Locked, LockInv
<1>2. ASSUME \A u \in Threads : pc'[u] = pc[u], claim_lock' = claim_lock PROVE Held'
  BY Zenon, <1>2 DEF Locked, LockInv
<1>3. Held'
  <2>1. ASSUME NEW s \in Stoppers, Stop(s) PROVE Held'
    <3>1. Others(s) /\ LockStep(s)
      BY <2>1, TypeStop, ZenonT(60) DEF Stop, shared, LockStep, Locked, Typed, TypeOK, ThreadTypes
    <3> QED BY Zenon, <1>1, <3>1
  <2>2. ASSUME NEW t \in Boots \cup Pollers, NEW v \in Lanes, StartVcpu(t, v) PROVE Held'
    BY Zenon, <1>2, <2>2 DEF StartVcpu
  <2>3. CASE UNCHANGED vars
    BY Zenon, <1>2, <2>3 DEF vars, shared
  <2> QED
    BY Zenon, <1>1, <2>1, <2>2, <2>3, StepCases, LockSteps, TypeAbort, TypeBoot, TypePoll, TypeTest
<1>4. ASSUME NEW p \in Pollers, Locked(p)' PROVE co_run_state' = "RUNNING"
  <2>1. CASE Locked(p)
    BY Zenon, <2>1, RunningKept DEF LockInv, Locked, vars, shared, co_run_state
  <2>2. CASE ~Locked(p)
    <3>1. Admit(p)
      <4>1. ASSUME NEW t \in Threads, t # p, Others(t) PROVE FALSE
        BY Zenon, <1>4, <2>2, <4>1 DEF Others, Locked
      <4>2. ASSUME pc' = pc PROVE FALSE
        BY Zenon, <1>4, <2>2, <4>2 DEF Locked
      <4>3. ASSUME CloseGate(p) \/ RaiseAbort(p) PROVE FALSE
        BY Zenon, <1>4, <2>2, <4>3 DEF CloseGate, RaiseAbort, Locked, Typed, TypeOK, ThreadTypes,
           ReturnInv, InAbort, PollReturns
      <4>4. ASSUME PollStep(p) PROVE Admit(p)
        BY <1>4, <2>2, <4>4, ZenonT(60)
        DEF Typed, TypeOK, ThreadTypes, Locked, PollStep, PollProgress,
           KvcpuRun, PollCheck, SwitchAllowed, SwitchRefused, ClaimSlot, BindSlot, BindFails,
           AdmittedCheck, TakePassage, ConsumeRequest, EnterGuest, LoopSeesAbort, LoopBreaks,
           Terminate, LaneLeft, ReleaseBegin, ReleaseEnd, LeaveLoop
      <4>5. ASSUME NEW t \in Boots \cup Pollers, NEW v \in Lanes, StartVcpu(t, v) PROVE FALSE
        BY Zenon, <4>2, <4>5 DEF StartVcpu
      <4>6. CASE UNCHANGED vars
        BY Zenon, <4>2, <4>6 DEF vars
      <4> QED
        BY Zenon, <4>1, <4>3, <4>4, <4>5, <4>6, StepCases, TypeAbort, TypeBoot, TypePoll, TypeTest,
           TypeStop
    <3>2. co_run_state = "RUNNING" /\ co_run_gate' = co_run_gate
      BY Zenon, <1>4, <2>2, <3>1 DEF Admit, Locked, Wanted, Typed, TypeOK, ThreadTypes
    <3> QED BY Zenon, <3>2 DEF co_run_state
  <2> QED BY Zenon, <2>1, <2>2
<1> QED BY Zenon, <1>3, <1>4 DEF LockInv, Locked

-----------------------------------------------------------------------------
(* The vCPU slots. *)

(* What a step of t may do to the slot it names. *)
KeepSlot(t) ==
  /\ active' = active /\ host_cpu' = host_cpu
  /\ Claiming(t)' <=> Claiming(t)
  /\ Owning(t)' <=> Owning(t)
  /\ Releasing(t)' <=> Releasing(t)
  /\ Holds(t) => cpu'[t] = cpu[t]
WinSlot(t) ==
  /\ pc[t] = "claim" /\ pc'[t] = "bind" /\ cpu'[t] = cpu[t]
  /\ active[SlotOf[t]] = "FREE"
  /\ active' = [active EXCEPT ![SlotOf[t]] = "CLAIMING"]
  /\ host_cpu' = [host_cpu EXCEPT ![SlotOf[t]] = cpu[t]]
PublishSlot(t) ==
  /\ Claiming(t) /\ Owning(t)' /\ ~Claiming(t)' /\ ~Releasing(t)' /\ cpu'[t] = cpu[t]
  /\ active' = [active EXCEPT ![SlotOf[t]] = "ACTIVE"]
  /\ host_cpu' = host_cpu
StopSlot(t) ==
  /\ Owning(t) /\ Releasing(t)' /\ ~Owning(t)' /\ ~Claiming(t)' /\ cpu'[t] = cpu[t]
  /\ active' = [active EXCEPT ![SlotOf[t]] = "STOPPING"]
  /\ host_cpu' = host_cpu
FreeSlot(t) ==
  /\ Holds(t) /\ ~Holds(t)'
  /\ active' = [active EXCEPT ![SlotOf[t]] = "FREE"]
  /\ host_cpu' = [host_cpu EXCEPT ![SlotOf[t]] = NoCore]
SlotStep(t) == KeepSlot(t) \/ WinSlot(t) \/ PublishSlot(t) \/ StopSlot(t) \/ FreeSlot(t)

LEMMA SlotBoot == ASSUME Typed, NEW b \in Boots, BootStep(b) PROVE SlotStep(b)
<1> USE DEF Typed, TypeOK, ThreadTypes, BootLabels, Holds, Claiming, Owning, Releasing, At
<1>1. CASE ClaimSlot(b, BootRefused(b))
  BY <1>1 DEF ClaimSlot, SlotStep, WinSlot, KeepSlot
<1>2. CASE BindSlot(b, "start")
  BY Zenon, <1>2 DEF BindSlot, SlotStep, PublishSlot
<1>3. CASE BindFails(b, BootRefused(b))
  BY Zenon, <1>3 DEF BindFails, SlotStep, FreeSlot
<1>4. CASE ReleaseBegin(b, "releaseBoot", "freeBoot")
  BY Zenon, <1>4 DEF ReleaseBegin, SlotStep, StopSlot
<1>5. CASE ReleaseBegin(b, "failRelease", "failFree")
  BY Zenon, <1>5 DEF ReleaseBegin, SlotStep, StopSlot
<1>6. CASE ReleaseEnd(b, "freeBoot", BootRefused(b))
  BY Zenon, <1>6 DEF ReleaseEnd, SlotStep, FreeSlot
<1>7. CASE ReleaseEnd(b, "failFree", Go(b, "free") /\ UNCHANGED <<ret, cpu>>)
  BY Zenon, <1>7 DEF ReleaseEnd, SlotStep, FreeSlot
<1>8. ASSUME \/ co_run_begin(b) \/ ClearAbort(b) \/ RecheckBegin(b) \/ LostBegin(b)
             \/ PrepareFailsEarly(b) \/ Prepare(b) \/ LockForBoot(b)
      PROVE  KeepSlot(b)
  BY <1>8 DEF KeepSlot, co_run_begin, ClearAbort, RecheckBegin, LostBegin,
     PrepareFailsEarly, Prepare, LockForBoot, shared
<1>9. ASSUME StartWorkers(b) \/ co_run_publish(b) \/ JoinScan(b)
      PROVE  KeepSlot(b)
  BY <1>9 DEF KeepSlot, StartWorkers, co_run_publish, JoinScan, shared
<1>10. ASSUME LoopSeesAbort(b) \/ LoopBreaks(b) \/ Terminate(b) \/ BootEnded(b)
      PROVE  KeepSlot(b)
  BY Zenon, <1>10 DEF KeepSlot, LoopSeesAbort, LoopBreaks, Terminate, BootEnded, LeaveLoop,
     Crossing, shared
<1>11. ASSUME \/ StopWorkers(b, "stopWorkers", "releaseBoot")
             \/ StopWorkers(b, "failWorkers", "failRelease")
             \/ FreePassages(b) \/ co_run_finish(b)
      PROVE  KeepSlot(b)
  BY Zenon, <1>11 DEF KeepSlot, StopWorkers, FreePassages, co_run_finish
<1> QED
  BY Zenon, <1>1, <1>2, <1>3, <1>4, <1>5, <1>6, <1>7, <1>8, <1>9, <1>10, <1>11
     DEF BootStep, BootProgress, SlotStep

LEMMA SlotPoll == ASSUME Typed, NEW p \in Pollers, PollStep(p) PROVE SlotStep(p)
<1> USE DEF Typed, TypeOK, ThreadTypes, PollLabels, Holds, Claiming, Owning, Releasing, At
<1>1. CASE ClaimSlot(p, PollRefused(p))
  BY <1>1 DEF ClaimSlot, SlotStep, WinSlot, KeepSlot
<1>2. CASE BindSlot(p, "admitted")
  BY Zenon, <1>2 DEF BindSlot, SlotStep, PublishSlot
<1>3. CASE BindFails(p, PollRefused(p))
  BY Zenon, <1>3 DEF BindFails, SlotStep, FreeSlot
<1>4. CASE ReleaseBegin(p, "release", "freeSlot")
  BY Zenon, <1>4 DEF ReleaseBegin, SlotStep, StopSlot
<1>5. CASE ReleaseEnd(p, "freeSlot", PollRefused(p))
  BY Zenon, <1>5 DEF ReleaseEnd, SlotStep, FreeSlot
<1>6. ASSUME \/ KvcpuRun(p) \/ PollCheck(p) \/ SwitchAllowed(p) \/ SwitchRefused(p)
             \/ Admit(p)
      PROVE  KeepSlot(p)
  <2>1. active' = active /\ host_cpu' = host_cpu /\ ~Holds(p)
    BY <1>6, ZenonT(60) DEF KvcpuRun, PollCheck, SwitchAllowed, SwitchRefused, Admit, shared
  <2>2. ~Holds(p)'
    BY <1>6 DEF KvcpuRun, PollCheck, SwitchAllowed, SwitchRefused, Admit
  <2> QED BY <2>1, <2>2, ZenonT(60) DEF KeepSlot
<1>7. ASSUME AdmittedCheck(p) \/ TakePassage(p) \/ ConsumeRequest(p) \/ EnterGuest(p)
      PROVE  KeepSlot(p)
  BY <1>7 DEF KeepSlot, AdmittedCheck, TakePassage, ConsumeRequest, EnterGuest, shared
<1>8. ASSUME LoopSeesAbort(p) \/ LoopBreaks(p) \/ Terminate(p) \/ LaneLeft(p)
      PROVE  KeepSlot(p)
  BY <1>8 DEF KeepSlot, LoopSeesAbort, LoopBreaks, Terminate, LaneLeft, LeaveLoop,
     Crossing, shared
<1> QED
  BY Zenon, <1>1, <1>2, <1>3, <1>4, <1>5, <1>6, <1>7, <1>8 DEF PollStep, PollProgress, SlotStep

LEMMA SlotTest == ASSUME Typed, NEW t \in Testers, TestStep(t) PROVE SlotStep(t)
<1> USE DEF Typed, TypeOK, ThreadTypes, TestLabels, Holds, Claiming, Owning, Releasing, At
<1>1. CASE ClaimSlot(t, TestRefused(t))
  BY <1>1 DEF ClaimSlot, SlotStep, WinSlot, KeepSlot
<1>2. CASE BindSlot(t, "testLane")
  BY Zenon, <1>2 DEF BindSlot, SlotStep, PublishSlot
<1>3. CASE BindFails(t, TestRefused(t))
  BY Zenon, <1>3 DEF BindFails, SlotStep, FreeSlot
<1>4. CASE ReleaseBegin(t, "release", "freeSlot")
  BY Zenon, <1>4 DEF ReleaseBegin, SlotStep, StopSlot
<1>5. CASE ReleaseEnd(t, "freeSlot", TestRefused(t))
  BY Zenon, <1>5 DEF ReleaseEnd, SlotStep, FreeSlot
<1>6. ASSUME \/ co_run_test_enter(t) \/ TestClearAbort(t) \/ TestRecheck(t) \/ TestLost(t)
             \/ TestAdmit(t) \/ TestLaneEnds(t) \/ co_run_test_leave(t)
      PROVE  KeepSlot(t)
  BY <1>6 DEF KeepSlot, co_run_test_enter, TestClearAbort, TestRecheck, TestLost,
     TestAdmit, TestLaneEnds, co_run_test_leave, shared
<1> QED BY Zenon, <1>1, <1>2, <1>3, <1>4, <1>5, <1>6 DEF TestStep, TestProgress, SlotStep

LEMMA SlotAbort ==
  ASSUME Typed, NEW t \in Holders, CloseGate(t) \/ RaiseAbort(t)
  PROVE  KeepSlot(t)
  BY DEF Typed, TypeOK, ThreadTypes, TestLabels, Holders, ReturnInv, InAbort, BootReturns,
     PollReturns, KeepSlot, Holds, Claiming, Owning, Releasing, At, CloseGate, RaiseAbort

LEMMA SlotThread ==
  ASSUME Typed, SlotInv, NEW t \in Holders, Others(t), SlotStep(t)
  PROVE  SlotInv'
<1> USE DEF Typed, TypeOK, SharedTypes, ThreadTypes
<1>1. \A u \in Holders \ {t} : /\ Claiming(u)' <=> Claiming(u)
                               /\ Owning(u)' <=> Owning(u)
                               /\ Releasing(u)' <=> Releasing(u)
                               /\ cpu'[u] = cpu[u]
  BY ZenonT(60) DEF Holders, Others, Claiming, Owning, Releasing, At
<1>2. \A u \in Holders \ {t} : Holds(u)' <=> Holds(u)
  BY <1>1, ZenonT(60) DEF Holds
<1>3. \A u \in Holders : SlotOf[u] \in Slots
  BY Zenon DEF Holders
<1>4. ASSUME Holds(t)' <=> Holds(t),
             \A v \in Slots \ {SlotOf[t]} : active'[v] = active[v] /\ host_cpu'[v] = host_cpu[v],
             Holds(t) => SlotState(t)', ~Holds(t) => active' = active /\ host_cpu' = host_cpu
      PROVE  SlotInv'
  <2>1. SlotUnique'
    BY <1>2, <1>4, ZenonT(60) DEF SlotInv, SlotUnique
  <2>2. SlotOwned'
    BY <1>2, <1>3, <1>4 DEF SlotInv, SlotOwned
  <2>3. ASSUME NEW u \in Holders \ {t} PROVE SlotState(u)'
    <3>1. Holds(u) => active'[SlotOf[u]] = active[SlotOf[u]]
                      /\ host_cpu'[SlotOf[u]] = host_cpu[SlotOf[u]]
      <4>1. Holds(u) /\ Holds(t) => SlotOf[u] \in Slots \ {SlotOf[t]}
        BY <1>3, ZenonT(60) DEF SlotInv, SlotUnique
      <4> QED BY <1>4, <4>1, ZenonT(60)
    <3> QED BY <1>1, <1>2, <3>1, ZenonT(60) DEF SlotInv, SlotState, Holds
  <2>4. SlotState(t)'
    BY <1>4, ZenonT(60) DEF SlotState, Holds
  <2> QED BY Zenon, <2>1, <2>2, <2>3, <2>4 DEF SlotInv
<1>5. CASE KeepSlot(t)
  BY <1>4, <1>5, ZenonT(60) DEF KeepSlot, Holds, SlotInv, SlotState
<1>6. CASE PublishSlot(t)
  BY <1>3, <1>4, <1>6, ZenonT(60) DEF PublishSlot, Holds, SlotInv, SlotState
<1>7. CASE StopSlot(t)
  BY <1>3, <1>4, <1>7, ZenonT(60) DEF StopSlot, Holds, SlotInv, SlotState
<1>8. CASE WinSlot(t)
  <2>1. ~Holds(t) /\ Claiming(t)' /\ Holds(t)' /\ ~Owning(t)' /\ ~Releasing(t)'
    BY <1>8, ZenonT(60) DEF WinSlot, Holds, Claiming, Owning, Releasing, At
  <2>2. \A u \in Holders : Holds(u) => SlotOf[u] # SlotOf[t]
    BY <1>8, ZenonT(60) DEF WinSlot, SlotInv, SlotState, Holds
  <2>3. SlotUnique'
    BY Zenon, <1>2, <2>2 DEF SlotInv, SlotUnique
  <2>4. SlotOwned'
    BY <1>2, <1>3, <1>8, <2>1, ZenonT(60) DEF WinSlot, SlotInv, SlotOwned
  <2>5. \A u \in Holders \ {t} : SlotState(u)'
    BY <1>1, <1>2, <1>3, <1>8, <2>2, ZenonT(60) DEF WinSlot, SlotInv, SlotState, Holds
  <2>6. SlotState(t)'
    BY <1>3, <1>8, <2>1, ZenonT(60) DEF WinSlot, SlotState
  <2> QED BY Zenon, <2>3, <2>4, <2>5, <2>6 DEF SlotInv
<1>9. CASE FreeSlot(t)
  <2>1. SlotUnique'
    BY Zenon, <1>2, <1>9 DEF FreeSlot, SlotInv, SlotUnique
  <2>2. SlotOwned'
    BY Zenon, <1>2, <1>3, <1>9 DEF FreeSlot, SlotInv, SlotOwned
  <2>3. \A u \in Holders \ {t} : SlotState(u)'
    BY <1>1, <1>2, <1>3, <1>9, ZenonT(60) DEF FreeSlot, SlotInv, SlotState, SlotUnique, Holds
  <2>4. SlotState(t)'
    BY <1>9, ZenonT(60) DEF FreeSlot, SlotState, Holds
  <2> QED BY Zenon, <2>1, <2>2, <2>3, <2>4 DEF SlotInv
<1> QED BY Zenon, <1>5, <1>6, <1>7, <1>8, <1>9 DEF SlotStep

LEMMA SlotNext == Typed /\ SlotInv /\ [Next]_vars => SlotInv'
<1> SUFFICES ASSUME Typed, SlotInv, [Next]_vars PROVE SlotInv'
  BY Zenon
<1>1. ASSUME active' = active, host_cpu' = host_cpu,
             \A u \in Holders : pc'[u] = pc[u] /\ ret'[u] = ret[u] /\ cpu'[u] = cpu[u]
      PROVE  SlotInv'
  <2>1. \A u \in Holders : /\ Claiming(u)' <=> Claiming(u)
                           /\ Owning(u)' <=> Owning(u)
                           /\ Releasing(u)' <=> Releasing(u)
    BY <1>1, ZenonT(60) DEF Claiming, Owning, Releasing, At
  <2>2. \A u \in Holders : Holds(u)' <=> Holds(u)
    BY <2>1, ZenonT(60) DEF Holds
  <2>3. \A u \in Holders : SlotState(u)'
    BY <1>1, <2>1, <2>2, ZenonT(60) DEF SlotInv, SlotState
  <2> QED BY <1>1, <2>2, <2>3, ZenonT(60) DEF SlotInv, SlotUnique, SlotOwned
<1>2. ASSUME NEW t \in Threads, CloseGate(t) \/ RaiseAbort(t) PROVE SlotInv'
  <2>1. CASE t \in Holders
    BY Zenon, <1>2, <2>1, TypeAbort, SlotAbort, SlotThread DEF SlotStep
  <2>2. CASE t \notin Holders
    BY <1>1, <1>2, <2>2, TypeAbort, ZenonT(60) DEF Others, Holders, CloseGate, RaiseAbort
  <2> QED BY Zenon, <2>1, <2>2
<1>3. ASSUME NEW s \in Stoppers, Stop(s) PROVE SlotInv'
  BY <1>1, <1>3, TypeStop, ZenonT(60) DEF Others, Holders, Stop, shared
<1>4. ASSUME NEW t \in Boots \cup Pollers, NEW v \in Lanes, StartVcpu(t, v) PROVE SlotInv'
  BY <1>1, <1>4, ZenonT(60) DEF StartVcpu
<1>5. CASE UNCHANGED vars
  BY <1>1, <1>5, ZenonT(60) DEF vars, shared
<1>6. ASSUME NEW b \in Boots, BootStep(b) PROVE SlotInv'
  BY Zenon, <1>6, TypeBoot, SlotBoot, SlotThread DEF Holders
<1>7. ASSUME NEW p \in Pollers, PollStep(p) PROVE SlotInv'
  BY Zenon, <1>7, TypePoll, SlotPoll, SlotThread DEF Holders
<1>8. ASSUME NEW t \in Testers, TestStep(t) PROVE SlotInv'
  BY Zenon, <1>8, TypeTest, SlotTest, SlotThread DEF Holders
<1> QED BY <1>2, <1>3, <1>4, <1>5, <1>6, <1>7, <1>8, StepCases, ZenonT(60)
-----------------------------------------------------------------------------
(* The teardown scan. *)

(* How a KBOOT leaves its run: only by a scan that has reached the end.    *)
LEMMA BootMoves ==
  ASSUME Typed, NEW b \in Boots, BootStep(b)
  PROVE  /\ InRun(b) => InRun(b)' \/ (JoinScan(b) /\ scan[b] \notin Lanes)
         /\ pc'[b] = "join" => JoinScan(b)
         /\ JoinScan(b) \/ scan' = scan
<1> USE DEF Typed, TypeOK, ThreadTypes, BootLabels
<1>1. CASE JoinScan(b)
  BY Zenon, <1>1 DEF JoinScan, InRun, At
<1>2. ASSUME \/ co_run_begin(b) \/ ClearAbort(b) \/ RecheckBegin(b) \/ LostBegin(b)
             \/ PrepareFailsEarly(b) \/ Prepare(b) \/ LockForBoot(b)
      PROVE  ~InRun(b) /\ pc'[b] # "join" /\ scan' = scan
  BY Zenon, <1>2 DEF InRun, At, co_run_begin, ClearAbort, RecheckBegin, LostBegin,
     PrepareFailsEarly, Prepare, LockForBoot
<1>3. ASSUME \/ ClaimSlot(b, BootRefused(b)) \/ BindSlot(b, "start")
             \/ BindFails(b, BootRefused(b)) \/ StartWorkers(b) \/ co_run_publish(b)
      PROVE  ~InRun(b) /\ pc'[b] # "join" /\ scan' = scan
  BY Zenon, <1>3 DEF InRun, At, ClaimSlot, BindSlot, BindFails, StartWorkers, co_run_publish
<1>4. ASSUME LoopSeesAbort(b) \/ LoopBreaks(b) \/ Terminate(b) \/ BootEnded(b)
      PROVE  InRun(b)' /\ pc'[b] # "join" /\ scan' = scan
  BY Zenon, <1>4 DEF InRun, At, LoopSeesAbort, LoopBreaks, Terminate, BootEnded, LeaveLoop, Crossing
<1>5. ASSUME \/ StopWorkers(b, "stopWorkers", "releaseBoot")
             \/ ReleaseBegin(b, "releaseBoot", "freeBoot")
             \/ ReleaseEnd(b, "freeBoot", BootRefused(b))
             \/ StopWorkers(b, "failWorkers", "failRelease")
             \/ ReleaseBegin(b, "failRelease", "failFree")
             \/ ReleaseEnd(b, "failFree", Go(b, "free") /\ UNCHANGED <<ret, cpu>>)
             \/ FreePassages(b) \/ co_run_finish(b)
      PROVE  ~InRun(b) /\ pc'[b] # "join" /\ scan' = scan
  BY Zenon, <1>5 DEF InRun, At, StopWorkers, ReleaseBegin, ReleaseEnd, FreePassages, co_run_finish
<1> QED BY Zenon, <1>1, <1>2, <1>3, <1>4, <1>5 DEF BootStep, BootProgress

LEMMA BootAborts ==
  ASSUME Typed, NEW b \in Boots, NEW t \in Threads, CloseGate(t) \/ RaiseAbort(t)
  PROVE  /\ InRun(b)' <=> InRun(b)
         /\ HasPassages(b)' <=> HasPassages(b)
         /\ pc[b] = "join" => pc'[b] = "join"
         /\ pc'[b] = "publish" => pc[b] = "publish"
         /\ scan' = scan
  BY DEF Typed, TypeOK, ThreadTypes, ReturnInv, InAbort, BootReturns, InRun, HasPassages, At,
     CloseGate, RaiseAbort

(* The slot a secondary holds has not been passed by the scan. *)
Behind(b, p) == InRun(b) /\ (pc[b] = "join" => scan[b] <= SlotOf[p])

LEMMA ScanNext ==
  Typed /\ GateAll /\ LockInv /\ SlotInv /\ ScanInv /\ [Next]_vars => ScanInv'
<1> SUFFICES ASSUME Typed, GateAll, LockInv, SlotInv, ScanInv, [Next]_vars PROVE ScanInv'
  BY Zenon
<1> USE DEF Typed, TypeOK, SharedTypes, ThreadTypes
<1> DEFINE Reset == \A b \in Boots : pc[b] # "join" => scan[b] = 1
           Found == \A p \in Pollers : Holds(p) => \E b \in Boots : Behind(b, p)
<1>1. Reset /\ Found
  BY Zenon DEF ScanInv, Behind
<1>2. ASSUME NEW t \in Threads, CloseGate(t) \/ RaiseAbort(t) PROVE Reset' /\ Found'
  <2>1. Reset'
    BY Zenon, <1>1, <1>2, BootAborts
  <2>2. \A p \in Pollers : Holds(p)' <=> Holds(p)
    <3>1. ASSUME NEW p \in Pollers, p # t PROVE Holds(p)' <=> Holds(p)
      BY <1>2, <3>1, TypeAbort DEF Others, Holds, Claiming, Owning, Releasing, At
    <3>2. ASSUME t \in Pollers PROVE Holds(t)' <=> Holds(t)
      BY Zenon, <1>2, <3>2, SlotAbort DEF KeepSlot, Holders, Holds
    <3> QED BY Zenon, <3>1, <3>2
  <2>3. \A b \in Boots, p \in Pollers : Behind(b, p) => Behind(b, p)'
    BY <1>1, <1>2, BootAborts DEF Behind
  <2> QED BY Zenon, <1>1, <2>1, <2>2, <2>3
<1>3. ASSUME NEW b \in Boots, BootStep(b) PROVE Reset' /\ Found'
  <2>1. Others(b) /\ \A c \in Boots \ {b} : scan'[c] = scan[c]
    <3>1. JoinScan(b) => \A c \in Boots \ {b} : scan'[c] = scan[c]
      BY Zenon DEF JoinScan
    <3> QED BY Zenon, <1>3, <3>1, TypeBoot, BootMoves
  <2>2. Reset'
    <3>1. pc'[b] # "join" => scan'[b] = 1
      <4>1. CASE JoinScan(b)
        BY Zenon, <4>1 DEF JoinScan
      <4>2. CASE ~JoinScan(b)
        <5>1. scan' = scan /\ pc'[b] # "join"
          BY Zenon, <1>3, <4>2, BootMoves
        <5>2. pc[b] # "join"
          BY Zenon, <1>3, <4>2 DEF BootStep, BootProgress, co_run_begin, ClearAbort, RecheckBegin,
             LostBegin, PrepareFailsEarly, Prepare, LockForBoot, ClaimSlot, BindSlot,
             BindFails, StartWorkers, co_run_publish, LoopSeesAbort, LoopBreaks, Terminate,
             BootEnded, StopWorkers, ReleaseBegin, ReleaseEnd, FreePassages, co_run_finish,
             Crossing
        <5> QED BY Zenon, <1>1, <5>1, <5>2
      <4> QED BY Zenon, <4>1, <4>2
    <3> QED BY Zenon, <1>1, <2>1, <3>1 DEF Others
  <2>3. \A p \in Pollers : Holds(p)' <=> Holds(p)
    BY <2>1 DEF Others, Holds, Claiming, Owning, Releasing, At
  <2>4. ASSUME NEW p \in Pollers, Holds(p), NEW c \in Boots, Behind(c, p) PROVE Behind(c, p)'
    <3>1. CASE c # b
      BY Zenon, <2>1, <2>4, <3>1 DEF Others, Behind, InRun, At
    <3>2. CASE c = b /\ ~JoinScan(b)
      BY Zenon, <1>3, <2>4, <3>2, BootMoves DEF Behind
    <3>3. CASE c = b /\ JoinScan(b)
      <4>1. pc[b] = "join" /\ scan[b] <= SlotOf[p] /\ SlotOf[p] \in Lanes
        BY Zenon, <2>4, <3>3 DEF Behind, JoinScan
      <4>2. active[SlotOf[p]] # "FREE"
        BY Zenon, <2>4 DEF SlotInv, SlotState, Holds, Holders
      <4>3. scan'[b] <= SlotOf[p] /\ pc' = pc
        BY <3>3, <4>1, <4>2 DEF JoinScan
      <4> QED BY Zenon, <3>3, <4>1, <4>3 DEF Behind, InRun, At
    <3> QED BY Zenon, <3>1, <3>2, <3>3
  <2> QED BY Zenon, <1>1, <2>2, <2>3, <2>4
<1>4. ASSUME scan' = scan, \A b \in Boots : pc'[b] = pc[b] /\ ret'[b] = ret[b]
      PROVE  Reset' /\ \A b \in Boots, p \in Pollers : Behind(b, p)' <=> Behind(b, p)
  BY Zenon, <1>1, <1>4 DEF Behind, InRun, At
<1>5. ASSUME NEW p \in Pollers, PollStep(p) PROVE Reset' /\ Found'
  <2>1. scan' = scan
    BY Zenon, <1>5 DEF PollStep, PollProgress, KvcpuRun, PollCheck, SwitchAllowed, SwitchRefused,
       Admit, ClaimSlot, BindSlot, BindFails, AdmittedCheck, TakePassage, ConsumeRequest,
       EnterGuest, LoopSeesAbort, LoopBreaks, Terminate, LaneLeft, ReleaseBegin, ReleaseEnd
  <2>2. Others(p)
    BY Zenon, <1>5, TypePoll
  <2>3. \A q \in Pollers \ {p} : Holds(q)' <=> Holds(q)
    BY Zenon, <2>2 DEF Others, Holds, Claiming, Owning, Releasing, At
  <2>4. Holds(p)' /\ ~Holds(p) => \E b \in Boots : Behind(b, p)
    <3>1. Holds(p)' /\ ~Holds(p) => pc[p] = "claim"
      BY Zenon, <1>5, SlotPoll
      DEF SlotStep, KeepSlot, WinSlot, PublishSlot, StopSlot, FreeSlot, Holds
    <3>2. pc[p] = "claim" => \E b \in Boots : InRun(b) /\ pc[b] # "join"
      BY Zenon DEF LockInv, GateAll, GateInv, BootGate
    <3> QED BY Zenon, <3>1, <3>2 DEF Behind
  <2>5. Reset' /\ \A b \in Boots, q \in Pollers : Behind(b, q)' <=> Behind(b, q)
    BY Zenon, <1>4, <2>1, <2>2 DEF Others
  <2> QED BY <1>1, <2>3, <2>4, <2>5, SMTT(60)
<1>6. ASSUME scan' = scan, \A u \in Boots \cup Pollers : pc'[u] = pc[u] /\ ret'[u] = ret[u]
      PROVE  Reset' /\ Found'
  <2>1. \A p \in Pollers : Holds(p)' <=> Holds(p)
    BY Zenon, <1>6 DEF Holds, Claiming, Owning, Releasing, At
  <2> QED BY Zenon, <1>1, <1>4, <1>6, <2>1
<1>7. ASSUME NEW t \in Testers, TestStep(t) PROVE Reset' /\ Found'
  <2>1. scan' = scan
    BY <1>7, ZenonT(60) DEF TestStep, TestProgress, co_run_test_enter, TestClearAbort, TestRecheck,
       TestLost, TestAdmit, ClaimSlot, BindSlot, BindFails, TestLaneEnds, ReleaseBegin,
       ReleaseEnd, co_run_test_leave
  <2> QED BY <1>6, <1>7, <2>1, TypeTest, SMTT(60) DEF Others
<1>8. ASSUME NEW s \in Stoppers, Stop(s) PROVE Reset' /\ Found'
  BY <1>6, <1>8, TypeStop DEF Others, Stop
<1>9. ASSUME NEW t \in Boots \cup Pollers, NEW v \in Lanes, StartVcpu(t, v)
      PROVE  Reset' /\ Found'
  BY Zenon, <1>6, <1>9 DEF StartVcpu
<1>10. ASSUME UNCHANGED vars PROVE Reset' /\ Found'
  BY Zenon, <1>6, <1>10 DEF vars
<1>11. Reset' /\ Found'
  BY <1>2, <1>3, <1>5, <1>7, <1>8, <1>9, <1>10, StepCases, ZenonT(60)
<1> QED BY Zenon, <1>11 DEF ScanInv, Behind

-----------------------------------------------------------------------------
(* The passage pages. *)

(* A secondary that holds a slot shuts every other phase of a KBOOT out.   *)
LEMMA HeldMeansRun ==
  ASSUME OneBoot, ScanInv, NEW p \in Pollers, Holds(p), NEW b \in Boots, pc[b] # "out"
  PROVE  InRun(b)
  BY ZenonT(60) DEF OneBoot, ScanInv, InRun, At

LEMMA UserHolds == ASSUME NEW p \in Pollers, UsesPassage(p) PROVE Holds(p)
  BY ZenonT(60) DEF UsesPassage, Holds, Owning, At

(* Only boot_prepare and the cleanup of a run touch the pages. *)
LEMMA BootPassages ==
  ASSUME Typed, NEW b \in Boots, BootStep(b)
  PROVE  /\ ap_passage' = ap_passage \/ (pc[b] \in {"prepare", "free"} /\ ~InRun(b))
         /\ \/ HasPassages(b)' /\ (ap_passage' = ap_passage \/ pc[b] = "prepare")
            \/ ap_passage' = ap_passage /\ ~HasPassages(b)
            \/ \A v \in Lanes : ~ap_passage'[v]
<1> USE DEF Typed, TypeOK, ThreadTypes, BootLabels, HasPassages, At
<1>1. ASSUME co_run_begin(b) \/ ClearAbort(b) \/ RecheckBegin(b) \/ LostBegin(b)
      PROVE  ap_passage' = ap_passage /\ ~HasPassages(b)
  BY <1>1, ZenonT(60) DEF co_run_begin, ClearAbort, RecheckBegin, LostBegin, shared
<1>2. ASSUME PrepareFailsEarly(b)
      PROVE  ap_passage' = ap_passage /\ HasPassages(b)'
  BY Zenon, <1>2 DEF PrepareFailsEarly, shared
<1>3. ASSUME Prepare(b)
      PROVE  pc[b] = "prepare" /\ ~InRun(b) /\ HasPassages(b)'
  BY Zenon, <1>3 DEF Prepare, InRun
<1>4. ASSUME \/ LockForBoot(b) \/ ClaimSlot(b, BootRefused(b)) \/ BindSlot(b, "start")
             \/ BindFails(b, BootRefused(b)) \/ StartWorkers(b) \/ co_run_publish(b)
      PROVE  ap_passage' = ap_passage /\ HasPassages(b)'
  BY Zenon, <1>4 DEF LockForBoot, ClaimSlot, BindSlot, BindFails, StartWorkers, co_run_publish
<1>5. ASSUME \/ LoopSeesAbort(b) \/ LoopBreaks(b) \/ Terminate(b) \/ BootEnded(b)
             \/ JoinScan(b)
      PROVE  ap_passage' = ap_passage /\ HasPassages(b)'
  BY Zenon, <1>5 DEF LoopSeesAbort, LoopBreaks, Terminate, BootEnded, JoinScan, LeaveLoop,
     Crossing, shared
<1>6. ASSUME \/ StopWorkers(b, "stopWorkers", "releaseBoot")
             \/ ReleaseBegin(b, "releaseBoot", "freeBoot")
             \/ ReleaseEnd(b, "freeBoot", BootRefused(b))
             \/ StopWorkers(b, "failWorkers", "failRelease")
             \/ ReleaseBegin(b, "failRelease", "failFree")
             \/ ReleaseEnd(b, "failFree", Go(b, "free") /\ UNCHANGED <<ret, cpu>>)
      PROVE  ap_passage' = ap_passage /\ HasPassages(b)'
  BY Zenon, <1>6 DEF StopWorkers, ReleaseBegin, ReleaseEnd
<1>7. ASSUME FreePassages(b)
      PROVE  pc[b] = "free" /\ ~InRun(b) /\ \A v \in Lanes : ~ap_passage'[v]
  BY Zenon, <1>7 DEF FreePassages, InRun
<1>8. ASSUME co_run_finish(b)
      PROVE  ap_passage' = ap_passage /\ ~HasPassages(b)
  BY <1>8, ZenonT(60) DEF co_run_finish
<1> HIDE DEF HasPassages
<1> QED
  BY <1>1, <1>2, <1>3, <1>4, <1>5, <1>6, <1>7, <1>8, ZenonT(60) DEF BootStep, BootProgress

LEMMA PollPassages ==
  ASSUME Typed, NEW p \in Pollers, PollStep(p)
  PROVE  /\ ap_passage' = ap_passage
         /\ UsesPassage(p)' => UsesPassage(p) \/ ap_passage[SlotOf[p]]
<1> USE DEF Typed, TypeOK, ThreadTypes
<1>1. ap_passage' = ap_passage
  BY ZenonT(60) DEF PollStep, PollProgress, KvcpuRun, PollCheck, SwitchAllowed, SwitchRefused,
     Admit, ClaimSlot, BindSlot, BindFails, AdmittedCheck, TakePassage, ConsumeRequest,
     EnterGuest, LoopSeesAbort, LoopBreaks, Terminate, LaneLeft, ReleaseBegin, ReleaseEnd,
     shared
<1>2. CASE TakePassage(p)
  BY Zenon, <1>1, <1>2 DEF TakePassage, UsesPassage
<1>3. ASSUME ~TakePassage(p) PROVE UsesPassage(p)' => UsesPassage(p)
  BY Zenon, <1>3 DEF UsesPassage, PollStep, PollProgress, KvcpuRun, PollCheck, SwitchAllowed,
     SwitchRefused, Admit, ClaimSlot, BindSlot, BindFails, AdmittedCheck, ConsumeRequest,
     EnterGuest, LoopSeesAbort, LoopBreaks, Terminate, LaneLeft, ReleaseBegin, ReleaseEnd,
     LeaveLoop
<1> QED BY Zenon, <1>1, <1>2, <1>3

LEMMA PassageNext ==
  Typed /\ GateAll /\ ScanInv /\ PassageInv /\ [Next]_vars => PassageInv'
<1> SUFFICES ASSUME Typed, GateAll, ScanInv, PassageInv, [Next]_vars PROVE PassageInv'
  BY Zenon
<1> DEFINE Backed == (\E v \in Lanes : ap_passage[v]) => \E b \in Boots : HasPassages(b)
<1>1. PassageHeld /\ Backed
  BY Zenon DEF PassageInv
<1>2. ASSUME ap_passage' = ap_passage,
             \A p \in Pollers : UsesPassage(p)' => UsesPassage(p) \/ ap_passage[SlotOf[p]],
             \A b \in Boots : HasPassages(b) => HasPassages(b)'
      PROVE  PassageHeld' /\ Backed'
  BY <1>1, <1>2, ZenonT(60) DEF PassageHeld
<1>3. ASSUME NEW t \in Threads, CloseGate(t) \/ RaiseAbort(t) PROVE PassageHeld' /\ Backed'
  <2>1. ap_passage' = ap_passage
    BY Zenon, <1>3 DEF CloseGate, RaiseAbort
  <2>2. \A p \in Pollers : UsesPassage(p)' => UsesPassage(p)
    BY <1>3 DEF UsesPassage, CloseGate, RaiseAbort, Typed, TypeOK, ThreadTypes, ReturnInv,
       InAbort, PollReturns
  <2> QED BY Zenon, <1>2, <1>3, <2>1, <2>2, BootAborts
<1>4. ASSUME NEW b \in Boots, BootStep(b) PROVE PassageHeld' /\ Backed'
  <2>1. Others(b) /\ \A c \in Boots \ {b} : HasPassages(c)' <=> HasPassages(c)
    <3>1. Others(b)
      BY Zenon, <1>4, TypeBoot
    <3> QED BY <3>1, ZenonT(60) DEF Others, HasPassages, At
  <2>2. \A p \in Pollers : UsesPassage(p)' <=> UsesPassage(p)
    BY <2>1, ZenonT(60) DEF Others, UsesPassage
  <2>3. PassageHeld'
    <3>1. CASE ap_passage' = ap_passage
      BY <1>1, <2>2, <3>1, ZenonT(60) DEF PassageHeld
    <3>2. CASE pc[b] \in {"prepare", "free"} /\ ~InRun(b)
      <4>1. \A p \in Pollers : ~UsesPassage(p)
        BY Zenon, <3>2, UserHolds, HeldMeansRun DEF GateAll
      <4> QED BY Zenon, <2>2, <4>1 DEF PassageHeld
    <3> QED BY Zenon, <1>4, <3>1, <3>2, BootPassages
  <2>4. Backed'
    BY <1>1, <1>4, <2>1, BootPassages, ZenonT(60)
  <2> QED BY Zenon, <2>3, <2>4
<1>5. ASSUME NEW p \in Pollers, PollStep(p) PROVE PassageHeld' /\ Backed'
  <2>1. Others(p)
    BY Zenon, <1>5, TypePoll
  <2>2. \A b \in Boots : HasPassages(b)' <=> HasPassages(b)
    BY Zenon, <2>1 DEF Others, HasPassages, At
  <2>3. \A q \in Pollers \ {p} : UsesPassage(q)' <=> UsesPassage(q)
    BY Zenon, <2>1 DEF Others, UsesPassage
  <2> QED BY <1>2, <1>5, <2>2, <2>3, PollPassages, ZenonT(60)
<1>6. ASSUME ap_passage' = ap_passage,
             \A u \in Boots \cup Pollers : pc'[u] = pc[u] /\ ret'[u] = ret[u]
      PROVE  PassageHeld' /\ Backed'
  <2>1. \A b \in Boots : HasPassages(b)' <=> HasPassages(b)
    BY <1>6, ZenonT(60) DEF HasPassages, At
  <2>2. \A p \in Pollers : UsesPassage(p)' <=> UsesPassage(p)
    BY <1>6, ZenonT(60) DEF UsesPassage
  <2> QED BY <1>2, <1>6, <2>1, <2>2, ZenonT(60)
<1>7. ASSUME NEW t \in Testers, TestStep(t) PROVE PassageHeld' /\ Backed'
  <2>1. ap_passage' = ap_passage
    BY <1>7, ZenonT(60) DEF TestStep, TestProgress, co_run_test_enter, TestClearAbort, TestRecheck,
       TestLost, TestAdmit, ClaimSlot, BindSlot, BindFails, TestLaneEnds, ReleaseBegin,
       ReleaseEnd, co_run_test_leave, shared
  <2> QED BY Zenon, <1>6, <1>7, <2>1, TypeTest DEF Others
<1>8. ASSUME NEW s \in Stoppers, Stop(s) PROVE PassageHeld' /\ Backed'
  BY Zenon, <1>6, <1>8, TypeStop DEF Others, Stop, shared
<1>9. ASSUME NEW t \in Boots \cup Pollers, NEW v \in Lanes, StartVcpu(t, v)
      PROVE  PassageHeld' /\ Backed'
  BY Zenon, <1>6, <1>9 DEF StartVcpu
<1>10. ASSUME UNCHANGED vars PROVE PassageHeld' /\ Backed'
  BY Zenon, <1>6, <1>10 DEF vars, shared
<1>11. PassageHeld' /\ Backed'
  BY <1>3, <1>4, <1>5, <1>7, <1>8, <1>9, <1>10, StepCases, ZenonT(60)
<1> QED BY Zenon, <1>11 DEF PassageInv
-----------------------------------------------------------------------------
(* The block workers. *)

LEMMA BootWorkers ==
  ASSUME Typed, NEW b \in Boots, BootStep(b)
  PROVE  \/ workers' = ctl_async' /\ pc[b] # "out"
         \/ /\ pc[b] # "out"
            /\ ~InRun(b)' /\ pc'[b] # "publish"
         \/ /\ workers' = workers /\ ctl_async' = ctl_async
            /\ InRun(b)' \/ pc'[b] = "publish" => InRun(b) \/ pc[b] = "publish"
<1> USE DEF Typed, TypeOK, ThreadTypes, BootLabels, InRun, At
<1>1. ASSUME StartWorkers(b) PROVE workers' = ctl_async' /\ pc[b] # "out"
  BY Zenon, <1>1 DEF StartWorkers
<1>2. ASSUME \/ LoopSeesAbort(b) \/ LoopBreaks(b) \/ Terminate(b) \/ BootEnded(b)
             \/ JoinScan(b) \/ co_run_publish(b)
      PROVE  /\ workers' = workers /\ ctl_async' = ctl_async
             /\ InRun(b) \/ pc[b] = "publish"
  BY <1>2, ZenonT(60) DEF LoopSeesAbort, LoopBreaks, Terminate, BootEnded, JoinScan, co_run_publish,
     Crossing, shared
<1>3. ASSUME \/ ClearAbort(b) \/ RecheckBegin(b) \/ LostBegin(b)
             \/ PrepareFailsEarly(b) \/ Prepare(b) \/ LockForBoot(b)
      PROVE  pc[b] # "out" /\ ~InRun(b)' /\ pc'[b] # "publish"
  BY Zenon, <1>3 DEF ClearAbort, RecheckBegin, LostBegin, PrepareFailsEarly, Prepare, LockForBoot
<1>4. ASSUME \/ ClaimSlot(b, BootRefused(b)) \/ BindSlot(b, "start")
             \/ BindFails(b, BootRefused(b))
      PROVE  pc[b] # "out" /\ ~InRun(b)' /\ pc'[b] # "publish"
  BY <1>4 DEF ClaimSlot, BindSlot, BindFails
<1>5. ASSUME \/ StopWorkers(b, "stopWorkers", "releaseBoot")
             \/ ReleaseBegin(b, "releaseBoot", "freeBoot")
             \/ ReleaseEnd(b, "freeBoot", BootRefused(b))
             \/ StopWorkers(b, "failWorkers", "failRelease")
             \/ ReleaseBegin(b, "failRelease", "failFree")
             \/ ReleaseEnd(b, "failFree", Go(b, "free") /\ UNCHANGED <<ret, cpu>>)
             \/ FreePassages(b) \/ co_run_finish(b)
      PROVE  pc[b] # "out" /\ ~InRun(b)' /\ pc'[b] # "publish"
  BY Zenon, <1>5 DEF StopWorkers, ReleaseBegin, ReleaseEnd, FreePassages, co_run_finish
<1>6. ASSUME co_run_begin(b)
      PROVE  /\ workers' = workers /\ ctl_async' = ctl_async
             /\ ~InRun(b)' /\ pc'[b] # "publish"
  BY Zenon, <1>6 DEF co_run_begin
<1> HIDE DEF InRun
<1> QED BY <1>1, <1>2, <1>3, <1>4, <1>5, <1>6, ZenonT(60) DEF BootStep, BootProgress

LEMMA WorkerNext == Typed /\ GateAll /\ WorkerInv /\ [Next]_vars => WorkerInv'
<1> SUFFICES ASSUME Typed, GateAll, WorkerInv, [Next]_vars PROVE WorkerInv'
  BY Zenon
<1>1. ASSUME workers' = workers, ctl_async' = ctl_async,
             \A b \in Boots : InRun(b)' \/ pc'[b] = "publish" => InRun(b) \/ pc[b] = "publish"
      PROVE  WorkerInv'
  BY <1>1, ZenonT(60) DEF WorkerInv
<1>2. ASSUME NEW t \in Threads, CloseGate(t) \/ RaiseAbort(t) PROVE WorkerInv'
  <2>1. workers' = workers /\ ctl_async' = ctl_async
    BY <1>2, ZenonT(60) DEF CloseGate, RaiseAbort
  <2> QED BY <1>1, <1>2, <2>1, BootAborts, ZenonT(60)
<1>3. ASSUME NEW b \in Boots, BootStep(b) PROVE WorkerInv'
  <2>1. \A c \in Boots \ {b} : /\ InRun(c)' <=> InRun(c)
                               /\ pc'[c] = pc[c]
    BY <1>3, TypeBoot, ZenonT(60) DEF Others, InRun, At
  <2>2. CASE workers' = workers /\ ctl_async' = ctl_async
             /\ (InRun(b)' \/ pc'[b] = "publish" => InRun(b) \/ pc[b] = "publish")
    BY <1>1, <2>1, <2>2, ZenonT(60)
  <2>3. CASE workers' = ctl_async' /\ pc[b] # "out"
    BY <2>3, ZenonT(60) DEF WorkerInv
  <2>4. CASE pc[b] # "out" /\ ~InRun(b)' /\ pc'[b] # "publish"
    <3>1. \A c \in Boots \ {b} : ~InRun(c)' /\ pc'[c] # "publish"
      BY Zenon, <2>1, <2>4 DEF GateAll, OneBoot, InRun, At
    <3> QED BY <2>4, <3>1, ZenonT(60) DEF WorkerInv
  <2> QED BY <1>3, <2>2, <2>3, <2>4, BootWorkers, ZenonT(60)
<1>4. ASSUME workers' = workers, ctl_async' = ctl_async,
             \A b \in Boots : pc'[b] = pc[b] /\ ret'[b] = ret[b]
      PROVE  WorkerInv'
  <2>1. \A b \in Boots : InRun(b)' <=> InRun(b)
    BY <1>4, ZenonT(60) DEF InRun, At
  <2> QED BY <1>1, <1>4, <2>1, ZenonT(60)
<1>5. ASSUME NEW p \in Pollers, PollStep(p) PROVE WorkerInv'
  <2>1. workers' = workers /\ ctl_async' = ctl_async
    BY <1>5, ZenonT(60) DEF PollStep, PollProgress, KvcpuRun, PollCheck, SwitchAllowed,
       SwitchRefused, Admit, ClaimSlot, BindSlot, BindFails, AdmittedCheck, TakePassage,
       ConsumeRequest, EnterGuest, LoopSeesAbort, LoopBreaks, Terminate, LaneLeft,
       ReleaseBegin, ReleaseEnd, shared
  <2> QED BY Zenon, <1>4, <1>5, <2>1, TypePoll DEF Others
<1>6. ASSUME NEW t \in Testers, TestStep(t) PROVE WorkerInv'
  <2>1. workers' = workers /\ ctl_async' = ctl_async
    BY <1>6, ZenonT(60) DEF TestStep, TestProgress, co_run_test_enter, TestClearAbort,
       TestRecheck, TestLost, TestAdmit, ClaimSlot, BindSlot, BindFails, TestLaneEnds,
       ReleaseBegin, ReleaseEnd, co_run_test_leave, shared
  <2> QED BY Zenon, <1>4, <1>6, <2>1, TypeTest DEF Others
<1>7. ASSUME NEW s \in Stoppers, Stop(s) PROVE WorkerInv'
  BY Zenon, <1>4, <1>7, TypeStop DEF Others, Stop, shared
<1>8. ASSUME NEW t \in Boots \cup Pollers, NEW v \in Lanes, StartVcpu(t, v) PROVE WorkerInv'
  BY <1>4, <1>8, ZenonT(60) DEF StartVcpu
<1>9. CASE UNCHANGED vars
  BY <1>4, <1>9, ZenonT(60) DEF vars, shared
<1> QED BY <1>2, <1>3, <1>5, <1>6, <1>7, <1>8, <1>9, StepCases, ZenonT(60)

-----------------------------------------------------------------------------
(* Core placement. *)

LEMMA Exclusive == Typed /\ GateAll => RunExclusive
  BY Zenon, BootsOut DEF GateAll, OneBoot, TestInv, TestStates, RunExclusive

(* The holder of a slot that is not free, and where it runs. *)
LEMMA TakenBy ==
  ASSUME SlotInv, NEW c, CoreTaken(c)
  PROVE  \E u \in Holders : Holds(u) /\ cpu[u] = c /\ active[SlotOf[u]] # "FREE"
  BY DEF SlotInv, SlotOwned, SlotState, CoreTaken

(* Whoever wins a slot wins a core no other slot is on: a secondary by its *)
(* look under the lock, a KBOOT because nothing else is running, a test    *)
(* lane because each has a core of its own.                                *)
LEMMA WinnerAlone ==
  ASSUME Typed, GateAll, SlotInv, ScanInv, CoreInv, NEW t \in Holders, WinSlot(t)
  PROVE  ~CoreTaken(cpu[t])
<1> SUFFICES ASSUME CoreTaken(cpu[t]) PROVE FALSE
  BY Zenon
<1>1. PICK u \in Holders : Holds(u) /\ cpu[u] = cpu[t] /\ active[SlotOf[u]] # "FREE"
  BY Zenon, TakenBy
<1>2. pc[t] = "claim" /\ active[SlotOf[t]] = "FREE" /\ ~Holds(t)
  BY Zenon DEF WinSlot, Holds, Claiming, Owning, Releasing, At
<1>3. pc[u] # "out"
  BY Zenon, <1>1 DEF Holds, Claiming, Owning, Releasing, At
<1>4. RunExclusive
  BY Zenon, Exclusive
<1>5. u \in Pollers => \E b \in Boots : InRun(b)
  BY <1>1, ZenonT(60) DEF ScanInv
<1>6. \A b \in Boots : InRun(b) => pc[b] # "out" /\ pc[b] # "claim"
  BY Zenon DEF InRun, At
<1>7. CASE t \in Pollers
  BY Zenon, <1>2, <1>7 DEF CoreInv, CoreTaken
<1>8. CASE t \in Boots
  <2>1. u \notin Testers
    BY Zenon, <1>2, <1>3, <1>4, <1>8 DEF RunExclusive, HoldsTestRef
  <2>2. u \notin Boots
    BY Zenon, <1>1, <1>2, <1>3, <1>8 DEF GateAll, OneBoot
  <2>3. u \notin Pollers
    BY Zenon, <1>2, <1>5, <1>6, <1>8 DEF GateAll, OneBoot
  <2> QED BY <1>1, <2>1, <2>2, <2>3, ZenonT(60) DEF Holders
<1>9. CASE t \in Testers
  <2>1. \A b \in Boots : pc[b] = "out"
    BY Zenon, <1>2, <1>4, <1>9 DEF RunExclusive, HoldsTestRef
  <2>2. u \in Testers
    BY <1>1, <1>3, <1>5, <1>6, <2>1, ZenonT(60) DEF Holders
  <2>3. cpu[u] = CoreOfTest[SlotOf[u]] /\ cpu[t] = CoreOfTest[SlotOf[t]]
    BY Zenon, <1>2, <1>3, <1>9, <2>2 DEF CoreInv, HoldsTestRef
  <2>4. SlotOf[u] = SlotOf[t]
    BY ZenonT(60), <1>1, <1>9, <2>2, <2>3, CoresAssumption
  <2> QED BY Zenon, <1>1, <1>2, <2>4
<1> QED BY Zenon, <1>7, <1>8, <1>9 DEF Holders

(* Nobody but the winner of a slot takes a core. *)
LEMMA CoresKept ==
  ASSUME Typed, SlotInv, CoreInv, NEW t \in Holders, SlotStep(t), ~WinSlot(t)
  PROVE  CoresDistinct' /\ \A c \in Cores \cup {NoCore} : CoreTaken(c)' => CoreTaken(c)
<1>1. SlotOf[t] \in Slots /\ active \in [Slots -> {"FREE", "CLAIMING", "ACTIVE", "STOPPING"}]
      /\ host_cpu \in [Slots -> Cores \cup {NoCore}]
  BY Zenon DEF Holders, Typed, TypeOK, SharedTypes
<1>2. ASSUME \A v \in Slots : active'[v] # "FREE" =>
                                active[v] # "FREE" /\ host_cpu'[v] = host_cpu[v]
      PROVE  CoresDistinct' /\ \A c \in Cores \cup {NoCore} : CoreTaken(c)' => CoreTaken(c)
  BY <1>2, ZenonT(60) DEF CoresDistinct, CoreTaken, CoreInv
<1>3. CASE KeepSlot(t)
  BY <1>2, <1>3, ZenonT(60) DEF KeepSlot
<1>4. CASE PublishSlot(t)
  <2>1. active[SlotOf[t]] # "FREE"
    BY Zenon, <1>4 DEF PublishSlot, SlotInv, SlotState
  <2> QED BY Zenon, <1>1, <1>2, <1>4, <2>1 DEF PublishSlot
<1>5. CASE StopSlot(t)
  <2>1. active[SlotOf[t]] # "FREE"
    BY Zenon, <1>5 DEF StopSlot, SlotInv, SlotState
  <2> QED BY Zenon, <1>1, <1>2, <1>5, <2>1 DEF StopSlot
<1>6. CASE FreeSlot(t)
  BY Zenon, <1>1, <1>2, <1>6 DEF FreeSlot
<1> QED BY Zenon, <1>3, <1>4, <1>5, <1>6 DEF SlotStep

(* A step of t keeps the placement of everyone else. *)
LEMMA CoreThread ==
  ASSUME Typed, GateAll, LockInv, SlotInv, ScanInv, CoreInv,
         NEW t \in Holders, Others(t), SlotStep(t)
  PROVE  /\ CoresDistinct'
         /\ \A p \in Pollers \ {t} : pc'[p] = "claim" => ~CoreTaken(cpu[p])' /\ cpu'[p] = cpu[p]
<1>1. \A p \in Pollers \ {t} : pc'[p] = pc[p] /\ cpu'[p] = cpu[p]
  BY ZenonT(60) DEF Others
<1>2. \A p \in Pollers : pc[p] = "claim" => ~CoreTaken(cpu[p])
  BY ZenonT(60) DEF CoreInv, CoreTaken
<1>3. \A p \in Pollers : cpu[p] \in Cores \cup {NoCore}
  BY Zenon DEF Typed, TypeOK, ThreadTypes
<1>4. CASE ~WinSlot(t)
  <2>1. CoresDistinct' /\ \A c \in Cores \cup {NoCore} : CoreTaken(c)' => CoreTaken(c)
    BY Zenon, <1>4, CoresKept
  <2>2. ASSUME NEW p \in Pollers \ {t}, pc'[p] = "claim" PROVE ~CoreTaken(cpu[p])'
    <3>1. ~CoreTaken(cpu[p]) /\ cpu[p] \in Cores \cup {NoCore} /\ cpu'[p] = cpu[p]
      BY Zenon, <1>1, <1>2, <1>3, <2>2
    <3> QED BY Zenon, <2>1, <3>1 DEF CoreTaken
  <2> QED BY Zenon, <1>1, <2>1, <2>2
<1>5. CASE WinSlot(t)
  <2>1. \A p \in Pollers \ {t} : pc[p] # "claim"
    BY Zenon, <1>5 DEF WinSlot, LockInv, Holders
  <2>2. ~CoreTaken(cpu[t])
    BY Zenon, <1>5, WinnerAlone
  <2>3. CoresDistinct'
    <3>1. SlotOf[t] \in Slots
      BY Zenon DEF Holders
    <3> QED BY <1>5, <2>2, <3>1 DEF WinSlot, CoreTaken, CoresDistinct, CoreInv, Typed, TypeOK,
               SharedTypes
  <2> QED BY Zenon, <1>1, <2>1, <2>3
<1> QED BY Zenon, <1>4, <1>5

LEMMA CoreNext ==
  Typed /\ GateAll /\ LockInv /\ SlotInv /\ ScanInv /\ CoreInv /\ [Next]_vars => CoreInv'
<1> SUFFICES ASSUME Typed, GateAll, LockInv, SlotInv, ScanInv, CoreInv, [Next]_vars
             PROVE  CoreInv'
  BY Zenon
<1> DEFINE Tested == \A t \in Testers : HoldsTestRef(t) => cpu[t] = CoreOfTest[SlotOf[t]]
           Looked == \A p \in Pollers : pc[p] = "claim" => ~CoreTaken(cpu[p])
<1>1. Tested /\ Looked /\ CoresDistinct
  BY ZenonT(60) DEF CoreInv, CoreTaken
<1>2. ASSUME active' = active, host_cpu' = host_cpu,
             \A u \in Holders : /\ cpu'[u] = cpu[u] \/ pc'[u] \notin TestLabels \ {"out"}
                                /\ pc'[u] = pc[u] \/ (u \notin Testers /\ pc'[u] # "claim")
      PROVE  Tested' /\ Looked' /\ CoresDistinct'
  <2>1. \A u \in Testers : pc'[u] = pc[u] /\ (pc[u] # "out" => cpu'[u] = cpu[u])
    BY Zenon, <1>2 DEF Holders, Typed, TypeOK, ThreadTypes
  <2>2. Tested'
    BY Zenon, <1>1, <2>1 DEF HoldsTestRef
  <2>3. \A p \in Pollers : pc'[p] = "claim" => pc[p] = "claim" /\ cpu'[p] = cpu[p]
    BY Zenon, <1>2 DEF Holders, TestLabels
  <2>4. Looked'
    BY Zenon, <1>1, <1>2, <2>3 DEF CoreTaken
  <2>5. CoresDistinct'
    BY <1>1, <1>2, ZenonT(60) DEF CoresDistinct
  <2> QED BY Zenon, <2>2, <2>4, <2>5
<1>3. ASSUME NEW t \in Threads, CloseGate(t) \/ RaiseAbort(t)
      PROVE  Tested' /\ Looked' /\ CoresDistinct'
  <2>1. active' = active /\ host_cpu' = host_cpu /\ Others(t)
    BY <1>3, TypeAbort, ZenonT(60) DEF CloseGate, RaiseAbort
  <2>2. t \notin Testers /\ pc'[t] # "claim" /\ (cpu'[t] = cpu[t] \/ pc'[t] = "out")
    BY <1>3 DEF CloseGate, RaiseAbort, Typed, TypeOK, ThreadTypes, TestLabels, ReturnInv,
       InAbort, BootReturns, PollReturns
  <2> QED BY Zenon, <1>2, <2>1, <2>2 DEF Others, Holders
<1>4. ASSUME NEW b \in Boots, BootStep(b) PROVE Tested' /\ Looked' /\ CoresDistinct'
  <2>1. Others(b) /\ b \in Holders /\ b \notin Pollers
    BY Zenon, <1>4, TypeBoot DEF Holders
  <2>2. CoresDistinct' /\ Looked'
    BY <1>4, <2>1, SlotBoot, CoreThread, ZenonT(60) DEF CoreTaken
  <2>3. Tested'
    BY Zenon, <1>1, <2>1 DEF Others, HoldsTestRef
  <2> QED BY Zenon, <2>2, <2>3
<1>5. ASSUME NEW p \in Pollers, PollStep(p) PROVE Tested' /\ Looked' /\ CoresDistinct'
  <2>1. Others(p) /\ p \in Holders
    BY Zenon, <1>5, TypePoll DEF Holders
  <2>2. CoresDistinct' /\ \A q \in Pollers \ {p} : pc'[q] = "claim" => ~CoreTaken(cpu[q])'
    BY Zenon, <1>5, <2>1, SlotPoll, CoreThread
  <2>3. pc'[p] = "claim" => Admit(p)
    BY <1>5, ZenonT(60) DEF Typed, TypeOK, ThreadTypes, PollStep, PollProgress,
       KvcpuRun, PollCheck, SwitchAllowed, SwitchRefused, ClaimSlot, BindSlot, BindFails,
       AdmittedCheck, TakePassage, ConsumeRequest, EnterGuest, LoopSeesAbort, LoopBreaks,
       Terminate, LaneLeft, ReleaseBegin, ReleaseEnd, LeaveLoop
  <2>4. pc'[p] = "claim" => ~CoreTaken(cpu[p]) /\ active' = active /\ host_cpu' = host_cpu
                            /\ cpu' = cpu
    BY Zenon, <2>3 DEF Admit, Typed, TypeOK, ThreadTypes
  <2>5. Tested'
    BY Zenon, <1>1, <2>1 DEF Others, HoldsTestRef
  <2>6. pc'[p] = "claim" => ~CoreTaken(cpu[p])'
    BY Zenon, <2>4 DEF CoreTaken
  <2> QED BY Zenon, <2>2, <2>5, <2>6
<1>6. ASSUME NEW t \in Testers, TestStep(t) PROVE Tested' /\ Looked' /\ CoresDistinct'
  <2>1. Others(t) /\ t \in Holders /\ t \notin Pollers
    BY Zenon, <1>6, TypeTest DEF Holders
  <2>2. CoresDistinct' /\ Looked'
    BY <1>6, <2>1, SlotTest, CoreThread, ZenonT(60) DEF CoreTaken
  <2>3. \A u \in Testers \ {t} : pc'[u] = pc[u] /\ cpu'[u] = cpu[u]
    BY <2>1, ZenonT(60) DEF Others
  <2>4. pc'[t] # "out" => cpu'[t] = CoreOfTest[SlotOf[t]] \/ (pc[t] # "out" /\ cpu'[t] = cpu[t])
    BY Zenon, <1>6 DEF Typed, TypeOK, ThreadTypes, TestStep, TestProgress, co_run_test_enter,
       TestClearAbort, TestRecheck, TestLost, TestAdmit, ClaimSlot, BindSlot, BindFails,
       TestLaneEnds, ReleaseBegin, ReleaseEnd, co_run_test_leave
  <2>5. Tested'
    BY Zenon, <1>1, <2>3, <2>4 DEF HoldsTestRef
  <2> QED BY Zenon, <2>2, <2>5
<1>7. ASSUME NEW s \in Stoppers, Stop(s) PROVE Tested' /\ Looked' /\ CoresDistinct'
  <2>1. active' = active /\ host_cpu' = host_cpu /\ Others(s) /\ s \notin Holders
    BY <1>7, TypeStop, ZenonT(60) DEF Stop, shared, Holders
  <2> QED BY Zenon, <1>2, <2>1 DEF Others, Holders
<1>8. ASSUME NEW t \in Boots \cup Pollers, NEW v \in Lanes, StartVcpu(t, v)
      PROVE  Tested' /\ Looked' /\ CoresDistinct'
  BY <1>2, <1>8, ZenonT(60) DEF StartVcpu
<1>9. ASSUME UNCHANGED vars PROVE Tested' /\ Looked' /\ CoresDistinct'
  BY <1>2, <1>9, ZenonT(60) DEF vars, shared
<1>10. Tested' /\ Looked' /\ CoresDistinct'
  BY <1>3, <1>4, <1>5, <1>6, <1>7, <1>8, <1>9, StepCases, ZenonT(60)
<1> QED BY <1>10, ZenonT(60) DEF CoreInv, CoreTaken

-----------------------------------------------------------------------------
(* The inductive invariant, and what follows from it. *)

LEMMA InitInv == Init => IInv
<1> SUFFICES ASSUME Init PROVE IInv
  BY Zenon
<1>1. Typed /\ GateAll
  BY Zenon, TypeInit, GateInit
<1>2. LockInv /\ ScanInv /\ WorkerInv
  BY Zenon DEF Init, LockInv, ScanInv, WorkerInv, Holds, Claiming, Owning, Releasing, InRun, At
<1>3. SlotInv
  BY DEF Init, SlotInv, SlotState, SlotUnique, SlotOwned, Holds, Holders, Claiming, Owning,
     Releasing, At
<1>4. PassageInv
  BY Zenon DEF Init, PassageInv, PassageHeld, UsesPassage
<1>5. CoreInv
  BY Zenon DEF Init, CoreInv, CoresDistinct, HoldsTestRef
<1> QED BY Zenon, <1>1, <1>2, <1>3, <1>4, <1>5 DEF IInv, GateAll

LEMMA NextInv == IInv /\ [Next]_vars => IInv'
<1> SUFFICES ASSUME IInv, [Next]_vars PROVE IInv'
  BY Zenon
<1>1. /\ Typed /\ GateAll /\ LockInv /\ SlotInv /\ ScanInv
      /\ PassageInv /\ WorkerInv /\ CoreInv
  BY ZenonT(60) DEF IInv, GateAll
<1>2. /\ Typed' /\ GateAll' /\ LockInv' /\ SlotInv' /\ ScanInv'
      /\ PassageInv' /\ WorkerInv' /\ CoreInv'
  BY Zenon, <1>1, TypeNext, GateNext, LockNext, SlotNext, ScanNext, PassageNext, WorkerNext,
     CoreNext, Zenon
<1> QED BY <1>2, ZenonT(60) DEF IInv, GateAll

(* The parts above are together inductive: they hold in every reachable    *)
(* state of the driver, for any callers, processors and cores.             *)
THEOREM Inductive == Spec => []IInv
  BY InitInv, NextInv, PTL DEF Spec

(* A secondary that is building or crossing through its passage page has   *)
(* the page: the cleanup of co_arch_boot_loaded never frees it under it.   *)
THEOREM PassageHeldCorrect == Spec => []PassageHeld
<1>1. IInv => PassageHeld
  BY Zenon DEF IInv, PassageInv
<1> QED BY <1>1, Inductive, PTL

(* Between runs no passage page is left for boot_prepare to overwrite. *)
THEOREM NoPassageLeakCorrect == Spec => []NoPassageLeak
<1>1. ASSUME IInv, co_run_state = "IDLE" PROVE \A v \in Lanes : ~ap_passage[v]
  <2>1. \A b \in Boots : pc[b] = "out"
    BY Zenon, <1>1, BootsOut DEF IInv
  <2>2. \A b \in Boots : ~HasPassages(b)
    BY Zenon, <2>1 DEF HasPassages, At
  <2> QED BY Zenon, <1>1, <2>2 DEF IInv, PassageInv
<1> QED BY <1>1, Inductive, PTL DEF NoPassageLeak

(* The block workers outlive every processor that may submit to them. *)
THEOREM WorkersOutliveCorrect == Spec => []WorkersOutliveCrossings
<1>1. ASSUME IInv, NEW t \in Boots \cup Pollers, Crossing(t) PROVE \E b \in Boots : InRun(b)
  <2>1. CASE t \in Boots
    BY Zenon, <1>1, <2>1 DEF Crossing, InRun, IInv, Typed, TypeOK, ThreadTypes, BootLabels
  <2>2. CASE t \in Pollers
    <3>1. Holds(t)
      BY Zenon, <1>1, <2>2 DEF Crossing, Holds, Owning, At
    <3> QED BY Zenon, <1>1, <2>2, <3>1 DEF IInv, ScanInv
  <2> QED BY Zenon, <2>1, <2>2
<1>2. IInv => WorkersOutliveCrossings
  BY Zenon, <1>1 DEF IInv, WorkerInv, WorkersOutliveCrossings
<1> QED BY <1>2, Inductive, PTL

(* No two vCPUs are ever placed on the same host core. *)
THEOREM CoresDistinctCorrect == Spec => []CoresDistinct
<1>1. IInv => CoresDistinct
  BY Zenon DEF IInv, CoreInv
<1> QED BY <1>1, Inductive, PTL

(* A stop request is cleared only while no processor is in its loop. *)
THEOREM AbortNotLostCorrect == Spec => AbortNotLost
<1> DEFINE Kept == vcpu_abort_all /\ ~vcpu_abort_all' =>
                     \A t \in Threads : ~Crossing(t) /\ pc[t] # "testLane"
<1>1. ASSUME IInv, \E b \in Boots : pc[b] = "clear"
      PROVE  \A t \in Threads : ~Crossing(t) /\ pc[t] # "testLane"
  <2>1. PICK b \in Boots : pc[b] = "clear"
    BY Zenon, <1>1
  <2>2. GateAll /\ RunExclusive /\ ScanInv /\ Typed
    BY Zenon, <1>1, Exclusive DEF IInv, GateAll
  <2>3. \A c \in Boots : ~Crossing(c)
    BY Zenon, <2>1, <2>2 DEF GateAll, OneBoot, Crossing, Typed, TypeOK, ThreadTypes, BootLabels
  <2>4. \A p \in Pollers : ~Crossing(p)
    BY Zenon, <2>1, <2>2, HeldMeansRun DEF GateAll, Crossing, Holds, Owning, At, InRun
  <2>5. \A u \in Testers : pc[u] = "out"
    BY Zenon, <2>1, <2>2 DEF RunExclusive, HoldsTestRef
  <2> QED BY Zenon, <2>2, <2>3, <2>4, <2>5 DEF Crossing, Typed, TypeOK, ThreadTypes, BootLabels,
             PollLabels, StopLabels
<1>2. ASSUME IInv, \E t \in Testers : pc[t] = "testClear"
      PROVE  \A t \in Threads : ~Crossing(t) /\ pc[t] # "testLane"
  <2>1. PICK u \in Testers : pc[u] = "testClear"
    BY Zenon, <1>2
  <2>2. GateAll /\ RunExclusive /\ ScanInv /\ Typed
    BY Zenon, <1>2, Exclusive DEF IInv, GateAll
  <2>3. \A b \in Boots : pc[b] = "out"
    BY Zenon, <2>1, <2>2 DEF RunExclusive, HoldsTestRef
  <2>4. \A p \in Pollers : ~Crossing(p)
    BY Zenon, <2>2, <2>3 DEF ScanInv, Crossing, Holds, Owning, At, InRun
  <2>5. \A t \in Testers : pc[t] # "out" => t = u
    BY Zenon, <2>1, <2>2 DEF GateAll, FirstLane, HoldsTestRef
  <2> QED BY Zenon, <2>1, <2>2, <2>3, <2>4, <2>5 DEF Crossing, Typed, TypeOK, ThreadTypes,
             PollLabels, TestLabels, StopLabels
<1>3. ASSUME Next, vcpu_abort_all, ~vcpu_abort_all'
      PROVE  (\E b \in Boots : pc[b] = "clear") \/ (\E t \in Testers : pc[t] = "testClear")
  <2>1. ASSUME NEW t \in Threads, CloseGate(t) \/ RaiseAbort(t) PROVE FALSE
    BY <1>3, <2>1, ZenonT(60) DEF CloseGate, RaiseAbort
  <2>2. ASSUME NEW b \in Boots, BootStep(b) PROVE pc[b] = "clear"
    BY <1>3, <2>2, ZenonT(60) DEF BootStep, BootProgress, co_run_begin, ClearAbort, RecheckBegin,
       LostBegin, PrepareFailsEarly, Prepare, LockForBoot, ClaimSlot, BindSlot, BindFails,
       StartWorkers, co_run_publish, LoopSeesAbort, LoopBreaks, Terminate, BootEnded,
       JoinScan, StopWorkers, ReleaseBegin, ReleaseEnd, FreePassages, co_run_finish, shared
  <2>3. ASSUME NEW p \in Pollers, PollStep(p) PROVE FALSE
    BY <1>3, <2>3, ZenonT(60) DEF PollStep, PollProgress, KvcpuRun, PollCheck, SwitchAllowed,
       SwitchRefused, Admit, ClaimSlot, BindSlot, BindFails, AdmittedCheck, TakePassage,
       ConsumeRequest, EnterGuest, LoopSeesAbort, LoopBreaks, Terminate, LaneLeft,
       ReleaseBegin, ReleaseEnd, shared
  <2>4. ASSUME NEW t \in Testers, TestStep(t) PROVE pc[t] = "testClear"
    BY <1>3, <2>4, ZenonT(60) DEF TestStep, TestProgress, co_run_test_enter, TestClearAbort,
       TestRecheck, TestLost, TestAdmit, ClaimSlot, BindSlot, BindFails, TestLaneEnds,
       ReleaseBegin, ReleaseEnd, co_run_test_leave, shared
  <2>5. ASSUME NEW s \in Stoppers, Stop(s) PROVE FALSE
    BY <1>3, <2>5, ZenonT(60) DEF Stop, shared
  <2>6. ASSUME NEW t \in Boots \cup Pollers, NEW v \in Lanes, StartVcpu(t, v) PROVE FALSE
    BY <1>3, <2>6, ZenonT(60) DEF StartVcpu
  <2> QED BY <1>3, <2>1, <2>2, <2>3, <2>4, <2>5, <2>6, StepCases, ZenonT(60)
<1>4. IInv /\ [Next]_vars => [Kept]_vars
  BY <1>1, <1>2, <1>3, ZenonT(60)
<1> QED BY <1>4, Inductive, PTL DEF Spec, AbortNotLost
=============================================================================
