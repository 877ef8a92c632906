---------------------------- MODULE RunGateWord -----------------------------
(***************************************************************************)
(* Proofs about RunGate, for any number of callers, processors and cores:  *)
(* the types, that every step is a step of one thread, and the gate word:  *)
(* who owns it and what it counts.                                         *)
(***************************************************************************)
EXTENDS RunGateInv, FiniteSetTheorems, TLAPS

USE CallersAssumption, SlotsAssumption
    DEF Threads, Slots, Lanes, Go, Return, AbortThen, BootRefused, PollRefused, TestRefused

(* The steps of one caller, whatever makes it take them. *)
BootStep(b) == co_run_begin(b) \/ BootProgress(b) \/ LoopBreaks(b) \/ Terminate(b)
PollStep(p) == KvcpuRun(p) \/ PollProgress(p) \/ LoopBreaks(p) \/ Terminate(p)
TestStep(t) == co_run_test_enter(t) \/ TestProgress(t)

(* A step of t leaves the other threads where they are. *)
Others(t) == \A u \in Threads \ {t} : pc'[u] = pc[u] /\ ret'[u] = ret[u] /\ cpu'[u] = cpu[u]

(* Every step is a step of one thread. *)
LEMMA StepCases ==
  ASSUME Next
  PROVE  \/ \E t \in Threads : CloseGate(t) \/ RaiseAbort(t)
         \/ \E b \in Boots : BootStep(b)
         \/ \E p \in Pollers : PollStep(p)
         \/ \E t \in Testers : TestStep(t)
         \/ \E s \in Stoppers : Stop(s)
         \/ \E t \in Boots \cup Pollers : \E v \in Lanes : StartVcpu(t, v)
  BY ZenonT(60) DEF Next, BootStep, PollStep, TestStep

LEMMA TypeInit == Init => Typed
<1> SUFFICES ASSUME Init PROVE Typed
  BY Zenon
<1>1. vcpu_abort_all \in BOOLEAN /\ workers \in BOOLEAN /\ ctl_async \in BOOLEAN
  BY ZenonT(60) DEF Init
<1> QED
  BY <1>1 DEF Init, Typed, TypeOK, SharedTypes, ThreadTypes, ReturnInv, InAbort,
              GateStates, Idle, Labels, BootLabels, PollLabels, TestLabels, StopLabels

LEMMA TypeAbort ==
  ASSUME Typed, NEW t \in Threads, CloseGate(t) \/ RaiseAbort(t)
  PROVE  Typed' /\ Others(t)
<1> USE DEF Typed, TypeOK
<1>0. Others(t)
  BY Zenon DEF ThreadTypes, Others, CloseGate, RaiseAbort
<1>1. CASE CloseGate(t)
  <2>1. SharedTypes'
    BY Zenon, <1>1 DEF SharedTypes, CloseGate, Closed, GateStates
  <2>2. ThreadTypes' /\ ReturnInv'
    BY Zenon, <1>1 DEF ThreadTypes, Labels, BootLabels, PollLabels, TestLabels, StopLabels,
                ReturnInv, InAbort, CloseGate
  <2> QED BY Zenon, <1>0, <2>1, <2>2
<1>2. CASE RaiseAbort(t)
  <2>1. SharedTypes'
    BY Zenon, <1>2 DEF SharedTypes, RaiseAbort
  <2>2. ThreadTypes' /\ ReturnInv'
    BY <1>2 DEF ThreadTypes, Labels, BootLabels, PollLabels, TestLabels, StopLabels,
                ReturnInv, InAbort, BootReturns, PollReturns, RaiseAbort
  <2> QED BY Zenon, <1>0, <2>1, <2>2
<1> QED BY Zenon, <1>1, <1>2

(* An update keeps the type of a function. *)
LEMMA UpdateTyped ==
  ASSUME NEW S, NEW T, NEW f \in [S -> T], NEW x, NEW y \in T
  PROVE  [f EXCEPT ![x] = y] \in [S -> T]
  BY Zenon

(* Where a step may take t: a label of its own, and an abort only with a   *)
(* return address of its own. *)
Moves(t, L, R) ==
  /\ pc' = pc \/ \E l \in L : pc' = [pc EXCEPT ![t] = l]
  /\ ret' = ret \/ \E r \in R \cup {"out"} : ret' = [ret EXCEPT ![t] = r]
  /\ cpu' = cpu \/ \E c \in Cores \cup {NoCore} : cpu' = [cpu EXCEPT ![t] = c]
  /\ pc'[t] \in {"close", "raise"} => ret'[t] \in R

LEMMA MovesTyped ==
  ASSUME Typed, NEW t, NEW L, NEW R, Moves(t, L, R),
         \/ t \in Boots /\ L = BootLabels /\ R = BootReturns
         \/ t \in Pollers /\ L = PollLabels /\ R = PollReturns,
         scan' \in [Boots -> 1..(NLanes + 1)]
  PROVE  ThreadTypes' /\ ReturnInv' /\ Others(t)
<1> USE DEF Typed, TypeOK, ThreadTypes
<1>1. t \in Threads /\ L \subseteq Labels /\ R \cup {"out"} \subseteq Labels
  BY Zenon DEF Labels, BootLabels, PollLabels, BootReturns, PollReturns
<1>2. pc' \in [Threads -> Labels] /\ \A u \in Threads \ {t} : pc'[u] = pc[u]
  BY <1>1 DEF Moves
<1>3. ret' \in [Threads -> Labels] /\ \A u \in Threads \ {t} : ret'[u] = ret[u]
  BY Zenon, <1>1 DEF Moves
<1>4. cpu' \in [Threads -> Cores \cup {NoCore}] /\ \A u \in Threads \ {t} : cpu'[u] = cpu[u]
  BY <1>1 DEF Moves
<1>5. Others(t)
  BY Zenon, <1>2, <1>3, <1>4 DEF Others
<1>6. (t \in Boots => pc'[t] \in BootLabels) /\ (t \in Pollers => pc'[t] \in PollLabels)
  BY Zenon, <1>1 DEF Moves
<1>7. ThreadTypes'
  BY Zenon, <1>2, <1>3, <1>4, <1>6
<1>8. ReturnInv'
  BY <1>1, <1>2, <1>3 DEF Moves, ReturnInv, InAbort
<1> QED BY Zenon, <1>5, <1>7, <1>8

LEMMA TypeBoot ==
  ASSUME Typed, NEW b \in Boots, BootStep(b)
  PROVE  Typed' /\ Others(b)
<1> USE DEF Typed, TypeOK, ThreadTypes, SharedTypes, Moves, BootLabels, BootReturns, InAbort
<1> DEFINE Flags == /\ vcpu_abort_all' \in BOOLEAN /\ workers' \in BOOLEAN
                    /\ ctl_async' \in BOOLEAN
                    /\ ap_start_pending' \in [Lanes -> BOOLEAN]
                    /\ ap_passage' \in [Lanes -> BOOLEAN]
           Words == /\ co_run_gate' \in [state : GateStates, refs : Nat]
                    /\ claim_lock' \in Threads \cup {NoThread}
                    /\ active' \in [Slots -> {"FREE", "CLAIMING", "ACTIVE", "STOPPING"}]
                    /\ host_cpu' \in [Slots -> Cores \cup {NoCore}]
                    /\ scan' \in [Boots -> 1..(NLanes + 1)]
           Thread == Moves(b, BootLabels, BootReturns)
<1>1. ASSUME co_run_begin(b) PROVE Flags /\ Words /\ Thread
  <2>1. Flags
    BY <1>1, ZenonT(60) DEF co_run_begin, Gate, GateStates
  <2>2. Words
    BY <1>1, SMTT(60) DEF co_run_begin, Gate, GateStates
  <2>3. Thread
    BY <1>1, ZenonT(60) DEF co_run_begin, Gate, GateStates
  <2> QED BY Zenon, <2>1, <2>2, <2>3
<1>2. ASSUME ClearAbort(b) \/ RecheckBegin(b) \/ LostBegin(b) PROVE Flags /\ Words /\ Thread
  <2>1. Flags
    BY <1>2, ZenonT(60) DEF ClearAbort, RecheckBegin, LostBegin, shared
  <2>2. Words
    BY <1>2, SMTT(60) DEF ClearAbort, RecheckBegin, LostBegin, shared
  <2>3. Thread
    BY <1>2, ZenonT(60) DEF ClearAbort, RecheckBegin, LostBegin, shared
  <2> QED BY Zenon, <2>1, <2>2, <2>3
<1>3. ASSUME PrepareFailsEarly(b) PROVE Flags /\ Words /\ Thread
  <2>1. Flags
    BY <1>3, ZenonT(60) DEF PrepareFailsEarly, shared
  <2>2. Words
    BY <1>3, SMTT(60) DEF PrepareFailsEarly, shared
  <2>3. Thread
    BY <1>3, ZenonT(60) DEF PrepareFailsEarly, shared
  <2> QED BY Zenon, <2>1, <2>2, <2>3
<1>4. ASSUME Prepare(b) PROVE Flags /\ Words /\ Thread
  <2>1. Flags
    BY <1>4, ZenonT(60) DEF Prepare
  <2>2. Words
    BY <1>4, SMTT(60) DEF Prepare
  <2>3. Thread
    BY <1>4, ZenonT(60) DEF Prepare
  <2> QED BY Zenon, <2>1, <2>2, <2>3
<1>5. ASSUME LockForBoot(b) PROVE Flags /\ Words /\ Thread
  <2>1. Flags
    BY <1>5, ZenonT(60) DEF LockForBoot
  <2>2. Words
    BY <1>5, SMTT(60) DEF LockForBoot
  <2>3. Thread
    BY <1>5, ZenonT(60) DEF LockForBoot
  <2> QED BY Zenon, <2>1, <2>2, <2>3
<1>6. ASSUME ClaimSlot(b, BootRefused(b)) PROVE Flags /\ Words /\ Thread
  <2>1. Flags
    BY <1>6, ZenonT(60) DEF ClaimSlot
  <2>2. Words
    BY <1>6, SMTT(60) DEF ClaimSlot
  <2>3. Thread
    BY <1>6, ZenonT(60) DEF ClaimSlot
  <2> QED BY Zenon, <2>1, <2>2, <2>3
<1>7. ASSUME BindSlot(b, "start") PROVE Flags /\ Words /\ Thread
  <2>1. Flags
    BY <1>7, ZenonT(60) DEF BindSlot
  <2>2. Words
    BY <1>7, SMTT(60) DEF BindSlot
  <2>3. Thread
    BY <1>7, ZenonT(60) DEF BindSlot
  <2> QED BY Zenon, <2>1, <2>2, <2>3
<1>8. ASSUME BindFails(b, BootRefused(b)) PROVE Flags /\ Words /\ Thread
  <2>1. Flags
    BY <1>8, ZenonT(60) DEF BindFails
  <2>2. Words
    BY <1>8, SMTT(60) DEF BindFails
  <2>3. Thread
    BY <1>8, ZenonT(60) DEF BindFails
  <2> QED BY Zenon, <2>1, <2>2, <2>3
<1>9. ASSUME StartWorkers(b) PROVE Flags /\ Words /\ Thread
  <2>1. Flags
    BY <1>9, ZenonT(60) DEF StartWorkers
  <2>2. Words
    BY <1>9, SMTT(60) DEF StartWorkers
  <2>3. Thread
    BY <1>9, ZenonT(60) DEF StartWorkers
  <2> QED BY Zenon, <2>1, <2>2, <2>3
<1>10. ASSUME co_run_publish(b) PROVE Flags /\ Words /\ Thread
  <2>1. Flags
    BY <1>10, ZenonT(60) DEF co_run_publish, Gate, GateStates
  <2>2. Words
    BY <1>10, SMTT(60) DEF co_run_publish, Gate, GateStates
  <2>3. Thread
    BY <1>10, ZenonT(60) DEF co_run_publish, Gate, GateStates
  <2> QED BY Zenon, <2>1, <2>2, <2>3
<1>11. ASSUME LoopSeesAbort(b) \/ LoopBreaks(b) PROVE Flags /\ Words /\ Thread
  <2>1. Flags
    BY <1>11, ZenonT(60) DEF LoopSeesAbort, LoopBreaks, LeaveLoop, shared
  <2>2. Words
    BY <1>11, SMTT(60) DEF LoopSeesAbort, LoopBreaks, LeaveLoop, shared
  <2>3. Thread
    BY <1>11, ZenonT(60) DEF LoopSeesAbort, LoopBreaks, LeaveLoop, shared
  <2> QED BY Zenon, <2>1, <2>2, <2>3
<1>12. ASSUME Terminate(b) \/ BootEnded(b) PROVE Flags /\ Words /\ Thread
  <2>1. Flags
    BY <1>12, ZenonT(60) DEF Terminate, BootEnded, shared
  <2>2. Words
    BY <1>12, SMTT(60) DEF Terminate, BootEnded, shared
  <2>3. Thread
    BY <1>12, ZenonT(60) DEF Terminate, BootEnded, shared
  <2> QED BY Zenon, <2>1, <2>2, <2>3
<1>13. ASSUME JoinScan(b) PROVE Flags /\ Words /\ Thread
  <2>1. Flags
    BY <1>13, ZenonT(60) DEF JoinScan, shared
  <2>2. Words
    BY <1>13, SMTT(60) DEF JoinScan, shared
  <2>3. Thread
    BY <1>13, ZenonT(60) DEF JoinScan, shared
  <2> QED BY Zenon, <2>1, <2>2, <2>3
<1>14. ASSUME StopWorkers(b, "stopWorkers", "releaseBoot") PROVE Flags /\ Words /\ Thread
  <2>1. Flags
    BY <1>14, ZenonT(60) DEF StopWorkers
  <2>2. Words
    BY <1>14, SMTT(60) DEF StopWorkers
  <2>3. Thread
    BY <1>14, ZenonT(60) DEF StopWorkers
  <2> QED BY Zenon, <2>1, <2>2, <2>3
<1>15. ASSUME StopWorkers(b, "failWorkers", "failRelease") PROVE Flags /\ Words /\ Thread
  <2>1. Flags
    BY <1>15, ZenonT(60) DEF StopWorkers
  <2>2. Words
    BY <1>15, SMTT(60) DEF StopWorkers
  <2>3. Thread
    BY <1>15, ZenonT(60) DEF StopWorkers
  <2> QED BY Zenon, <2>1, <2>2, <2>3
<1>16. ASSUME ReleaseBegin(b, "releaseBoot", "freeBoot") PROVE Flags /\ Words /\ Thread
  <2>1. Flags
    BY <1>16, ZenonT(60) DEF ReleaseBegin
  <2>2. Words
    BY <1>16, SMTT(60) DEF ReleaseBegin
  <2>3. Thread
    BY <1>16, ZenonT(60) DEF ReleaseBegin
  <2> QED BY Zenon, <2>1, <2>2, <2>3
<1>17. ASSUME ReleaseBegin(b, "failRelease", "failFree") PROVE Flags /\ Words /\ Thread
  <2>1. Flags
    BY <1>17, ZenonT(60) DEF ReleaseBegin
  <2>2. Words
    BY <1>17, SMTT(60) DEF ReleaseBegin
  <2>3. Thread
    BY <1>17, ZenonT(60) DEF ReleaseBegin
  <2> QED BY Zenon, <2>1, <2>2, <2>3
<1>18. ASSUME ReleaseEnd(b, "freeBoot", BootRefused(b)) PROVE Flags /\ Words /\ Thread
  <2>1. Flags
    BY <1>18, ZenonT(60) DEF ReleaseEnd
  <2>2. Words
    BY <1>18, SMTT(60) DEF ReleaseEnd
  <2>3. Thread
    BY <1>18, ZenonT(60) DEF ReleaseEnd
  <2> QED BY Zenon, <2>1, <2>2, <2>3
<1>19. ASSUME ReleaseEnd(b, "failFree", Go(b, "free") /\ UNCHANGED <<ret, cpu>>)
       PROVE  Flags /\ Words /\ Thread
  <2>1. Flags
    BY <1>19, ZenonT(60) DEF ReleaseEnd
  <2>2. Words
    BY <1>19, SMTT(60) DEF ReleaseEnd
  <2>3. Thread
    BY <1>19, ZenonT(60) DEF ReleaseEnd
  <2> QED BY Zenon, <2>1, <2>2, <2>3
<1>20. ASSUME FreePassages(b) PROVE Flags /\ Words /\ Thread
  <2>1. Flags
    BY <1>20, ZenonT(60) DEF FreePassages
  <2>2. Words
    BY <1>20, SMTT(60) DEF FreePassages
  <2>3. Thread
    BY <1>20, ZenonT(60) DEF FreePassages
  <2> QED BY Zenon, <2>1, <2>2, <2>3
<1>21. ASSUME co_run_finish(b) PROVE Flags /\ Words /\ Thread
  <2>1. Flags
    BY <1>21, ZenonT(60) DEF co_run_finish, Idle, GateStates
  <2>2. Words
    BY <1>21, SMTT(60) DEF co_run_finish, Idle, GateStates
  <2>3. Thread
    BY <1>21, ZenonT(60) DEF co_run_finish, Idle, GateStates
  <2> QED BY Zenon, <2>1, <2>2, <2>3
<1>22. Flags /\ Words /\ Thread
  BY <1>1, <1>2, <1>3, <1>4, <1>5, <1>6, <1>7, <1>8, <1>9, <1>10, <1>11, <1>12,
     <1>13, <1>14, <1>15, <1>16, <1>17, <1>18, <1>19, <1>20, <1>21, ZenonT(60)
     DEF BootStep, BootProgress
<1> HIDE DEF Typed, TypeOK, ThreadTypes, SharedTypes, Moves, BootLabels, BootReturns, InAbort
<1> QED BY Zenon, <1>22, MovesTyped DEF Typed, TypeOK, SharedTypes

LEMMA TypePoll ==
  ASSUME Typed, NEW p \in Pollers, PollStep(p)
  PROVE  Typed' /\ Others(p)
<1> USE DEF Typed, TypeOK, ThreadTypes, SharedTypes, Moves, PollLabels, PollReturns, InAbort
<1> DEFINE Flags == /\ vcpu_abort_all' \in BOOLEAN /\ workers' \in BOOLEAN
                    /\ ctl_async' \in BOOLEAN
                    /\ ap_start_pending' \in [Lanes -> BOOLEAN]
                    /\ ap_passage' \in [Lanes -> BOOLEAN]
           Words == /\ co_run_gate' \in [state : GateStates, refs : Nat]
                    /\ claim_lock' \in Threads \cup {NoThread}
                    /\ active' \in [Slots -> {"FREE", "CLAIMING", "ACTIVE", "STOPPING"}]
                    /\ host_cpu' \in [Slots -> Cores \cup {NoCore}]
                    /\ scan' \in [Boots -> 1..(NLanes + 1)]
           Thread == Moves(p, PollLabels, PollReturns)
<1>1. ASSUME KvcpuRun(p) PROVE Flags /\ Words /\ Thread
  <2>1. Flags
    BY <1>1, ZenonT(60) DEF KvcpuRun, shared
  <2>2. Words
    BY <1>1, SMTT(60) DEF KvcpuRun, shared
  <2>3. Thread
    BY <1>1, ZenonT(60) DEF KvcpuRun, shared
  <2> QED BY Zenon, <2>1, <2>2, <2>3
<1>2. ASSUME PollCheck(p) \/ SwitchAllowed(p) PROVE Flags /\ Words /\ Thread
  <2>1. Flags
    BY <1>2, ZenonT(60) DEF PollCheck, SwitchAllowed, shared
  <2>2. Words
    BY <1>2, SMTT(60) DEF PollCheck, SwitchAllowed, shared
  <2>3. Thread
    BY <1>2, ZenonT(60) DEF PollCheck, SwitchAllowed, shared
  <2> QED BY Zenon, <2>1, <2>2, <2>3
<1>3. ASSUME SwitchRefused(p) PROVE Flags /\ Words /\ Thread
  <2>1. Flags
    BY <1>3, ZenonT(60) DEF SwitchRefused
  <2>2. Words
    BY <1>3, SMTT(60) DEF SwitchRefused
  <2>3. Thread
    BY <1>3, ZenonT(60) DEF SwitchRefused
  <2> QED BY Zenon, <2>1, <2>2, <2>3
<1>4. ASSUME Admit(p) PROVE Flags /\ Words /\ Thread
  <2>1. Flags
    BY <1>4, ZenonT(60) DEF Admit
  <2>2. Words
    BY <1>4, SMTT(60) DEF Admit
  <2>3. Thread
    BY <1>4, ZenonT(60) DEF Admit
  <2> QED BY Zenon, <2>1, <2>2, <2>3
<1>5. ASSUME ClaimSlot(p, PollRefused(p)) PROVE Flags /\ Words /\ Thread
  <2>1. Flags
    BY <1>5, ZenonT(60) DEF ClaimSlot
  <2>2. Words
    <3>1. SlotOf[p] \in Slots /\ cpu[p] \in Cores \cup {NoCore}
      BY SMTT(60)
    <3>2. active' = active \/ active' = [active EXCEPT ![SlotOf[p]] = "CLAIMING"]
      BY <1>5, ZenonT(60) DEF ClaimSlot
    <3>3. host_cpu' \in [Slots -> Cores \cup {NoCore}]
      BY <1>5, <3>1, ZenonT(60) DEF ClaimSlot
    <3>4. co_run_gate' = co_run_gate /\ scan' = scan /\ claim_lock' \in {claim_lock, NoThread}
      BY <1>5, ZenonT(60) DEF ClaimSlot
    <3>5. active' \in [Slots -> {"FREE", "CLAIMING", "ACTIVE", "STOPPING"}]
      <4>1. "CLAIMING" \in {"FREE", "CLAIMING", "ACTIVE", "STOPPING"}
        BY Zenon
      <4>2. active \in [Slots -> {"FREE", "CLAIMING", "ACTIVE", "STOPPING"}]
        BY ZenonT(60)
      <4> HIDE DEF Typed, TypeOK, ThreadTypes, SharedTypes
      <4> QED BY <3>2, <4>1, <4>2, UpdateTyped, ZenonT(60)
    <3> QED BY Zenon, <3>3, <3>4, <3>5
  <2>3. Thread
    BY <1>5, ZenonT(60) DEF ClaimSlot
  <2> QED BY Zenon, <2>1, <2>2, <2>3
<1>6. ASSUME BindSlot(p, "admitted") PROVE Flags /\ Words /\ Thread
  <2>1. Flags
    BY <1>6, ZenonT(60) DEF BindSlot
  <2>2. Words
    BY <1>6, SMTT(60) DEF BindSlot
  <2>3. Thread
    BY <1>6, ZenonT(60) DEF BindSlot
  <2> QED BY Zenon, <2>1, <2>2, <2>3
<1>7. ASSUME BindFails(p, PollRefused(p)) PROVE Flags /\ Words /\ Thread
  <2>1. Flags
    BY <1>7, ZenonT(60) DEF BindFails
  <2>2. Words
    BY <1>7, SMTT(60) DEF BindFails
  <2>3. Thread
    BY <1>7, ZenonT(60) DEF BindFails
  <2> QED BY Zenon, <2>1, <2>2, <2>3
<1>8. ASSUME AdmittedCheck(p) \/ EnterGuest(p) PROVE Flags /\ Words /\ Thread
  <2>1. Flags
    BY <1>8, ZenonT(60) DEF AdmittedCheck, EnterGuest, shared
  <2>2. Words
    BY <1>8, SMTT(60) DEF AdmittedCheck, EnterGuest, shared
  <2>3. Thread
    BY <1>8, ZenonT(60) DEF AdmittedCheck, EnterGuest, shared
  <2> QED BY Zenon, <2>1, <2>2, <2>3
<1>9. ASSUME TakePassage(p) PROVE Flags /\ Words /\ Thread
  <2>1. Flags
    BY <1>9, ZenonT(60) DEF TakePassage
  <2>2. Words
    BY <1>9, SMTT(60) DEF TakePassage
  <2>3. Thread
    BY <1>9, ZenonT(60) DEF TakePassage
  <2> QED BY Zenon, <2>1, <2>2, <2>3
<1>10. ASSUME ConsumeRequest(p) PROVE Flags /\ Words /\ Thread
  <2>1. Flags
    BY <1>10, ZenonT(60) DEF ConsumeRequest
  <2>2. Words
    BY <1>10, SMTT(60) DEF ConsumeRequest
  <2>3. Thread
    BY <1>10, ZenonT(60) DEF ConsumeRequest
  <2> QED BY Zenon, <2>1, <2>2, <2>3
<1>11. ASSUME LoopSeesAbort(p) \/ LoopBreaks(p) PROVE Flags /\ Words /\ Thread
  <2>1. Flags
    BY <1>11, ZenonT(60) DEF LoopSeesAbort, LoopBreaks, LeaveLoop, shared
  <2>2. Words
    BY <1>11, SMTT(60) DEF LoopSeesAbort, LoopBreaks, LeaveLoop, shared
  <2>3. Thread
    BY <1>11, ZenonT(60) DEF LoopSeesAbort, LoopBreaks, LeaveLoop, shared
  <2> QED BY Zenon, <2>1, <2>2, <2>3
<1>12. ASSUME Terminate(p) \/ LaneLeft(p) PROVE Flags /\ Words /\ Thread
  <2>1. Flags
    BY <1>12, ZenonT(60) DEF Terminate, LaneLeft, shared
  <2>2. Words
    BY <1>12, SMTT(60) DEF Terminate, LaneLeft, shared
  <2>3. Thread
    BY <1>12, ZenonT(60) DEF Terminate, LaneLeft, shared
  <2> QED BY Zenon, <2>1, <2>2, <2>3
<1>13. ASSUME ReleaseBegin(p, "release", "freeSlot") PROVE Flags /\ Words /\ Thread
  <2>1. Flags
    BY <1>13, ZenonT(60) DEF ReleaseBegin
  <2>2. Words
    BY <1>13, SMTT(60) DEF ReleaseBegin
  <2>3. Thread
    BY <1>13, ZenonT(60) DEF ReleaseBegin
  <2> QED BY Zenon, <2>1, <2>2, <2>3
<1>14. ASSUME ReleaseEnd(p, "freeSlot", PollRefused(p)) PROVE Flags /\ Words /\ Thread
  <2>1. Flags
    BY <1>14, ZenonT(60) DEF ReleaseEnd
  <2>2. Words
    BY <1>14, SMTT(60) DEF ReleaseEnd
  <2>3. Thread
    BY <1>14, ZenonT(60) DEF ReleaseEnd
  <2> QED BY Zenon, <2>1, <2>2, <2>3
<1>15. Flags /\ Words /\ Thread
  BY Zenon, <1>1, <1>2, <1>3, <1>4, <1>5, <1>6, <1>7, <1>8, <1>9, <1>10, <1>11, <1>12,
     <1>13, <1>14, ZenonT(60)
     DEF PollStep, PollProgress
<1> HIDE DEF Typed, TypeOK, ThreadTypes, SharedTypes, Moves, PollLabels, PollReturns, InAbort
<1> QED BY Zenon, <1>15, MovesTyped DEF Typed, TypeOK, SharedTypes

LEMMA TypeTest ==
  ASSUME Typed, NEW t \in Testers, TestStep(t)
  PROVE  Typed' /\ Others(t)
<1> USE DEF Typed, TypeOK, SharedTypes, ThreadTypes
<1> USE DEF TestStep, TestProgress, co_run_test_enter, TestClearAbort, TestRecheck,
            TestLost, TestAdmit, ClaimSlot, BindSlot, BindFails, TestLaneEnds,
            ReleaseBegin, ReleaseEnd, co_run_test_leave, shared
<1>1. vcpu_abort_all' \in BOOLEAN /\ workers' \in BOOLEAN /\ ctl_async' \in BOOLEAN
  BY ZenonT(60)
<1>2. /\ co_run_gate' \in [state : GateStates, refs : Nat]
      /\ claim_lock' \in Threads \cup {NoThread}
  BY DEF TestStarting, Idle, GateStates
<1>3. ap_start_pending' \in [Lanes -> BOOLEAN] /\ ap_passage' \in [Lanes -> BOOLEAN]
  BY Zenon
<1>4. /\ active' \in [Slots -> {"FREE", "CLAIMING", "ACTIVE", "STOPPING"}]
      /\ host_cpu' \in [Slots -> Cores \cup {NoCore}]
  <2>1. active' \in [Slots -> {"FREE", "CLAIMING", "ACTIVE", "STOPPING"}]
    OBVIOUS
  <2>2. host_cpu' \in [Slots -> Cores \cup {NoCore}]
    OBVIOUS
  <2> QED BY Zenon, <2>1, <2>2
<1>5. /\ pc' \in [Threads -> Labels]
      /\ ret' \in [Threads -> Labels]
      /\ cpu' \in [Threads -> Cores \cup {NoCore}]
  <2>1. pc' \in [Threads -> Labels]
    <3>1. \E l \in TestLabels : pc' = [pc EXCEPT ![t] = l]
      BY Zenon DEF TestLabels
    <3> QED BY <3>1 DEF Labels
  <2>2. ret' \in [Threads -> Labels]
    BY Zenon DEF Labels, BootLabels, PollLabels, TestLabels
  <2>3. cpu' \in [Threads -> Cores \cup {NoCore}]
    BY CoresAssumption
  <2> QED BY Zenon, <2>1, <2>2, <2>3
<1>6. scan' \in [Boots -> 1..(NLanes + 1)]
  <2>1. scan' = scan
    BY ZenonT(60)
  <2> QED BY Zenon, <2>1
<1>7. Others(t)
  BY Zenon DEF Others
<1>8. pc'[t] \in TestLabels /\ (InAbort(t)' => ret'[t] \in PollReturns)
  BY DEF InAbort, TestLabels, PollReturns
<1> HIDE DEF TestStep, TestProgress, co_run_test_enter, TestClearAbort, TestRecheck,
            TestLost, TestAdmit, ClaimSlot, BindSlot, BindFails, TestLaneEnds,
            ReleaseBegin, ReleaseEnd, co_run_test_leave, shared
<1>9. ReturnInv'
  BY <1>7, <1>8, ZenonT(60) DEF Others, ReturnInv, InAbort
<1>10. ThreadTypes'
  BY <1>5, <1>6, <1>7, <1>8, ZenonT(60) DEF Others
<1> QED BY Zenon, <1>1, <1>2, <1>3, <1>4, <1>7, <1>9, <1>10

LEMMA TypeStop ==
  ASSUME Typed, NEW s \in Stoppers, Stop(s)
  PROVE  Typed' /\ Others(s)
<1> USE DEF Typed, TypeOK
<1>1. SharedTypes'
  BY Zenon DEF SharedTypes, Stop, shared
<1>2. ThreadTypes' /\ ReturnInv' /\ Others(s)
  BY DEF ThreadTypes, Labels, BootLabels, PollLabels, TestLabels, StopLabels, ReturnInv,
         InAbort, Stop, Others
<1> QED BY Zenon, <1>1, <1>2

LEMMA TypeStartVcpu ==
  ASSUME Typed, NEW t \in Boots \cup Pollers, NEW v \in Lanes, StartVcpu(t, v)
  PROVE  Typed'
<1> USE DEF Typed, TypeOK
<1>1. SharedTypes'
  BY Zenon DEF SharedTypes, StartVcpu
<1>2. ThreadTypes' /\ ReturnInv'
  BY Zenon DEF ThreadTypes, ReturnInv, InAbort, StartVcpu
<1> QED BY Zenon, <1>1, <1>2

LEMMA TypeStutter == Typed /\ UNCHANGED vars => Typed'
<1> SUFFICES ASSUME Typed, UNCHANGED vars PROVE Typed'
  BY Zenon
<1> USE DEF Typed, TypeOK, vars, shared
<1>1. SharedTypes'
  BY Zenon DEF SharedTypes
<1>2. ThreadTypes' /\ ReturnInv'
  BY Zenon DEF ThreadTypes, ReturnInv, InAbort
<1> QED BY Zenon, <1>1, <1>2

LEMMA TypeNext == Typed /\ [Next]_vars => Typed'
  BY Zenon, StepCases, TypeAbort, TypeBoot, TypePoll, TypeTest, TypeStop, TypeStartVcpu,
     TypeStutter, Zenon

(* Every reachable state of the driver keeps its types: the gate word,     *)
(* the slots, the pages, and each caller at a label of its own path.       *)
THEOREM TypeCorrect == Spec => []TypeOK
<1>1. Typed => TypeOK
  BY Zenon DEF Typed
<1> QED BY <1>1, TypeInit, TypeNext, PTL DEF Spec
-----------------------------------------------------------------------------
(* The gate word. *)


(* A gate that no KBOOT owns has every KBOOT outside. *)
LEMMA BootsOut ==
  ASSUME Typed, GateInv, co_run_state \notin {"STARTING", "RUNNING", "STOPPING"}
  PROVE  \A b \in Boots : pc[b] = "out"
  BY Zenon DEF Typed, TypeOK, ThreadTypes, BootLabels, ReturnInv, InAbort, BootReturns, GateInv,
         BootGate, Early, GivingUp, InRun, Late, At

LEMMA GateBoot ==
  ASSUME Typed, GateInv, OneBoot, NEW b \in Boots, BootStep(b)
  PROVE  /\ GateInv' /\ OneBoot'
         /\ co_run_state \notin TestStates /\ co_run_gate'.refs = 0
<1> USE DEF Typed, TypeOK, SharedTypes, ThreadTypes
<1>0. co_run_begin(b) \/ pc[b] # "out"
    BY Zenon DEF BootStep, BootProgress, ClearAbort, RecheckBegin, LostBegin,
       PrepareFailsEarly, Prepare, LockForBoot, ClaimSlot, BindSlot, BindFails,
       StartWorkers, co_run_publish, LoopSeesAbort, LoopBreaks, Terminate, BootEnded,
       JoinScan, StopWorkers, ReleaseBegin, ReleaseEnd, FreePassages, co_run_finish,
       Crossing
<1>1. \A c \in Boots \ {b} : pc[c] = "out" /\ pc'[c] = "out"
  <2>1. CASE co_run_begin(b)
    BY Zenon, <2>1, BootsOut, TypeBoot DEF co_run_begin, Idle, co_run_state, Others
  <2>2. CASE pc[b] # "out"
    BY Zenon, <2>2, TypeBoot DEF OneBoot, Others
  <2> QED BY Zenon, <1>0, <2>1, <2>2
<1>2. OneBoot'
  BY Zenon, <1>1 DEF OneBoot
(* What the step does to b and to the gate. *)
<1>3. /\ BootGate(b)'
      /\ co_run_state' = "RUNNING" => InRun(b)' \/ (co_run_state = "RUNNING" /\ ~InRun(b))
      /\ co_run_gate'.refs = 0
  <2> USE DEF GateInv, BootGate, Early, GivingUp, InRun, At, Late, co_run_state
  <2>1. CASE co_run_begin(b)
    BY Zenon, <2>1 DEF co_run_begin, Idle, Gate
  <2>2. CASE ClearAbort(b)
    BY Zenon, <2>2 DEF ClearAbort
  <2>3. CASE RecheckBegin(b)
    BY Zenon, <2>3 DEF RecheckBegin, shared
  <2>4. CASE LostBegin(b)
    BY Zenon, <2>4 DEF LostBegin
  <2>5. CASE PrepareFailsEarly(b) \/ Prepare(b)
    BY Zenon, <2>5 DEF PrepareFailsEarly, Prepare, shared
  <2>6. CASE LockForBoot(b)
    BY Zenon, <2>6 DEF LockForBoot
  <2>7. CASE ClaimSlot(b, BootRefused(b))
    BY <2>7 DEF ClaimSlot
  <2>8. CASE BindSlot(b, "start") \/ BindFails(b, BootRefused(b))
    BY Zenon, <2>8 DEF BindSlot, BindFails
  <2>9. CASE StartWorkers(b)
    BY Zenon, <2>9 DEF StartWorkers
  <2>10. CASE co_run_publish(b)
    BY <2>10 DEF co_run_publish, Gate
  <2>11. CASE LoopSeesAbort(b) \/ LoopBreaks(b)
    BY <2>11 DEF LoopSeesAbort, LoopBreaks, LeaveLoop, Crossing, BootLabels, shared
  <2>12. CASE Terminate(b)
    BY <2>12, ZenonT(60) DEF Terminate, Crossing, BootLabels, shared
  <2>13. CASE BootEnded(b)
    BY Zenon, <2>13 DEF BootEnded, shared
  <2>14. CASE JoinScan(b)
    BY Zenon, <2>14 DEF JoinScan, shared
  <2>15. CASE \/ StopWorkers(b, "stopWorkers", "releaseBoot")
              \/ StopWorkers(b, "failWorkers", "failRelease")
    BY Zenon, <2>15 DEF StopWorkers
  <2>16. CASE \/ ReleaseBegin(b, "releaseBoot", "freeBoot")
              \/ ReleaseBegin(b, "failRelease", "failFree")
    BY Zenon, <2>16 DEF ReleaseBegin
  <2>17. CASE ReleaseEnd(b, "freeBoot", BootRefused(b))
    BY Zenon, <2>17 DEF ReleaseEnd
  <2>18. CASE ReleaseEnd(b, "failFree", Go(b, "free") /\ UNCHANGED <<ret, cpu>>)
    BY Zenon, <2>18 DEF ReleaseEnd
  <2>19. CASE FreePassages(b)
    BY Zenon, <2>19 DEF FreePassages
  <2>20. CASE co_run_finish(b)
    BY Zenon, <2>20 DEF co_run_finish, Idle
  <2> QED
    BY <2>1, <2>2, <2>3, <2>4, <2>5, <2>6, <2>7, <2>8, <2>9, <2>10, <2>11, <2>12, <2>13,
       <2>14, <2>15, <2>16, <2>17, <2>18, <2>19, <2>20, ZenonT(60) DEF BootStep, BootProgress
<1>4. \A c \in Boots \ {b} : BootGate(c)' /\ ~InRun(c)
  BY Zenon, <1>1 DEF BootGate, Early, GivingUp, InRun, Late, At
<1>5. co_run_state \notin TestStates
  BY BootsOut, <1>0 DEF TestStates, co_run_begin, Idle, co_run_state
<1> QED BY Zenon, <1>2, <1>3, <1>4, <1>5 DEF GateInv

LEMMA GateAbort ==
  ASSUME Typed, GateInv, OneBoot, NEW t \in Threads, CloseGate(t) \/ RaiseAbort(t)
  PROVE  GateInv' /\ OneBoot'
<1> USE DEF Typed, TypeOK, SharedTypes, ThreadTypes
<1>1. OneBoot'
  BY DEF OneBoot, CloseGate, RaiseAbort, ReturnInv, InAbort, BootReturns
<1>2. CASE CloseGate(t)
  <2> USE DEF BootGate, Early, GivingUp, InRun, At, Late, co_run_state
  <2>1. /\ co_run_gate'.refs = co_run_gate.refs
        /\ co_run_state' = IF co_run_state \in {"STARTING", "RUNNING"} THEN "STOPPING"
                           ELSE IF co_run_state \in {"TEST_STARTING", "TESTING"}
                           THEN "TEST_STOPPING" ELSE co_run_state
    BY Zenon, <1>2 DEF CloseGate, Closed
  <2>2. pc[t] = "close" /\ pc' = [pc EXCEPT ![t] = "raise"] /\ ret' = ret
    BY Zenon, <1>2 DEF CloseGate
  <2>3. \A b \in Boots : BootGate(b)'
    BY Zenon, <2>1, <2>2 DEF GateInv, ReturnInv, InAbort, BootReturns
  <2> QED BY Zenon, <1>1, <2>1, <2>3 DEF GateInv
<1>3. CASE RaiseAbort(t)
  <2> USE DEF BootGate, Early, GivingUp, InRun, At, Late, co_run_state
  <2>1. co_run_gate' = co_run_gate
    BY Zenon, <1>3 DEF RaiseAbort
  <2>2. \A b \in Boots : BootGate(b)' /\ (InRun(b) => InRun(b)')
    BY <1>3, <2>1 DEF GateInv, RaiseAbort, ReturnInv, InAbort, BootReturns
  <2> QED BY Zenon, <1>1, <2>1, <2>2 DEF GateInv
<1> QED BY Zenon, <1>2, <1>3

(* The other callers leave every KBOOT where it is. *)
LEMMA GateKept ==
  ASSUME Typed, GateInv, OneBoot, co_run_gate' = co_run_gate,
         \A b \in Boots : pc'[b] = pc[b] /\ ret'[b] = ret[b]
  PROVE  GateInv' /\ OneBoot'
  BY Zenon DEF GateInv, OneBoot, BootGate, Early, GivingUp, InRun, At, Late, co_run_state

(* Nor does a change between two states in which no KBOOT is inside. *)
LEMMA GateNoBoot ==
  ASSUME Typed, GateInv, OneBoot, \A b \in Boots : pc'[b] = pc[b] /\ ret'[b] = ret[b],
         co_run_state \in TestStates \cup {"IDLE"}, co_run_state' \in TestStates \cup {"IDLE"},
         co_run_state' = "IDLE" => co_run_gate'.refs = 0
  PROVE  GateInv' /\ OneBoot'
<1>1. \A b \in Boots : pc[b] = "out"
  BY Zenon, BootsOut DEF TestStates
<1>2. \A b \in Boots : pc'[b] = "out"
  BY Zenon, <1>1
<1>3. OneBoot'
  BY <1>2, ZenonT(60) DEF OneBoot
<1>4. \A b \in Boots : BootGate(b)'
  BY Zenon, <1>2 DEF BootGate, Early, GivingUp, InRun, At, Late
<1> QED BY Zenon, <1>3, <1>4 DEF GateInv, TestStates, co_run_state

LEMMA GatePoll ==
  ASSUME Typed, GateInv, OneBoot, NEW p \in Pollers, PollStep(p)
  PROVE  GateInv' /\ OneBoot' /\ co_run_gate' = co_run_gate
<1>1. co_run_gate' = co_run_gate
  BY Zenon DEF PollStep, PollProgress, KvcpuRun, PollCheck, SwitchAllowed, SwitchRefused, Admit,
     ClaimSlot, BindSlot, BindFails, AdmittedCheck, TakePassage, ConsumeRequest,
     EnterGuest, LoopSeesAbort, LoopBreaks, Terminate, LaneLeft, ReleaseBegin, ReleaseEnd,
     shared
<1> QED BY Zenon, <1>1, TypePoll, GateKept DEF Others

(* Inside: the TEST_SMP lanes that hold a reference. *)
Inside == {t \in Testers : HoldsTestRef(t)}

LEMMA InsideFinite == IsFiniteSet(Inside) /\ Cardinality(Inside) \in Nat
  BY Zenon, FiniteTesters, FS_Subset, FS_CardinalityType DEF Inside

LEMMA GateTest ==
  ASSUME Typed, GateInv, OneBoot, RefsExact, TestInv, NEW t \in Testers, TestStep(t)
  PROVE  GateInv' /\ OneBoot' /\ RefsExact' /\ TestInv'
<1> USE DEF Typed, TypeOK, SharedTypes, ThreadTypes
<1>1. Others(t)
  BY Zenon, TypeTest
<1>2. CASE co_run_test_enter(t)
  <2>1. /\ co_run_state \in {"IDLE", "TESTING"} /\ co_run_state' \in TestStates
        /\ co_run_gate'.refs = co_run_gate.refs + 1
        /\ pc[t] = "out" /\ pc'[t] # "out"
    BY <1>2 DEF co_run_test_enter, Idle, TestStarting, co_run_state, TestStates
  <2>2. Inside' = Inside \cup {t} /\ t \notin Inside
    BY <1>1, <2>1 DEF Inside, HoldsTestRef, Others
  <2>3. Cardinality(Inside') = Cardinality(Inside) + 1
    BY ZenonT(60), <2>2, InsideFinite, FS_AddElement
  <2>4. GateInv' /\ OneBoot'
    <3>1. \A b \in Boots : pc'[b] = pc[b] /\ ret'[b] = ret[b]
      BY Zenon, <1>1 DEF Others
    <3> QED BY Zenon, <2>1, <3>1, GateNoBoot DEF TestStates, co_run_state
  <2> QED BY Zenon, <2>1, <2>3, <2>4 DEF RefsExact, Inside, TestInv
<1>3. CASE co_run_test_leave(t)
  <2>1. /\ co_run_state \in TestStates /\ pc[t] # "out" /\ pc'[t] = "out"
        /\ co_run_gate'.refs = co_run_gate.refs - 1
        /\ co_run_state' = IF co_run_gate'.refs = 0 THEN "IDLE" ELSE co_run_state
    BY <1>3 DEF co_run_test_leave, Idle, co_run_state, TestStates
  <2>2. Inside' = Inside \ {t} /\ t \in Inside
    BY <1>1, <2>1 DEF Inside, HoldsTestRef, Others
  <2>3. Cardinality(Inside') = Cardinality(Inside) - 1
    BY ZenonT(60), <2>2, InsideFinite, FS_RemoveElement
  <2>4. RefsExact'
    BY Zenon, <2>1, <2>3 DEF RefsExact, Inside
  <2>5. co_run_gate'.refs = 0 => Inside' = {}
    BY <2>2, <2>4, InsideFinite, FS_Subset, FS_EmptySet, ZenonT(60) DEF RefsExact, Inside
  <2>6. GateInv' /\ OneBoot'
    <3>1. \A b \in Boots : pc'[b] = pc[b] /\ ret'[b] = ret[b]
      BY Zenon, <1>1 DEF Others
    <3> QED BY Zenon, <2>1, <3>1, GateNoBoot DEF TestStates, co_run_state
  <2> QED BY Zenon, <2>1, <2>4, <2>5, <2>6 DEF TestInv, Inside
<1>4. CASE TestRecheck(t) /\ co_run_gate' # co_run_gate
  <2>1. /\ co_run_gate'.refs = co_run_gate.refs /\ pc[t] # "out" /\ pc'[t] # "out"
        /\ co_run_state \in TestStates /\ co_run_state' \in TestStates
    BY <1>4 DEF TestRecheck, TestStarting, co_run_state, TestStates
  <2>2. Inside' = Inside
    BY <1>1, <2>1, ZenonT(60) DEF Inside, HoldsTestRef, Others
  <2>3. GateInv' /\ OneBoot'
    <3>1. \A b \in Boots : pc'[b] = pc[b] /\ ret'[b] = ret[b]
      BY Zenon, <1>1 DEF Others
    <3> QED BY Zenon, <2>1, <3>1, GateNoBoot DEF TestStates, co_run_state
  <2>4. RefsExact' /\ TestInv'
    BY <2>1, <2>2, ZenonT(60) DEF RefsExact, Inside, TestInv
  <2> QED BY Zenon, <2>3, <2>4
<1>5. CASE co_run_gate' = co_run_gate /\ pc[t] # "out" /\ pc'[t] # "out"
  <2>1. Inside' = Inside
    BY <1>1, <1>5, ZenonT(60) DEF Inside, HoldsTestRef, Others
  <2> QED BY <1>1, <1>5, <2>1, GateKept, ZenonT(60)
          DEF Others, RefsExact, Inside, TestInv, co_run_state
<1> QED
  BY Zenon, <1>2, <1>3, <1>4, <1>5
     DEF TestStep, TestProgress, TestClearAbort, TestRecheck, TestLost, TestAdmit, ClaimSlot,
         BindSlot, BindFails, TestLaneEnds, ReleaseBegin, ReleaseEnd, shared

LEMMA FirstLaneTest ==
  ASSUME Typed, TestInv, FirstLane, NEW t \in Testers, TestStep(t)
  PROVE  FirstLane'
<1> USE DEF Typed, TypeOK, SharedTypes, ThreadTypes, HoldsTestRef, co_run_state
<1>1. Others(t)
  BY Zenon, TypeTest
<1>2. CASE co_run_test_enter(t)
  BY <1>1, <1>2, SMTT(60)
  DEF co_run_test_enter, FirstLane, TestInv, TestStates, TestStarting, Idle, Others
<1>3. CASE pc[t] # "out"
  <2>1. /\ pc'[t] = "testClear" => FALSE
        /\ pc'[t] = "testRecheck" => pc[t] = "testClear"
    BY <1>3 DEF TestStep, TestProgress, co_run_test_enter, TestClearAbort, TestRecheck,
       TestLost, TestAdmit, ClaimSlot, BindSlot, BindFails, TestLaneEnds, ReleaseBegin,
       ReleaseEnd, co_run_test_leave, shared
  <2>2. pc'[t] = "testRecheck" => co_run_gate' = co_run_gate
    BY Zenon, <1>3 DEF TestStep, TestProgress, co_run_test_enter, TestClearAbort, TestRecheck,
       TestLost, TestAdmit, ClaimSlot, BindSlot, BindFails, TestLaneEnds, ReleaseBegin,
       ReleaseEnd, co_run_test_leave, shared
  <2> QED BY <1>1, <1>3, <2>1, <2>2, ZenonT(60) DEF FirstLane, Others
<1> QED
  BY Zenon, <1>2, <1>3 DEF TestStep, TestProgress, TestClearAbort, TestRecheck, TestLost,
     TestAdmit, ClaimSlot, BindSlot, BindFails, TestLaneEnds, ReleaseBegin, ReleaseEnd,
     co_run_test_leave

GateAll == GateInv /\ OneBoot /\ RefsExact /\ TestInv /\ FirstLane

LEMMA GateInit == Init => GateAll
<1> SUFFICES ASSUME Init PROVE GateAll
  BY Zenon
<1>1. Inside = {}
  BY Zenon DEF Init, Inside, HoldsTestRef
<1>2. RefsExact
  BY <1>1, FS_EmptySet, ZenonT(60) DEF Init, Idle, RefsExact, Inside
<1>3. GateInv /\ OneBoot /\ TestInv /\ FirstLane
  BY Zenon
  DEF Init, Idle, GateInv, OneBoot, TestInv, FirstLane, HoldsTestRef, BootGate, Early, GivingUp,
         InRun, At, Late, co_run_state
<1> QED BY Zenon, <1>2, <1>3 DEF GateAll

LEMMA GateNext == Typed /\ GateAll /\ [Next]_vars => GateAll'
<1> SUFFICES ASSUME Typed, GateAll, [Next]_vars PROVE GateAll'
  BY Zenon
<1> USE DEF GateAll
<1>1. ASSUME NEW t \in Threads, CloseGate(t) \/ RaiseAbort(t) PROVE GateAll'
  <2>1. \A u \in Testers : pc'[u] = pc[u]
    BY <1>1, TypeAbort, SMTT(60) DEF Others, CloseGate, RaiseAbort, Typed, TypeOK, ThreadTypes,
       TestLabels
  <2>2. /\ co_run_gate'.refs = co_run_gate.refs
        /\ co_run_state \in TestStates => co_run_state' \in TestStates
    BY <1>1 DEF CloseGate, RaiseAbort, Closed, co_run_state, TestStates, Typed, TypeOK,
                SharedTypes
  <2>3. Inside' = Inside
    BY Zenon, <2>1 DEF Inside, HoldsTestRef
  <2>4. RefsExact' /\ TestInv'
    BY Zenon, <2>2, <2>3 DEF RefsExact, TestInv, Inside
  <2>5. FirstLane'
    BY <1>1, <2>1 DEF FirstLane, HoldsTestRef, CloseGate, RaiseAbort, Closed, co_run_state,
       Typed, TypeOK, SharedTypes
  <2> QED BY Zenon, <1>1, <2>4, <2>5, GateAbort
<1>2. ASSUME NEW b \in Boots, BootStep(b) PROVE GateAll'
  <2>1. \A u \in Testers : pc'[u] = pc[u] /\ ~HoldsTestRef(u)
    BY Zenon, <1>2, TypeBoot, GateBoot DEF Others, TestInv
  <2>2. Inside = {} /\ Inside' = {}
    BY Zenon, <2>1 DEF Inside, HoldsTestRef
  <2>3. RefsExact' /\ TestInv'
    BY Zenon, <1>2, <2>2, GateBoot, FS_EmptySet DEF RefsExact, TestInv, Inside
  <2>4. FirstLane'
    BY Zenon, <2>1 DEF FirstLane, HoldsTestRef
  <2> QED BY Zenon, <1>2, <2>3, <2>4, GateBoot
<1>3. ASSUME \A u \in Testers \cup Boots : pc'[u] = pc[u] /\ ret'[u] = ret[u],
             co_run_gate' = co_run_gate
      PROVE  GateAll'
  <2>1. Inside' = Inside
    BY Zenon, <1>3 DEF Inside, HoldsTestRef
  <2>2. FirstLane'
    BY Zenon, <1>3 DEF FirstLane, HoldsTestRef, co_run_state
  <2> QED BY Zenon, <1>3, <2>1, <2>2, GateKept DEF RefsExact, TestInv, Inside, co_run_state
<1>4. ASSUME NEW p \in Pollers, PollStep(p) PROVE GateAll'
  BY Zenon, <1>3, <1>4, GatePoll, TypePoll DEF Others
<1>5. ASSUME NEW t \in Testers, TestStep(t) PROVE GateAll'
  BY Zenon, <1>5, GateTest, FirstLaneTest
<1>6. ASSUME NEW s \in Stoppers, Stop(s) PROVE GateAll'
  BY Zenon, <1>3, <1>6, TypeStop DEF Others, Stop, shared
<1>7. ASSUME NEW t \in Boots \cup Pollers, NEW v \in Lanes, StartVcpu(t, v) PROVE GateAll'
  BY Zenon, <1>3, <1>7 DEF StartVcpu
<1>8. CASE UNCHANGED vars
  BY Zenon, <1>3, <1>8 DEF vars, shared
<1> QED BY <1>1, <1>2, <1>4, <1>5, <1>6, <1>7, <1>8, StepCases, ZenonT(60)

(* The reference count in the gate word is exact however many TEST_SMP     *)
(* lanes come and go, and whichever of them is refused or stopped.         *)
THEOREM RefsCorrect == Spec => []RefsExact
<1>1. GateAll => RefsExact
  BY Zenon DEF GateAll
<1> QED BY <1>1, TypeInit, TypeNext, GateInit, GateNext, PTL DEF Spec

(* co_run_begin admits one KBOOT at a time, and none beside a TEST_SMP. *)
THEOREM RunExclusiveCorrect == Spec => []RunExclusive
<1>1. Typed /\ GateAll => RunExclusive
  BY Zenon, BootsOut DEF GateAll, OneBoot, TestInv, TestStates, RunExclusive
<1> QED BY <1>1, TypeInit, TypeNext, GateInit, GateNext, PTL DEF Spec
=============================================================================
