-------------------------- MODULE VcpuClockProofs --------------------------
(***************************************************************************)
(* For every length of tick, every threshold and every set of timers: the  *)
(* loop reads the operation the guest stored, and no idle wait oversleeps  *)
(* the kernel's timer.  What ties the two ends together is Covered: as     *)
(* long as a timer is set, the deadline is published and lies, seen from   *)
(* now, no later than the timer, however old the stamp it was set against. *)
(***************************************************************************)
EXTENDS VcpuClock, TLAPS

Covered ==
  mode # "periodic" /\ timer.on =>
    mode = "oneshot" /\ deadline.on /\ deadline.left - age <= timer.left

\* Whoever is about to be entered has somewhere to go on.
Resumable == pc \in {"top", "forward", "idle", "waiting", "spin"} => resume # "none"

\* A processor that waits has made its call.
Resting == pc \in {"waiting", "spin"} => resume = "back"

IInv == TypeOK /\ OperationKept /\ Resumable /\ Resting /\ Covered /\ NoOversleep

\* The point beyond which the clamp forgets is at least a tick.
LEMMA ClampedIsLong ==
  ASSUME ClockConstants
  PROVE  Clamped \in Nat /\ Tick <= Clamped /\ Deltas \subseteq 1..Clamped
<1>1. Hz \in Nat /\ Tick \in Nat /\ Hz >= 1  BY DEF ClockConstants
<1>2. (Hz + 1) * Tick = Hz * Tick + Tick  BY <1>1
<1>3. Hz * Tick \in Nat  BY <1>1
<1> QED  BY <1>1, <1>2, <1>3 DEF ClockConstants, Clamped

\* Rounding up to whole milliseconds adds less than one.
LEMMA RoundUpBounds ==
  ASSUME ClockConstants, NEW n \in Nat
  PROVE  RoundUp(n) \in Nat /\ n <= RoundUp(n) /\ RoundUp(n) < n + Tick
<1> DEFINE q == (n + Tick - 1) \div Tick
<1>1. Tick \in Nat /\ Tick > 0  BY DEF ClockConstants
<1>2. n + Tick - 1 \in Nat  BY <1>1
<1>3. q \in Nat /\ Tick * q <= n + Tick - 1 /\ n + Tick - 1 < Tick * q + Tick
  BY <1>1, <1>2
<1>4. Tick * q \in Nat  BY <1>1, <1>3
<1> QED  BY <1>1, <1>2, <1>3, <1>4 DEF RoundUp

\* The wait for a tick lasts one tick.
LEMMA TickIsOne ==
  ASSUME ClockConstants, NEW n \in 1..Tick
  PROVE  RoundUp(n) = Tick
<1>1. Tick \in Nat /\ Tick > 0  BY DEF ClockConstants
<1>2. n + Tick - 1 \in Tick..(2 * Tick - 1)  BY <1>1
<1>3. (n + Tick - 1) \div Tick = 1  BY <1>1, <1>2
<1> QED  BY <1>1, <1>3 DEF RoundUp

\* Initially nothing is asked, set or waited for.
LEMMA InitIInv ==
  ASSUME ClockConstants, Init
  PROVE  IInv
<1>1. Clamped \in Nat  BY ClampedIsLong
<1>2. Tick \in Nat /\ Preempt \in Nat  BY DEF ClockConstants
<1>3. Off \in [on : BOOLEAN, left : 0..Clamped]  BY <1>1 DEF Off
<1>4. NoWait \in [for : {"nothing", "blind", "tick", "far", "near"}, left : 0..(Clamped + Tick)]
  BY <1>1, <1>2 DEF NoWait
<1>5. TypeOK
  <2>1. /\ pc = "top" /\ resume = "kernel" /\ operation = "none" /\ want = "none"
        /\ age \in 0..Clamped /\ tick_due \in 0..Tick /\ mode = "periodic"
    BY <1>1, <1>2 DEF Init
  <2>2. behind = Unset /\ tick_last = Unset /\ deadline = Off /\ timer = Off /\ wake = NoWait
    BY DEF Init
  <2>3. event \in BOOLEAN /\ idled \in BOOLEAN  BY DEF Init
  <2> QED  BY <1>3, <1>4, <2>1, <2>2, <2>3 DEF TypeOK
<1>6. OperationKept /\ Resumable /\ Resting /\ Covered /\ NoOversleep
  BY DEF Init, OperationKept, Resumable, Resting, Covered, NoOversleep
<1> QED  BY <1>5, <1>6 DEF IInv

\* A boundary of the guest's keeps the device's types and the deadline ahead of the timer.
LEMMA TakeTicksKeeps ==
  ASSUME ClockConstants, IInv, take_ticks, age' = age
  PROVE  /\ mode' \in {"periodic", "oneshot", "stopped"}
         /\ behind' \in 0..Clamped
         /\ deadline' \in [on : BOOLEAN, left : 0..Clamped]
         /\ timer' \in [on : BOOLEAN, left : 0..Clamped]
         /\ Covered'
<1> USE ClampedIsLong
<1>a. /\ age \in 0..Clamped /\ behind \in {Unset} \cup 0..Clamped
      /\ mode \in {"periodic", "oneshot", "stopped"}
      /\ deadline \in [on : BOOLEAN, left : 0..Clamped]
      /\ timer \in [on : BOOLEAN, left : 0..Clamped]
      /\ Covered
  BY DEF IInv, TypeOK
<1>1. CASE mode = "oneshot" /\ behind' = 0 /\ UNCHANGED <<mode, deadline, timer>>
  BY <1>a, <1>1 DEF Covered
<1>2. CASE mode = "oneshot" /\ behind' = 0 /\ OneshotHandler
  <2>1. CASE timer' = Off /\ Stop
    BY <1>a, <1>2, <2>1 DEF Off, Stop, Covered
  <2>2. ASSUME NEW d \in Deltas, timer' = Set(d), SetNext(d), UNCHANGED mode
        PROVE  /\ timer' \in [on : BOOLEAN, left : 0..Clamped]
               /\ deadline' \in [on : BOOLEAN, left : 0..Clamped]
               /\ Covered'
    BY <1>a, <1>2, <2>2 DEF Set, SetNext, Covered
  <2>3. CASE SetNext(timer.left) /\ UNCHANGED <<mode, timer>>
    <3>1. deadline' = [on |-> TRUE, left |-> timer.left]  BY <2>3 DEF SetNext, Set
    <3> QED  BY <1>a, <1>2, <2>3, <3>1 DEF Covered
  <2>4. CASE UNCHANGED <<mode, deadline, timer>>
    BY <1>a, <1>2, <2>4 DEF Covered
  <2> QED  BY <1>a, <1>2, <2>1, <2>2, <2>3, <2>4 DEF OneshotHandler
<1>3. CASE mode # "oneshot"
  <2> DEFINE n == behind \div Tick
  <2>1. behind' \in 0..Clamped
    <3>1. Tick \in Nat /\ Tick > 0  BY DEF ClockConstants
    <3>2. ASSUME behind \in Nat PROVE behind % Tick \in 0..(Tick - 1)  BY <3>1, <3>2
    <3> QED  BY <1>a, <1>3, <3>1, <3>2 DEF take_ticks, ElapsedTicks, Unset
  <2>2. CASE UNCHANGED <<mode, deadline, timer>>
    BY <1>a, <2>1, <2>2 DEF Covered
  <2>3. CASE mode = "periodic" /\ behind # Unset /\ PeriodicHandler(AtMost(n, Hz))
    <3>1. behind \in Nat /\ Tick \in Nat /\ Tick > 0 /\ Hz \in Nat
      BY <1>a, <2>3 DEF ClockConstants
    <3>2. n \in Nat  BY <3>1
    <3> HIDE DEF n
    <3>3. AtMost(n, Hz) \in Nat  BY <3>1, <3>2 DEF AtMost
    <3> QED  BY <1>a, <2>1, <2>3, <3>3 DEF PeriodicHandler, Off, Covered
  <2> QED  BY <1>3, <2>1, <2>2, <2>3 DEF take_ticks, ElapsedTicks
<1> QED  BY <1>a, <1>1, <1>2, <1>3 DEF take_ticks, OneshotTicks

\* The three boundaries of the guest's.
LEMMA BoundaryKeeps ==
  ASSUME ClockConstants, IInv, take_ticks,
         pc' \in {"user", "kernel"}, UNCHANGED <<calls, event, age, host>>
  PROVE  IInv'
<1> USE DEF calls, host
<1>1. TypeOK'  BY TakeTicksKeeps DEF IInv, TypeOK
<1>2. Covered'  BY TakeTicksKeeps
<1>3. OperationKept' /\ Resumable' /\ Resting' /\ NoOversleep'
  BY DEF OperationKept, Resumable, Resting, NoOversleep
<1> QED  BY <1>1, <1>2, <1>3 DEF IInv

\* The kernel's timers.
LEMMA TimersKeep ==
  ASSUME ClockConstants, IInv, NEW d \in Deltas, StartTimer(d) \/ SwitchToOneshot(d)
  PROVE  IInv'
<1> USE ClampedIsLong DEF calls, host
<1>1. Set(d) \in [on : BOOLEAN, left : 0..Clamped] /\ Set(d).on /\ Set(d).left = d
  BY DEF Set
<1>2. /\ pc = "kernel" /\ timer' = Set(d)
      /\ UNCHANGED <<pc, calls, event, age, behind, host>>
      /\ \/ mode' = "periodic" /\ UNCHANGED deadline
         \/ mode' = "oneshot" /\ deadline' = Set(d)
  BY DEF StartTimer, SwitchToOneshot, SetNext
<1>3. TypeOK'  BY <1>1, <1>2 DEF IInv, TypeOK
<1>4. d - age <= d  BY DEF IInv, TypeOK
<1>5. Covered'  BY <1>1, <1>2, <1>4 DEF Covered
<1>6. OperationKept' /\ Resumable' /\ Resting' /\ NoOversleep'
  BY <1>2 DEF IInv, OperationKept, Resumable, Resting, NoOversleep
<1> QED  BY <1>3, <1>5, <1>6 DEF IInv

\* The guest's other steps and the interrupts leave its clock alone.
LEMMA CrossingsKeep ==
  ASSUME IInv,
         \/ Syscall \/ Voluntary \/ Interrupt \/ Doorbell
         \/ \E o \in {"idle", "other"} : StoreOperation(o)
  PROVE  IInv'
<1> USE DEF IInv, calls, host, clock
<1>1. CASE Syscall
  BY <1>1 DEF Syscall, TypeOK, OperationKept, Resumable, Resting, Covered, NoOversleep
<1>2. CASE Voluntary
  <2>1. operation \in {"idle", "other"} /\ operation = want
    BY <1>2 DEF Voluntary, TypeOK, OperationKept
  <2> QED
    BY <1>2, <2>1
    DEF Voluntary, TypeOK, OperationKept, Resumable, Resting, Covered, NoOversleep
<1>3. CASE Interrupt
  BY <1>3 DEF Interrupt, InGuest, TypeOK, OperationKept, Resumable, Resting, Covered, NoOversleep
<1>4. CASE Doorbell
  BY <1>4 DEF Doorbell, TypeOK, OperationKept, Resumable, Resting, Covered, NoOversleep
<1>5. CASE \E o \in {"idle", "other"} : StoreOperation(o)
  BY <1>5 DEF StoreOperation, TypeOK, OperationKept, Resumable, Resting, Covered, NoOversleep
<1> QED  BY <1>1, <1>2, <1>3, <1>4, <1>5

\* Time passes: the timer and the wait come nearer together, the stamp grows older.
LEMMA PassKeeps ==
  ASSUME ClockConstants, IInv, Pass
  PROVE  IInv'
<1> USE ClampedIsLong DEF calls
<1>1. Tick \in Nat /\ Tick > 0 /\ Preempt \in Nat  BY DEF ClockConstants
<1>2. /\ age \in 0..Clamped /\ tick_due \in 0..Tick /\ tick_last \in {Unset} \cup 0..Preempt
      /\ deadline \in [on : BOOLEAN, left : 0..Clamped]
      /\ timer \in [on : BOOLEAN, left : 0..Clamped]
      /\ wake \in [for : {"nothing", "blind", "tick", "far", "near"}, left : 0..(Clamped + Tick)]
  BY DEF IInv, TypeOK
<1>3. /\ age' \in 0..Clamped /\ (age' = age + 1 \/ (age' = age /\ age = Clamped))
      /\ tick_due' \in 0..Tick
  BY <1>1, <1>2 DEF Pass, AtMost, AtLeast0
<1>4. tick_last' \in {Unset} \cup 0..Preempt  BY <1>1, <1>2 DEF Pass, AtMost, Unset
<1>5. /\ timer' \in [on : BOOLEAN, left : 0..Clamped] /\ timer'.on = timer.on
      /\ mode # "periodic" => timer'.left = AtLeast0(timer.left - 1)
  BY <1>2 DEF Pass, AtLeast0
<1>6. /\ wake' \in [for : {"nothing", "blind", "tick", "far", "near"}, left : 0..(Clamped + Tick)]
      /\ wake'.for = wake.for /\ wake'.left = AtLeast0(wake.left - 1)
  BY <1>1, <1>2 DEF Pass, AtLeast0
<1>7. TypeOK'  BY <1>3, <1>4, <1>5, <1>6 DEF Pass, IInv, TypeOK
<1>8. Covered'
  <2>1. mode' = mode /\ deadline' = deadline  BY DEF Pass
  <2> QED  BY <1>2, <1>3, <1>5, <2>1 DEF IInv, Covered, AtLeast0
<1>9. NoOversleep'
  <2>1. pc' = pc /\ mode' = mode  BY DEF Pass
  <2> QED  BY <1>1, <1>2, <1>5, <1>6, <2>1 DEF IInv, NoOversleep, AtLeast0
<1>10. OperationKept' /\ Resumable' /\ Resting'
  BY DEF Pass, IInv, OperationKept, Resumable, Resting
<1> QED  BY <1>7, <1>8, <1>9, <1>10 DEF IInv

\* Entering the guest moves the deadline's origin to the new stamp.
LEMMA EnterKeeps ==
  ASSUME ClockConstants, IInv, Enter
  PROVE  IInv'
<1> USE ClampedIsLong DEF host
<1>1. /\ age \in 0..Clamped /\ behind \in {Unset} \cup 0..Clamped
      /\ deadline \in [on : BOOLEAN, left : 0..Clamped]
      /\ timer \in [on : BOOLEAN, left : 0..Clamped]
  BY DEF IInv, TypeOK
<1>2. /\ age' = 0 /\ mode' = mode /\ timer' = timer
      /\ deadline' \in [on : BOOLEAN, left : 0..Clamped] /\ deadline'.on = deadline.on
      /\ deadline'.left = AtLeast0(deadline.left - age)
  BY <1>1 DEF Enter, AtLeast0
<1>3. behind' \in {Unset} \cup 0..Clamped  BY <1>1 DEF Enter, AtMost, Unset
<1>4. pc' = resume /\ resume \in {"user", "kernel", "asked", "back", "tick"}
  BY DEF Enter, IInv, TypeOK, Resumable
<1>5. TypeOK'  BY <1>2, <1>3, <1>4 DEF Enter, IInv, TypeOK
<1>6. Covered'  BY <1>1, <1>2 DEF IInv, Covered, AtLeast0
<1>7. OperationKept' /\ NoOversleep'
  BY <1>4 DEF Enter, IInv, OperationKept, NoOversleep
<1>8. Resumable' /\ Resting'  BY <1>4 DEF Resumable, Resting
<1> QED  BY <1>5, <1>6, <1>7, <1>8 DEF IInv

\* An idle crossing chooses its wait by the deadline, which the timer does not precede.
LEMMA IdleKeeps ==
  ASSUME ClockConstants, IInv,
         NEW readable \in BOOLEAN, NEW hires \in BOOLEAN, Idle(readable, hires)
  PROVE  IInv'
<1> DEFINE B == Bound(readable, hires)
<1> USE ClampedIsLong DEF calls, clock
<1>1. Tick \in Nat /\ Tick > 0 /\ Near \in Nat  BY DEF ClockConstants
<1>2. /\ age \in 0..Clamped /\ tick_due \in 0..Tick
      /\ deadline \in [on : BOOLEAN, left : 0..Clamped]
      /\ timer \in [on : BOOLEAN, left : 0..Clamped]
  BY DEF IInv, TypeOK
<1>3. TickDue \in 1..Tick /\ RoundUp(TickDue) = Tick
  <2>1. TickDue \in 1..Tick  BY <1>1, <1>2 DEF TickDue
  <2> QED  BY <2>1, TickIsOne
<1>4. ToDeadline \in 0..Clamped  BY <1>2 DEF ToDeadline, AtLeast0
<1>5. RoundUp(ToDeadline) \in Nat /\ RoundUp(ToDeadline) < ToDeadline + Tick
  BY <1>4, RoundUpBounds
<1>6. /\ B \in [for : {"nothing", "blind", "tick", "far", "near"}, left : 0..(Clamped + Tick)]
      /\ B.for \in {"blind", "tick"} => B.left = Tick
      /\ B.for = "tick" => ~deadline.on
      /\ B.for \in {"far", "near"} => B.left < ToDeadline + Tick
      /\ B.for = "nothing" => B = NoWait
  BY <1>1, <1>3, <1>4, <1>5 DEF Bound, NoWait
<1>7. wake' = B  BY DEF Idle
<1> HIDE DEF B
<1>8. TypeOK'
  <2>1. idled' \in BOOLEAN /\ tick_due' \in 0..Tick  BY <1>1, <1>3 DEF Idle
  <2> QED  BY <1>6, <1>7, <2>1 DEF Idle, IInv, TypeOK
<1>9. Covered'  BY DEF Idle, IInv, Covered
<1>10. OperationKept' /\ Resumable' /\ Resting'
  BY DEF Idle, IInv, OperationKept, Resumable, Resting
<1>11. NoOversleep'
  <2> SUFFICES ASSUME pc' = "waiting" PROVE NoOversleep'  BY DEF NoOversleep
  <2>1. wake' # NoWait /\ timer' = timer /\ mode' = mode  BY DEF Idle
  <2>2. mode # "periodic" /\ timer.on => deadline.on /\ ToDeadline <= timer.left
    BY <1>2 DEF IInv, Covered, ToDeadline, AtLeast0
  <2> QED  BY <1>1, <1>2, <1>4, <1>6, <1>7, <2>1, <2>2 DEF NoOversleep
<1> QED  BY <1>8, <1>9, <1>10, <1>11 DEF IInv

\* The host's other steps end a wait or choose where the guest goes on.
LEMMA LoopKeeps ==
  ASSUME ClockConstants, IInv, co_arch_inject_tick \/ WaitRung \/ WaitTimeout \/ SpinEnds
  PROVE  IInv'
<1> USE DEF IInv, calls, host, clock
<1>1. NoWait \in [for : {"nothing", "blind", "tick", "far", "near"}, left : 0..(Clamped + Tick)]
  BY ClampedIsLong DEF NoWait, ClockConstants
<1>2. CASE co_arch_inject_tick
  <2>1. 0 \in 0..Preempt  BY DEF ClockConstants
  <2> QED
    BY <1>2, <2>1
    DEF co_arch_inject_tick, Injects, TypeOK, OperationKept, Resumable, Resting, Covered,
        NoOversleep
<1>3. CASE WaitRung \/ WaitTimeout
  <2>1. /\ pc = "waiting" /\ pc' \in {"spin", "top"} /\ wake' = NoWait /\ event' \in BOOLEAN
        /\ UNCHANGED <<calls, age, clock, tick_due, tick_last, idled>>
    BY <1>3 DEF WaitRung, WaitTimeout, AfterWait, TypeOK
  <2>2. TypeOK'  BY <1>1, <2>1 DEF TypeOK
  <2>3. Covered' /\ NoOversleep' /\ Resumable'  BY <2>1 DEF Covered, NoOversleep, Resumable
  <2>4. OperationKept'  BY <2>1, <2>2 DEF OperationKept, Resting
  <2>5. Resting'  BY <2>1 DEF Resting
  <2> QED  BY <2>2, <2>3, <2>4, <2>5
<1>4. CASE SpinEnds
  BY <1>4
  DEF SpinEnds, TypeOK, OperationKept, Resumable, Resting, Covered, NoOversleep
<1> QED  BY <1>2, <1>3, <1>4

\* Every step keeps the invariant.
LEMMA StepIInv ==
  ASSUME ClockConstants, IInv, [Next]_vars
  PROVE  IInv'
<1>1. CASE UNCHANGED vars
  BY <1>1
  DEF vars, IInv, TypeOK, OperationKept, Resumable, Resting, Covered, NoOversleep
<1>2. CASE exit_to_user_mode_prepare \/ co_cpu_idle \/ sysvec_co_timer
  BY <1>2, BoundaryKeeps DEF exit_to_user_mode_prepare, co_cpu_idle, sysvec_co_timer
<1>3. CASE \E d \in Deltas : StartTimer(d) \/ SwitchToOneshot(d)
  BY <1>3, TimersKeep
<1>4. CASE \/ Syscall \/ Voluntary \/ Interrupt \/ Doorbell
           \/ \E o \in {"idle", "other"} : StoreOperation(o)
  BY <1>4, CrossingsKeep
<1>5. CASE Pass  BY <1>5, PassKeeps
<1>6. CASE Enter  BY <1>6, EnterKeeps
<1>7. CASE \E readable, hires \in BOOLEAN : Idle(readable, hires)  BY <1>7, IdleKeeps
<1>8. CASE co_arch_inject_tick \/ WaitRung \/ WaitTimeout \/ SpinEnds
  BY <1>8, LoopKeeps
<1> QED
  BY <1>1, <1>2, <1>3, <1>4, <1>5, <1>6, <1>7, <1>8
  DEF Next, Guest, Loop, LeaveKernel, GuestGoesOn

\* The inductive invariant holds in every state of the clock.
LEMMA Invariance ==
  ASSUME ClockConstants
  PROVE  Spec => []IInv
<1>1. Init => IInv  BY InitIInv
<1>2. IInv /\ [Next]_vars => IInv'  BY StepIInv
<1> QED  BY <1>1, <1>2, PTL DEF Spec

\* Every part of the processor's time has its type, and no run ends in an operation the loop
\* does not know.
THEOREM TypeCorrect == Spec => []TypeOK
<1>1. IInv => TypeOK  BY DEF IInv
<1> QED  BY <1>1, ClockAssumption, Invariance, PTL

\* The crossing loop reads the operation the guest stored, whatever interrupts come between
\* the store and the call.
THEOREM OperationIsKept == Spec => []OperationKept
<1>1. IInv => OperationKept  BY DEF IInv
<1> QED  BY <1>1, ClockAssumption, Invariance, PTL

\* No idle wait oversleeps the kernel's timer by a tick.
THEOREM TimersAreNotOverslept == Spec => []NoOversleep
<1>1. IInv => NoOversleep  BY DEF IInv
<1> QED  BY <1>1, ClockAssumption, Invariance, PTL
=============================================================================
