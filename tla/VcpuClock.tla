----------------------------- MODULE VcpuClock -----------------------------
(***************************************************************************)
(* The time of one guest processor.  The guest has no timer: the host      *)
(* stamps its clock into the passage page before every entry, the guest    *)
(* turns elapsed time into calls of its tick handler at the boundaries it  *)
(* knows to be safe, publishes the next event it waits for in one word,    *)
(* and the host bounds the processor's idle wait by that word.  While user *)
(* code runs, a host timer interrupts it and the host, having replayed the *)
(* interrupt, may resume the guest in its timer entry instead.             *)
(*                                                                         *)
(* Instants are kept as distances: what lies ahead is counted from now and *)
(* stops at 0, what lies behind is counted up to where the code no longer  *)
(* tells more time apart.  The kernel's tick core (which event is next,    *)
(* when the device is stopped) is external; one kernel timer stands for    *)
(* all.  The run's end and posted vectors are left to RunGate and VcpuIpi. *)
(***************************************************************************)
EXTENDS Integers

CONSTANTS Tick,       \* CO_GUEST_TICK_100NS: one guest tick, also one millisecond of host wait
          Near,       \* a deadline closer than this gets the precise wait (9000 of 10000)
          Spin,       \* a deadline closer than this is spun for (2500 of 10000)
          Preempt,    \* CO_GUEST_PREEMPT_100NS
          Hz,         \* the most ticks one boundary makes up for
          Deltas      \* how far ahead the kernel sets its timer

\* The constants as the code has them; no timer is set further ahead than the model counts.
ClockConstants ==
  /\ Tick \in Nat \ {0} /\ Near \in 0..Tick /\ Spin \in 0..Near
  /\ Preempt \in Nat \ {0} /\ Hz \in Nat \ {0}
  /\ Deltas \subseteq 1..((Hz + 1) * Tick)

ASSUME ClockAssumption == ClockConstants

VARIABLES
  pc,         \* where this processor's thread is, in the host's loop or in the guest
  resume,     \* where the guest goes on when it is entered, "none" while it runs
  operation,  \* pp->operation
  want,       \* the operation the guest is calling the switch for
  event,      \* co_idle_wake_event: the doorbell
  age,        \* how old the stamp of the host's clock is (params[49])
  behind,     \* the stamp minus last_mono, or Unset
  mode,       \* the clock event device's state
  deadline,   \* co_colinux_timer_deadline: on or not, and how far it lies after the stamp
  timer,      \* the kernel's next timer: periodic in ticks to come, oneshot from now
  tick_due,   \* the host's next tick for an idle guest, from now
  tick_last,  \* how long ago the timer entry was last injected, or Unset
  idled,      \* out->idle_yields is not 0
  wake        \* the idle wait: what it is for, and how long it is still to last

vars == <<pc, resume, operation, want, event, age, behind, mode, deadline, timer, tick_due,
          tick_last, idled, wake>>

\* What only the guest's clock code, only the guest's other code, and only the host changes.
clock == <<behind, mode, deadline, timer>>
calls == <<operation, want, resume>>
host == <<tick_due, tick_last, idled, wake>>

Unset == -1
NoWait == [for |-> "nothing", left |-> 0]
Off == [on |-> FALSE, left |-> 0]
Set(n) == [on |-> TRUE, left |-> n]

AtLeast0(n) == IF n < 0 THEN 0 ELSE n
AtMost(n, max) == IF n > max THEN max ELSE n

\* More elapsed time than this and the clamp forgets the rest.
Clamped == (Hz + 1) * Tick

Init ==
  /\ pc = "top" /\ resume = "kernel"
  /\ operation = "none" /\ want = "none"
  /\ event = FALSE
  /\ age = 0 /\ behind = Unset
  /\ mode = "periodic" /\ deadline = Off /\ timer = Off
  /\ tick_due = 0 /\ tick_last = Unset /\ idled = FALSE
  /\ wake = NoWait

-----------------------------------------------------------------------------
(* Time. *)

Pass ==
  /\ age' = AtMost(age + 1, Clamped)
  /\ timer' = IF mode = "periodic" THEN timer ELSE [timer EXCEPT !.left = AtLeast0(@ - 1)]
  /\ tick_due' = AtLeast0(tick_due - 1)
  /\ tick_last' = IF tick_last = Unset THEN Unset ELSE AtMost(tick_last + 1, Preempt)
  /\ wake' = [wake EXCEPT !.left = AtLeast0(@ - 1)]
  /\ UNCHANGED <<pc, calls, event, behind, mode, deadline, idled>>

-----------------------------------------------------------------------------
(* The guest's clock event device. *)

\* co_colinux_ce_set_next: the deadline counts from the stamp, which may be old.
SetNext(delta) == deadline' = Set(delta)

\* co_colinux_ce_stop, from set_state_oneshot_stopped.
Stop == mode' = "stopped" /\ deadline' = Off

\* One call of the tick handler in oneshot mode.  A timer that has expired is run, and the
\* core stops the device or sets it for the next one; for one that has not, it sets the device
\* again or believes that the device still carries it and leaves it alone.
OneshotHandler ==
  \/ timer.left = 0 /\ timer' = Off /\ Stop
  \/ /\ timer.left = 0
     /\ \E d \in Deltas : timer' = Set(d) /\ SetNext(d)
     /\ UNCHANGED mode
  \/ /\ timer.left > 0
     /\ SetNext(timer.left) \/ UNCHANGED deadline
     /\ UNCHANGED <<mode, timer>>

\* n calls of the handler in periodic mode: the timer wheel moves n ticks on.
PeriodicHandler(n) ==
  /\ timer' = IF timer.left <= n THEN Off ELSE [timer EXCEPT !.left = @ - n]
  /\ UNCHANGED <<mode, deadline>>

\* A slip, for the check of TimersExpire: firing consumes the deadline.
OneshotTicksEdge ==
  /\ behind' = 0
  /\ IF deadline.on /\ deadline.left = 0
     THEN \/ timer.left = 0 /\ OneshotHandler
          \/ timer.left > 0 /\ deadline' \in {Off, Set(timer.left)} /\ UNCHANGED <<mode, timer>>
     ELSE UNCHANGED <<mode, deadline, timer>>

\* co_colinux_take_ticks and the handler, the device in oneshot state: fire when the stamp has
\* reached the deadline, and leave the deadline loaded.
OneshotTicks ==
  /\ behind' = 0
  /\ IF deadline.on /\ deadline.left = 0 THEN OneshotHandler
     ELSE UNCHANGED <<mode, deadline, timer>>

\* The same in any other state, a stopped device included: as many ticks as have elapsed, and
\* at most Hz of them.  The handler of a stopped device finds nothing to run.
ElapsedTicks ==
  LET n == behind \div Tick IN
  IF behind = Unset THEN behind' = 0 /\ UNCHANGED <<mode, deadline, timer>>
  ELSE /\ behind' = IF n > Hz THEN 0 ELSE behind % Tick
       /\ IF mode = "periodic" THEN PeriodicHandler(AtMost(n, Hz))
          ELSE UNCHANGED <<mode, deadline, timer>>

take_ticks == IF mode = "oneshot" THEN OneshotTicks ELSE ElapsedTicks

\* The kernel starts a timer; in oneshot mode only one that comes first reaches the device.
StartTimer(d) ==
  /\ pc = "kernel"
  /\ IF mode = "periodic"
     THEN ~timer.on /\ UNCHANGED <<mode, deadline>>
     ELSE (timer.on => d < timer.left) /\ SetNext(d) /\ mode' = "oneshot"
  /\ timer' = Set(d)
  /\ UNCHANGED <<pc, calls, event, age, behind, host>>

\* The tick core finds the device fit for oneshot mode and sets its first event.
SwitchToOneshot(d) ==
  /\ pc = "kernel" /\ mode = "periodic" /\ ~timer.on
  /\ mode' = "oneshot" /\ timer' = Set(d) /\ SetNext(d)
  /\ UNCHANGED <<pc, calls, event, age, behind, host>>

-----------------------------------------------------------------------------
(* The guest between crossings. *)

\* Every return to user code, and only after the processor's idle task has run once.
exit_to_user_mode_prepare ==
  /\ pc = "kernel" /\ idled
  /\ take_ticks
  /\ pc' = "user"
  /\ UNCHANGED <<calls, event, age, host>>

Syscall ==
  /\ pc = "user" /\ pc' = "kernel"
  /\ UNCHANGED <<calls, event, age, clock, host>>

\* co_colinux_switch, first half: the operation is stored.
StoreOperation(o) ==
  /\ pc = "kernel"
  /\ operation' = o /\ want' = o /\ pc' = "asked"
  /\ UNCHANGED <<resume, event, age, clock, host>>

\* Second half: the call, and the loop's reading of what was asked.  With nothing to read the
\* run ends in "unhandled operation".
Voluntary ==
  /\ pc = "asked"
  /\ operation' = "none" /\ want' = "none"
  /\ resume' = IF want = "idle" THEN "back" ELSE "kernel"
  /\ pc' = CASE operation = "idle" -> "idle"
             [] operation = "other" -> "top"
             [] OTHER -> "unhandled"
  /\ UNCHANGED <<event, age, clock, host>>

\* co_cpu_idle, back from its crossing.
co_cpu_idle ==
  /\ pc = "back"
  /\ take_ticks
  /\ pc' = "kernel"
  /\ UNCHANGED <<calls, event, age, host>>

\* The injected entry; its way out may reschedule, and leads through the exit to user code.
sysvec_co_timer ==
  /\ pc = "tick"
  /\ take_ticks
  /\ pc' = "kernel"
  /\ UNCHANGED <<calls, event, age, host>>

-----------------------------------------------------------------------------
(* The host's loop. *)

\* A slip, for the check of OperationKept: the loop clears the operation at its top.
EnterClears ==
  /\ pc = "top"
  /\ age' = 0
  /\ behind' = IF behind = Unset THEN Unset ELSE AtMost(behind + age, Clamped)
  /\ deadline' = [deadline EXCEPT !.left = AtLeast0(@ - age)]
  /\ pc' = resume /\ resume' = "none" /\ operation' = "none"
  /\ UNCHANGED <<want, event, mode, timer, host>>

\* The clock is stamped and the guest entered where it was.
Enter ==
  /\ pc = "top"
  /\ age' = 0
  /\ behind' = IF behind = Unset THEN Unset ELSE AtMost(behind + age, Clamped)
  /\ deadline' = [deadline EXCEPT !.left = AtLeast0(@ - age)]
  /\ pc' = resume /\ resume' = "none"
  /\ UNCHANGED <<operation, want, event, mode, timer, host>>

\* A host interrupt, the preemption timer's among them, ends up in the host's stub.
InGuest == pc \in {"user", "kernel", "asked", "back", "tick"}

Interrupt ==
  /\ InGuest
  /\ resume' = pc /\ pc' = "forward"
  /\ UNCHANGED <<operation, want, event, age, clock, host>>

\* The interrupt has been replayed; the guest goes on in its timer entry when it has idled
\* once, a period has passed and the frame is user code's.
Injects == idled /\ tick_last = Preempt /\ resume = "user"

co_arch_inject_tick ==
  /\ pc = "forward" /\ pc' = "top"
  /\ resume' = IF Injects THEN "tick" ELSE resume
  /\ tick_last' = IF Injects \/ (idled /\ tick_last = Unset) THEN 0 ELSE tick_last
  /\ UNCHANGED <<operation, want, event, age, clock, tick_due, idled, wake>>

\* The bound of an idle wait.
ToDeadline == AtLeast0(deadline.left - age)
RoundUp(n) == Tick * ((n + Tick - 1) \div Tick)

TickDue == IF tick_due = 0 THEN Tick ELSE tick_due

\* A slip, for the check of NoOversleep: a deadline that has passed leaves the tick's bound.
BoundByTickIfDue(readable, hires) ==
  IF ~readable THEN [for |-> "blind", left |-> RoundUp(TickDue)]
  ELSE IF ~deadline.on \/ ToDeadline = 0 THEN [for |-> "tick", left |-> RoundUp(TickDue)]
  ELSE IF ToDeadline >= Near THEN [for |-> "far", left |-> RoundUp(ToDeadline)]
  ELSE [for |-> "near", left |-> IF hires THEN ToDeadline ELSE Tick]

\* The tick's bound when the guest names no event or its word cannot be read through its own
\* tables; else the deadline, a far one in whole milliseconds, and a near one in one where
\* the host has no high resolution timer.
Bound(readable, hires) ==
  IF ~readable THEN [for |-> "blind", left |-> RoundUp(TickDue)]
  ELSE IF ~deadline.on THEN [for |-> "tick", left |-> RoundUp(TickDue)]
  ELSE IF ToDeadline = 0 THEN NoWait
  ELSE IF ToDeadline >= Near THEN [for |-> "far", left |-> RoundUp(ToDeadline)]
  ELSE [for |-> "near", left |-> IF hires THEN ToDeadline ELSE Tick]

\* CO_OPERATION_IDLE: wait, unless the deadline has passed.
Idle(readable, hires) ==
  /\ pc = "idle"
  /\ idled' = TRUE /\ tick_due' = TickDue
  /\ wake' = Bound(readable, hires)
  /\ pc' = IF wake' = NoWait THEN "top" ELSE "waiting"
  /\ UNCHANGED <<calls, event, age, clock, tick_last>>

\* After the precise wait, and only after it, what little is left is spun away.
AfterWait == IF wake.for = "near" /\ ToDeadline > 0 /\ ToDeadline < Spin THEN "spin" ELSE "top"

WaitRung ==
  /\ pc = "waiting" /\ event
  /\ event' = FALSE /\ pc' = AfterWait /\ wake' = NoWait
  /\ UNCHANGED <<calls, age, clock, tick_due, tick_last, idled>>

WaitTimeout ==
  /\ pc = "waiting" /\ wake.left = 0
  /\ pc' = AfterWait /\ wake' = NoWait
  /\ UNCHANGED <<calls, event, age, clock, tick_due, tick_last, idled>>

SpinEnds ==
  /\ pc = "spin" /\ ToDeadline = 0 /\ pc' = "top"
  /\ UNCHANGED <<calls, event, age, clock, host>>

\* Anybody rings this processor's doorbell.
Doorbell ==
  /\ event' = TRUE
  /\ UNCHANGED <<pc, calls, age, clock, host>>

-----------------------------------------------------------------------------

LeaveKernel == exit_to_user_mode_prepare \/ StoreOperation("idle")

GuestGoesOn == Voluntary \/ co_cpu_idle \/ sysvec_co_timer

Guest ==
  \/ \E d \in Deltas : StartTimer(d) \/ SwitchToOneshot(d)
  \/ LeaveKernel \/ StoreOperation("other")
  \/ Syscall \/ GuestGoesOn

Loop ==
  \/ Enter \/ co_arch_inject_tick
  \/ \E readable, hires \in BOOLEAN : Idle(readable, hires)
  \/ WaitRung \/ WaitTimeout \/ SpinEnds

Next == Guest \/ Loop \/ Interrupt \/ Doorbell \/ Pass

Spec == Init /\ [][Next]_vars

-----------------------------------------------------------------------------

TypeOK ==
  /\ pc \in {"top", "forward", "idle", "waiting", "spin", "user", "kernel", "asked", "back", "tick"}
  /\ resume \in {"none", "user", "kernel", "asked", "back", "tick"}
  /\ operation \in {"none", "idle", "other"} /\ want \in {"none", "idle", "other"}
  /\ event \in BOOLEAN /\ idled \in BOOLEAN
  /\ age \in 0..Clamped /\ behind \in {Unset} \cup 0..Clamped
  /\ mode \in {"periodic", "oneshot", "stopped"}
  /\ deadline \in [on : BOOLEAN, left : 0..Clamped]
  /\ timer \in [on : BOOLEAN, left : 0..Clamped]
  /\ tick_due \in 0..Tick /\ tick_last \in {Unset} \cup 0..Preempt
  /\ wake \in [for : {"nothing", "blind", "tick", "far", "near"}, left : 0..(Clamped + Tick)]

\* The operation the guest stored is the one the loop reads, however many interrupts cross
\* between the store and the call, and an interrupted call is resumed with its operation:
\* why the top of the crossing loop does not clear it.
OperationKept ==
  /\ pc = "asked" \/ (pc \in {"forward", "top"} /\ resume = "asked") =>
       operation = want /\ want # "none"
  /\ pc = "idle" => resume = "back"

\* A sleeping processor does not oversleep the kernel's timer by a tick: whatever the age of
\* the stamp the deadline was set against, however often the core left the device alone and
\* however many doorbells cut the wait short.  With the word unread it wakes within a tick.
NoOversleep ==
  pc = "waiting" =>
    /\ wake.for \in {"blind", "tick"} => wake.left <= Tick
    /\ timer.on /\ mode # "periodic" /\ wake.for # "blind" => wake.left < timer.left + Tick

\* A timer that is to be run: past its expiry, or in periodic mode waiting for its ticks.
Due == timer.on /\ (mode = "periodic" \/ timer.left = 0)

\* A timer is run once its time has come: in oneshot mode after its expiry, in periodic mode
\* after its ticks; also when only user code runs, and when the core skips setting the device.
TimersExpire == Due ~> ~Due
=============================================================================
