------------------------------ MODULE VcpuIpi ------------------------------
(***************************************************************************)
(* How guest processors interrupt each other.  There is no interrupt       *)
(* controller: a vector is a bit in the target's pending set               *)
(* (co_colinux_ipi_pending), one machine-wide word says that some bit may  *)
(* be set (co_colinux_ipi_any), and a crossing asks the host to wake the   *)
(* target (KICK_VCPU).  The target takes its vectors at the boundaries the *)
(* guest knows to be safe: the return to user mode, the return from the    *)
(* host's idle wait, the timer entry the host injects over a user mode     *)
(* frame, and a poll in the loops that spin.                               *)
(*                                                                         *)
(* Two vectors stand for all: the cross processor call, whose sender spins *)
(* until it is answered, and the irq work a processor posts to itself.     *)
(* The kernel's own part of both (the lists the handlers take, that only   *)
(* the first entry of a list raises its vector) is external, and so is the *)
(* spin lock, taken with interrupts enabled, that gives the polling loops  *)
(* something to wait for.                                                  *)
(***************************************************************************)
EXTENDS Naturals, FiniteSets

CONSTANT N              \* guest processors that are up (CO_COLINUX_NR_VCPUS is the array size)

ASSUME NAssumption == N \in Nat \ {0}

VARIABLES
    pending,            \* co_colinux_ipi_pending: each processor's set of posted vectors
    any,                \* co_colinux_ipi_any
    pc,                 \* what each processor is doing
    ret,                \* where its drain returns to, "none" outside a drain
    scan,               \* the drain's re-scan: the next set it looks at
    csd,                \* the call it has out: "free", "queued", or "taken" by the handler
    callee,             \* the processor it called
    works,              \* its irq work list is not empty
    lock,               \* a spin lock's holder, N when it is free
    event               \* co_idle_wake_event: the host's doorbell, auto-reset

vars == <<pending, any, pc, ret, scan, csd, callee, works, lock, event>>

Vcpus == 0..N-1
Free == N
Vectors == {"work", "call"}

Sites == {"user", "kernel", "exit", "waiting", "back", "spin", "poll",
          "post", "any", "kick", "csd", "drain", "call", "run", "work",
          "raise", "raised", "rescan", "found"}

Init ==
    /\ pending = [v \in Vcpus |-> {}]
    /\ any = 0
    /\ pc = [v \in Vcpus |-> "kernel"]
    /\ ret = [v \in Vcpus |-> "none"]
    /\ scan = [v \in Vcpus |-> 0]
    /\ csd = [v \in Vcpus |-> "free"]
    /\ callee = [v \in Vcpus |-> v]
    /\ works = [v \in Vcpus |-> FALSE]
    /\ lock = Free
    /\ event = [v \in Vcpus |-> FALSE]

At(v, site) == pc[v] = site
Goto(v, site) == pc' = [pc EXCEPT ![v] = site]

\* The calls on t's list, and those its handler has taken off it.
Queue(t) == {u \in Vcpus : csd[u] = "queued" /\ callee[u] = t}
Taken(t) == {u \in Vcpus : csd[u] = "taken" /\ callee[u] = t}

---------------------------------------------------------------------------
(* The drain, from any of the places that call it.                        *)

Enter(v, back) ==
    /\ Goto(v, "drain")
    /\ ret' = [ret EXCEPT ![v] = back]

\* find_first_bit: the irq work vector is the lower number.
First(set) == IF "work" \in set THEN "work" ELSE "call"

\* The bit is cleared before its handler runs.
DrainTake(v) ==
    /\ At(v, "drain")
    /\ pending[v] # {}
    /\ pending' = [pending EXCEPT ![v] = @ \ {First(@)}]
    /\ Goto(v, First(pending[v]))
    /\ UNCHANGED <<any, ret, scan, csd, callee, works, lock, event>>

\* llist_del_all: the call handler empties the list, then runs what it took.
HandleCall(v) ==
    /\ At(v, "call")
    /\ csd' = [u \in Vcpus |-> IF u \in Queue(v) THEN "taken" ELSE csd[u]]
    /\ Goto(v, "run")
    /\ UNCHANGED <<pending, any, ret, scan, callee, works, lock, event>>

\* The functions run and each caller's csd is unlocked; a function may queue
\* irq work on the processor it runs on.
RunCalls(v) ==
    /\ At(v, "run")
    /\ csd' = [u \in Vcpus |-> IF u \in Taken(v) THEN "free" ELSE csd[u]]
    /\ \/ Goto(v, "drain") /\ UNCHANGED works
       \/ ~works[v] /\ works' = [works EXCEPT ![v] = TRUE] /\ Goto(v, "raise")
    /\ UNCHANGED <<pending, any, ret, scan, callee, lock, event>>

HandleWork(v) ==
    /\ At(v, "work")
    /\ works' = [works EXCEPT ![v] = FALSE]
    /\ Goto(v, "drain")
    /\ UNCHANGED <<pending, any, ret, scan, csd, callee, lock, event>>

Leave(v) ==
    /\ Goto(v, ret[v])
    /\ ret' = [ret EXCEPT ![v] = "none"]

\* A slip: the word is cleared blind.
DrainEmptyBlind(v) ==
    /\ At(v, "drain")
    /\ pending[v] = {}
    /\ any' = 0
    /\ Leave(v)
    /\ UNCHANGED <<pending, scan, csd, callee, works, lock, event>>

\* Nothing left here: the machine-wide word is cleared, then every set is
\* looked at again.
DrainEmpty(v) ==
    /\ At(v, "drain")
    /\ pending[v] = {}
    /\ any' = 0
    /\ Goto(v, "rescan")
    /\ UNCHANGED <<pending, ret, scan, csd, callee, works, lock, event>>

Rescan(v) ==
    /\ At(v, "rescan")
    /\ scan[v] < N
    /\ \/ /\ pending[scan[v]] # {}
          /\ Goto(v, "found")
          /\ UNCHANGED scan
       \/ /\ pending[scan[v]] = {}
          /\ scan' = [scan EXCEPT ![v] = @ + 1]
          /\ UNCHANGED pc
    /\ UNCHANGED <<pending, any, ret, csd, callee, works, lock, event>>

RescanEnds(v) ==
    /\ At(v, "rescan")
    /\ scan[v] = N
    /\ Leave(v)
    /\ scan' = [scan EXCEPT ![v] = 0]
    /\ UNCHANGED <<pending, any, csd, callee, works, lock, event>>

RescanFound(v) ==
    /\ At(v, "found")
    /\ any' = 1
    /\ Leave(v)
    /\ scan' = [scan EXCEPT ![v] = 0]
    /\ UNCHANGED <<pending, csd, callee, works, lock, event>>

---------------------------------------------------------------------------
(* Posting a vector.                                                       *)

\* smp_call_function_single: the call joins the target's list, and only the
\* first one on it sends the vector.
Call(v, t) ==
    /\ At(v, "kernel")
    /\ v # t
    /\ csd' = [csd EXCEPT ![v] = "queued"]
    /\ callee' = [callee EXCEPT ![v] = t]
    /\ Goto(v, IF Queue(t) = {} THEN "post" ELSE "csd")
    /\ UNCHANGED <<pending, any, ret, scan, works, lock, event>>

SetBit(v) ==
    /\ At(v, "post")
    /\ pending' = [pending EXCEPT ![callee[v]] = @ \cup {"call"}]
    /\ Goto(v, "any")
    /\ UNCHANGED <<any, ret, scan, csd, callee, works, lock, event>>

SetAny(v) ==
    /\ At(v, "any")
    /\ any' = 1
    /\ Goto(v, "kick")
    /\ UNCHANGED <<pending, ret, scan, csd, callee, works, lock, event>>

\* A slip: only a processor that is asleep already is rung.
KickSleeper(v) ==
    /\ At(v, "kick")
    /\ event' = [event EXCEPT ![callee[v]] = At(callee[v], "waiting")]
    /\ Goto(v, "csd")
    /\ UNCHANGED <<pending, any, ret, scan, csd, callee, works, lock>>

\* The crossing: the host sets the target's event and queues the DPC that
\* interrupts it (HostInterrupt) if it is running.
Kick(v) ==
    /\ At(v, "kick")
    /\ event' = [event EXCEPT ![callee[v]] = TRUE]
    /\ Goto(v, "csd")
    /\ UNCHANGED <<pending, any, ret, scan, csd, callee, works, lock>>

\* irq_work_queue: a processor posts to itself, without a crossing.
QueueWork(v) ==
    /\ At(v, "kernel")
    /\ ~works[v]
    /\ works' = [works EXCEPT ![v] = TRUE]
    /\ Goto(v, "raise")
    /\ UNCHANGED <<pending, any, ret, scan, csd, callee, lock, event>>

RaiseBit(v) ==
    /\ At(v, "raise")
    /\ pending' = [pending EXCEPT ![v] = @ \cup {"work"}]
    /\ Goto(v, "raised")
    /\ UNCHANGED <<any, ret, scan, csd, callee, works, lock, event>>

\* A slip: the word is taken for a count.
RaiseCount(v) ==
    /\ At(v, "raised")
    /\ any' = any + 1
    /\ Goto(v, IF ret[v] = "none" THEN "kernel" ELSE "drain")
    /\ UNCHANGED <<pending, ret, scan, csd, callee, works, lock, event>>

\* A handler that posts to itself goes on draining.
RaiseAny(v) ==
    /\ At(v, "raised")
    /\ any' = 1
    /\ Goto(v, IF ret[v] = "none" THEN "kernel" ELSE "drain")
    /\ UNCHANGED <<pending, ret, scan, csd, callee, works, lock, event>>

---------------------------------------------------------------------------
(* The loops that spin.                                                    *)

\* csd_lock_wait polls its own set at every turn.
CsdPoll(v) ==
    /\ At(v, "csd")
    /\ csd[v] # "free"
    /\ pending[v] # {}
    /\ Enter(v, "csd")
    /\ UNCHANGED <<pending, any, scan, csd, callee, works, lock, event>>

CsdDone(v) ==
    /\ At(v, "csd")
    /\ csd[v] = "free"
    /\ Goto(v, "kernel")
    /\ callee' = [callee EXCEPT ![v] = v]
    /\ UNCHANGED <<pending, any, ret, scan, csd, works, lock, event>>

TakeLock(v) ==
    /\ At(v, "kernel")
    /\ lock = Free
    /\ lock' = v
    /\ UNCHANGED <<pending, any, pc, ret, scan, csd, callee, works, event>>

Contend(v) ==
    /\ At(v, "kernel")
    /\ lock \notin {Free, v}
    /\ Goto(v, "spin")
    /\ UNCHANGED <<pending, any, ret, scan, csd, callee, works, lock, event>>

SpinTakes(v) ==
    /\ At(v, "spin")
    /\ lock = Free
    /\ lock' = v
    /\ Goto(v, "kernel")
    /\ UNCHANGED <<pending, any, ret, scan, csd, callee, works, event>>

\* co_colinux_spin_poll and cpu_relax look at the machine-wide word first.
SpinSees(v) ==
    /\ At(v, "spin")
    /\ lock # Free
    /\ any = 1
    /\ Goto(v, "poll")
    /\ UNCHANGED <<pending, any, ret, scan, csd, callee, works, lock, event>>

\* A slip: a spinning processor takes nothing.
PollNothing(v) ==
    /\ At(v, "poll")
    /\ Goto(v, "spin")
    /\ UNCHANGED <<pending, any, ret, scan, csd, callee, works, lock, event>>

Poll(v) ==
    /\ At(v, "poll")
    /\ IF pending[v] # {} THEN Enter(v, "spin") ELSE Goto(v, "spin") /\ UNCHANGED ret
    /\ UNCHANGED <<pending, any, scan, csd, callee, works, lock, event>>

Unlock(v) ==
    /\ At(v, "kernel")
    /\ lock = v
    /\ lock' = Free
    /\ UNCHANGED <<pending, any, pc, ret, scan, csd, callee, works, event>>

---------------------------------------------------------------------------
(* The boundaries.                                                         *)

Syscall(v) ==
    /\ At(v, "user")
    /\ Goto(v, "kernel")
    /\ UNCHANGED <<pending, any, ret, scan, csd, callee, works, lock, event>>

\* __exit_to_user_mode_prepare drains, and the frame is restored after it.
ExitToUser(v) ==
    /\ At(v, "kernel")
    /\ lock # v
    /\ Enter(v, "exit")
    /\ UNCHANGED <<pending, any, scan, csd, callee, works, lock, event>>

Return(v) ==
    /\ At(v, "exit")
    /\ Goto(v, "user")
    /\ UNCHANGED <<pending, any, ret, scan, csd, callee, works, lock, event>>

\* co_cpu_idle crosses; the host waits on the processor's event.
co_cpu_idle(v) ==
    /\ At(v, "kernel")
    /\ lock # v
    /\ Goto(v, "waiting")
    /\ UNCHANGED <<pending, any, ret, scan, csd, callee, works, lock, event>>

WaitRung(v) ==
    /\ At(v, "waiting")
    /\ event[v]
    /\ event' = [event EXCEPT ![v] = FALSE]
    /\ Goto(v, "back")
    /\ UNCHANGED <<pending, any, ret, scan, csd, callee, works, lock>>

\* The deadline comes, or had already passed when the host was about to wait: the event is
\* left as it is.
WaitTimeout(v) ==
    /\ At(v, "waiting")
    /\ Goto(v, "back")
    /\ UNCHANGED <<pending, any, ret, scan, csd, callee, works, lock, event>>

IdleReturns(v) ==
    /\ At(v, "back")
    /\ IF pending[v] # {} THEN Enter(v, "kernel") ELSE Goto(v, "kernel") /\ UNCHANGED ret
    /\ UNCHANGED <<pending, any, scan, csd, callee, works, lock, event>>

\* An interrupt of the host stops the guest: the DPC of a kick, the preemption
\* timer's, or any other.  Over a user mode frame the timer entry is injected
\* when a vector is posted, or when the preemption period is over.
HostInterrupt(v) ==
    /\ At(v, "user")
    /\ Enter(v, "kernel")
    /\ UNCHANGED <<pending, any, scan, csd, callee, works, lock, event>>

---------------------------------------------------------------------------
Drains(v) ==
    \/ DrainTake(v) \/ HandleCall(v) \/ RunCalls(v) \/ HandleWork(v)
    \/ DrainEmpty(v) \/ Rescan(v) \/ RescanEnds(v) \/ RescanFound(v)

Posts(v) ==
    SetBit(v) \/ SetAny(v) \/ Kick(v) \/ RaiseBit(v) \/ RaiseAny(v)

Waits(v) == CsdPoll(v) \/ CsdDone(v) \/ SpinTakes(v) \/ SpinSees(v) \/ Poll(v)

Boundary(v) ==
    Return(v) \/ WaitRung(v) \/ WaitTimeout(v) \/ IdleReturns(v) \/ HostInterrupt(v)

\* What happens by itself on a processor, wherever it is.
Runs(v) == Drains(v) \/ Posts(v) \/ Waits(v) \/ Boundary(v)

\* Kernel code reaches a boundary, and everything else it may do.
Leaves(v) == ExitToUser(v) \/ co_cpu_idle(v)

Works(v) ==
    \/ \E t \in Vcpus : Call(v, t)
    \/ QueueWork(v) \/ TakeLock(v) \/ Contend(v) \/ Unlock(v) \/ Syscall(v)

Next == \E v \in Vcpus : Runs(v) \/ Leaves(v) \/ Works(v)

\* A processor keeps running and the host's timers interrupt it; kernel code
\* gives its lock back and reaches a boundary.
Fairness ==
    \A v \in Vcpus :
        WF_vars(Runs(v)) /\ SF_vars(Unlock(v)) /\ SF_vars(Leaves(v))

Spec == Init /\ [][Next]_vars /\ Fairness

---------------------------------------------------------------------------
TypeOK ==
    /\ pending \in [Vcpus -> SUBSET Vectors]
    /\ any \in {0, 1}
    /\ pc \in [Vcpus -> Sites]
    /\ ret \in [Vcpus -> {"none", "kernel", "exit", "spin", "csd"}]
    /\ scan \in [Vcpus -> 0..N]
    /\ csd \in [Vcpus -> {"free", "queued", "taken"}]
    /\ callee \in [Vcpus -> Vcpus]
    /\ works \in [Vcpus -> BOOLEAN]
    /\ lock \in 0..N
    /\ event \in [Vcpus -> BOOLEAN]

\* Some processor is about to write 1 to the machine-wide word on v's account.
Announces(u, v) ==
    \/ At(u, "any") /\ callee[u] = v
    \/ At(u, "raised") /\ u = v
    \/ At(u, "rescan") /\ scan[u] <= v
    \/ At(u, "found")

\* The word that spinning processors look at is never wrongly zero: while it
\* is zero and a bit is set, the sender or a re-scan is still on its way to
\* set it.
NeverFalselyZero ==
    \A v \in Vcpus : pending[v] # {} => any = 1 \/ \E u \in Vcpus : Announces(u, v)

\* A processor the host has put to sleep with a call posted to it has its
\* doorbell rung, or its caller has yet to ring it.
SleeperIsRung ==
    \A v \in Vcpus :
        At(v, "waiting") /\ "call" \in pending[v] =>
            event[v] \/ \E u \in Vcpus : pc[u] \in {"any", "kick"} /\ callee[u] = v

\* Every list with something on it has its vector posted, about to be posted,
\* or being handled.
ListsHaveVectors ==
    \A v \in Vcpus :
        /\ Queue(v) # {} =>
               \/ "call" \in pending[v]
               \/ At(v, "call")
               \/ \E u \in Vcpus : At(u, "post") /\ callee[u] = v
        /\ works[v] => "work" \in pending[v] \/ At(v, "work") \/ At(v, "raise")

\* No vector is lost between the lists, the pending sets, the machine-wide word and the
\* doorbell of a processor that sleeps.
NoVectorLost == NeverFalselyZero /\ ListsHaveVectors /\ SleeperIsRung

\* Every cross processor call is answered.
CallAnswered ==
    \A v \in Vcpus : csd[v] # "free" ~> csd[v] = "free"
=============================================================================
