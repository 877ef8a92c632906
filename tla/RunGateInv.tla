----------------------------- MODULE RunGateInv -----------------------------
(***************************************************************************)
(* The inductive invariant of RunGate, in named parts.  RunGateProofs      *)
(* proves that it is inductive and what follows from it; TLC checks it on  *)
(* the instances of MCRunGate.                                             *)
(***************************************************************************)
EXTENDS RunGate

(* Where an abort may return to. *)
BootReturns == {"free", "failWorkers", "ended", "join"}
PollReturns == {"out", "left", "release"}

InAbort(t) == pc[t] \in {"close", "raise"}

ReturnInv ==
  /\ \A b \in Boots : InAbort(b) => ret[b] \in BootReturns
  /\ \A p \in Pollers : InAbort(p) => ret[p] \in PollReturns
  /\ \A s \in Stoppers : InAbort(s) => ret[s] = "out"

(* A KBOOT by how far it has come: nothing published yet, ... *)
Early(b) == pc[b] \in {"clear", "recheck", "prepare", "lock", "claim", "bind",
                       "start", "publish"}
(* ... giving up before it published, ... *)
GivingUp(b) == pc[b] = "close" /\ ret[b] \in {"free", "failWorkers"}
(* ... its run published and not yet joined, ... *)
InRun(b) == pc[b] = "run" \/ At(b, {"ended", "join"})
(* ... or on its way out. *)
Late(b) == pc[b] \in {"lost", "stopWorkers", "releaseBoot", "freeBoot", "failWorkers",
                      "failRelease", "failFree", "free", "finish"}
           \/ (pc[b] = "raise" /\ ret[b] \in {"free", "failWorkers"})

(* The gate word says how far the KBOOT that owns it has come. *)
BootGate(b) ==
  /\ Early(b) \/ GivingUp(b) => co_run_state \in {"STARTING", "STOPPING"}
  /\ InRun(b) => co_run_state \in {"RUNNING", "STOPPING"}
  /\ Late(b) \/ pc[b] \in {"ended", "join", "raise"} => co_run_state = "STOPPING"
GateInv ==
  /\ co_run_state \in {"IDLE", "STARTING", "RUNNING", "STOPPING"} => co_run_gate.refs = 0
  /\ \A b \in Boots : BootGate(b)
  /\ co_run_state = "RUNNING" => \E b \in Boots : InRun(b)

OneBoot == \A b, c \in Boots : pc[b] # "out" /\ pc[c] # "out" => b = c

(* A TEST_SMP lane inside keeps the gate in a test state. *)
TestStates == {"TEST_STARTING", "TESTING", "TEST_STOPPING"}
TestInv == \A t \in Testers : HoldsTestRef(t) => co_run_state \in TestStates

(* The lane that opened the gate is alone until it has published TESTING.  *)
FirstLane == \A t \in Testers : pc[t] \in {"testClear", "testRecheck"} =>
  /\ co_run_state \in {"TEST_STARTING", "TEST_STOPPING"}
  /\ \A u \in Testers : HoldsTestRef(u) => u = t

(* The registry lock, and what its holder may rely on. *)
LockInv ==
  /\ \A t \in Threads : pc[t] \in {"claim", "bind"} => claim_lock = t
  /\ \A p \in Pollers : pc[p] \in {"claim", "bind"} => co_run_state = "RUNNING"

(* Slot ownership: a thread between its claim and its release. *)
Claiming(t) == pc[t] = "bind"
Releasing(t) == pc[t] \in {"freeSlot", "freeBoot", "failFree"}
Owning(t) == At(t, {"start", "publish", "run", "ended", "join", "stopWorkers",
                    "releaseBoot", "failWorkers", "failRelease", "admitted", "take",
                    "request", "build", "guest", "left", "release", "testLane"})
Holds(t) == Claiming(t) \/ Owning(t) \/ Releasing(t)
Holders == Boots \cup Pollers \cup Testers

SlotState(t) ==
  /\ Claiming(t) => active[SlotOf[t]] = "CLAIMING"
  /\ Owning(t) => active[SlotOf[t]] = "ACTIVE"
  /\ Releasing(t) => active[SlotOf[t]] = "STOPPING"
  /\ Holds(t) => host_cpu[SlotOf[t]] = cpu[t]
SlotUnique == \A t, u \in Holders : Holds(t) /\ Holds(u) /\ SlotOf[t] = SlotOf[u] => t = u
SlotOwned == \A v \in Slots : active[v] # "FREE" => \E t \in Holders : Holds(t) /\ SlotOf[t] = v
SlotInv == (\A t \in Holders : SlotState(t)) /\ SlotUnique /\ SlotOwned

(* A secondary that holds a slot belongs to a run whose teardown scan has  *)
(* not passed that slot. *)
ScanInv ==
  /\ \A b \in Boots : pc[b] # "join" => scan[b] = 1
  /\ \A p \in Pollers : Holds(p) =>
       \E b \in Boots : InRun(b) /\ (pc[b] = "join" => scan[b] <= SlotOf[p])

(* Passage pages exist only between prepare and free. *)
HasPassages(b) == At(b, {"lock", "claim", "bind", "start", "publish", "run", "ended",
                         "join", "stopWorkers", "releaseBoot", "freeBoot",
                         "failWorkers", "failRelease", "failFree", "free"})
PassageInv ==
  /\ PassageHeld
  /\ (\E v \in Lanes : ap_passage[v]) => \E b \in Boots : HasPassages(b)

WorkerInv ==
  \A b \in Boots : (pc[b] = "publish" \/ InRun(b)) /\ ctl_async => workers

(* Placement: a test lane sits on its own core, a secondary that is about  *)
(* to claim has seen no slot on its core. *)
CoreInv ==
  /\ \A t \in Testers : HoldsTestRef(t) => cpu[t] = CoreOfTest[SlotOf[t]]
  /\ \A p \in Pollers : pc[p] = "claim" =>
       \A v \in Slots : active[v] # "FREE" => host_cpu[v] # cpu[p]
  /\ CoresDistinct

Typed == TypeOK /\ ReturnInv

(* Together: what every step of the driver preserves. *)
IInv ==
  /\ Typed
  /\ GateInv /\ OneBoot /\ RefsExact /\ TestInv /\ FirstLane
  /\ LockInv /\ SlotInv /\ ScanInv
  /\ PassageInv /\ WorkerInv /\ CoreInv
=============================================================================
