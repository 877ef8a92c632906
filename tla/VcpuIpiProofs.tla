---------------------------- MODULE VcpuIpiProofs ----------------------------
(***************************************************************************)
(* What VcpuIpi promises for any number of processors.  TLC checks the     *)
(* same formulas on two; the re-scan and the word shared by all have their *)
(* interesting interleavings from three on.                                *)
(***************************************************************************)
EXTENDS VcpuIpi, TLAPS

\* Where a processor is inside a drain, and where that drain goes back to.
Draining == {"drain", "call", "run", "work", "rescan", "found"}

\* A drain knows its way back, and a re-scan begins at the first set.
DrainsReturn ==
    \A v \in Vcpus :
        /\ pc[v] \in Draining => ret[v] # "none"
        /\ pc[v] \notin {"rescan", "found"} => scan[v] = 0

Shape == TypeOK /\ DrainsReturn

\* A posted call is still to be rung for, has been rung for, or is about to be
\* found by a drain that has yet to see its set empty.
CallIsRung ==
    \A v \in Vcpus :
        "call" \in pending[v] =>
            \/ event[v]
            \/ \E u \in Vcpus : pc[u] \in {"any", "kick"} /\ callee[u] = v
            \/ pc[v] \in {"back", "drain", "call", "run", "work"}
            \/ pc[v] \in {"raise", "raised"} /\ ret[v] # "none"

IInv == Shape /\ NeverFalselyZero /\ CallIsRung /\ ListsHaveVectors

USE NAssumption

\* A processor's number is a number up to N.
LEMMA VcpuNumber == ASSUME NEW v \in Vcpus PROVE v \in Nat /\ v \in 0..N /\ v < N
  BY DEF Vcpus

\* The initial state has its shape.
LEMMA InitShape == Init => Shape
  BY DEF Init, Shape, TypeOK, DrainsReturn, Vcpus, Free, Vectors, Sites, Draining

\* A drain's steps keep the shape of the state.
LEMMA DrainsShape ==
  ASSUME Shape, NEW v \in Vcpus, Drains(v)
  PROVE  Shape'
<1> USE DEF Shape, TypeOK, DrainsReturn, Sites, Draining, At, Goto, Leave, Vectors
<1>1. CASE DrainTake(v)  BY <1>1 DEF DrainTake, First
<1>2. CASE HandleCall(v)  BY <1>2 DEF HandleCall
<1>3. CASE RunCalls(v)
  <2>1. CASE Goto(v, "drain") /\ UNCHANGED works  BY <1>3, <2>1 DEF RunCalls
  <2>2. CASE works' = [works EXCEPT ![v] = TRUE] /\ Goto(v, "raise")
    BY <1>3, <2>2 DEF RunCalls
  <2> QED  BY <1>3, <2>1, <2>2 DEF RunCalls
<1>4. CASE HandleWork(v)  BY <1>4 DEF HandleWork
<1>5. CASE DrainEmpty(v)  BY <1>5 DEF DrainEmpty
<1>6. CASE Rescan(v)
  <2>1. scan[v] + 1 \in 0..N  BY <1>6, SMT DEF Rescan
  <2>2. CASE Goto(v, "found") /\ UNCHANGED scan  BY <1>6, <2>2 DEF Rescan
  <2>3. CASE scan' = [scan EXCEPT ![v] = @ + 1] /\ UNCHANGED pc
    BY <1>6, <2>1, <2>3 DEF Rescan
  <2> QED  BY <1>6, <2>2, <2>3 DEF Rescan
<1>7. CASE RescanEnds(v)  BY <1>7 DEF RescanEnds
<1>8. CASE RescanFound(v)  BY <1>8 DEF RescanFound
<1> QED  BY <1>1, <1>2, <1>3, <1>4, <1>5, <1>6, <1>7, <1>8 DEF Drains

\* Posting a vector keeps the shape of the state.
LEMMA PostsShape ==
  ASSUME Shape, NEW v \in Vcpus, Posts(v)
  PROVE  Shape'
<1> USE DEF Shape, TypeOK, DrainsReturn, Sites, Draining, At, Goto, Vectors
<1>1. CASE SetBit(v)  BY <1>1 DEF SetBit
<1>2. CASE SetAny(v)  BY <1>2 DEF SetAny
<1>3. CASE Kick(v)  BY <1>3 DEF Kick
<1>4. CASE RaiseBit(v)  BY <1>4 DEF RaiseBit
<1>5. CASE RaiseAny(v)  BY <1>5 DEF RaiseAny
<1> QED  BY <1>1, <1>2, <1>3, <1>4, <1>5 DEF Posts

\* The loops that spin keep the shape of the state.
LEMMA WaitsShape ==
  ASSUME Shape, NEW v \in Vcpus, Waits(v)
  PROVE  Shape'
<1> USE DEF Shape, TypeOK, DrainsReturn, Sites, Draining, At, Goto, Enter
<1>1. CASE CsdPoll(v)  BY <1>1 DEF CsdPoll
<1>2. CASE CsdDone(v)  BY <1>2 DEF CsdDone
<1>3. CASE SpinTakes(v)  BY <1>3, VcpuNumber DEF SpinTakes
<1>4. CASE SpinSees(v)  BY <1>4 DEF SpinSees
<1>5. CASE Poll(v)  BY <1>5 DEF Poll
<1> QED  BY <1>1, <1>2, <1>3, <1>4, <1>5 DEF Waits

\* The boundaries keep the shape of the state.
LEMMA BoundaryShape ==
  ASSUME Shape, NEW v \in Vcpus, Boundary(v) \/ Leaves(v)
  PROVE  Shape'
<1> USE DEF Shape, TypeOK, DrainsReturn, Sites, Draining, At, Goto, Enter
<1>1. CASE Return(v)  BY <1>1 DEF Return
<1>2. CASE WaitRung(v)  BY <1>2 DEF WaitRung
<1>3. CASE WaitTimeout(v)  BY <1>3 DEF WaitTimeout
<1>4. CASE IdleReturns(v)  BY <1>4 DEF IdleReturns
<1>5. CASE HostInterrupt(v)  BY <1>5 DEF HostInterrupt
<1>6. CASE ExitToUser(v)  BY <1>6 DEF ExitToUser
<1>7. CASE co_cpu_idle(v)  BY <1>7 DEF co_cpu_idle
<1> QED  BY <1>1, <1>2, <1>3, <1>4, <1>5, <1>6, <1>7 DEF Boundary, Leaves

\* Kernel code keeps the shape of the state.
LEMMA WorksShape ==
  ASSUME Shape, NEW v \in Vcpus, Works(v)
  PROVE  Shape'
<1> USE DEF Shape, TypeOK, DrainsReturn, Sites, Draining, At, Goto
<1>1. CASE \E t \in Vcpus : Call(v, t)  BY <1>1 DEF Call
<1>2. CASE QueueWork(v)  BY <1>2 DEF QueueWork
<1>3. CASE TakeLock(v)  BY <1>3, VcpuNumber DEF TakeLock
<1>4. CASE Contend(v)  BY <1>4 DEF Contend
<1>5. CASE Unlock(v)  BY <1>5 DEF Unlock, Free
<1>6. CASE Syscall(v)  BY <1>6 DEF Syscall
<1> QED  BY <1>1, <1>2, <1>3, <1>4, <1>5, <1>6 DEF Works

\* A drain's steps keep the machine-wide word from being wrongly zero.
LEMMA DrainsNeverFalselyZero ==
  ASSUME Shape, NeverFalselyZero, NEW v \in Vcpus, Drains(v)
  PROVE  NeverFalselyZero'
<1>1. CASE DrainTake(v)
  BY <1>1 DEF DrainTake, Shape, TypeOK, At, Goto, Leave, First, NeverFalselyZero, Announces
<1>2. CASE HandleCall(v)
  BY <1>2 DEF HandleCall, Shape, TypeOK, At, Goto, Leave, First, NeverFalselyZero, Announces
<1>3. CASE RunCalls(v)
  BY <1>3 DEF RunCalls, Shape, TypeOK, At, Goto, Leave, First, NeverFalselyZero, Announces
<1>4. CASE HandleWork(v)
  BY <1>4 DEF HandleWork, Shape, TypeOK, At, Goto, Leave, First, NeverFalselyZero, Announces
<1>5. CASE DrainEmpty(v)
  <2> SUFFICES ASSUME NEW w \in Vcpus, pending'[w] # {}
               PROVE  \E u \in Vcpus : Announces(u, w)'
    BY DEF NeverFalselyZero
  <2>1. pc'[v] = "rescan" /\ scan'[v] = 0
    BY <1>5 DEF DrainEmpty, Goto, At, Shape, TypeOK, DrainsReturn
  <2>2. scan'[v] <= w  BY <2>1, VcpuNumber
  <2> QED  BY <2>1, <2>2 DEF Announces, At
<1>6. CASE Rescan(v)
  <2> SUFFICES ASSUME NEW w \in Vcpus, pending'[w] # {}, any' # 1
               PROVE  \E u \in Vcpus : Announces(u, w)'
    BY DEF NeverFalselyZero
  <2>1. PICK u \in Vcpus : Announces(u, w)
    BY <1>6 DEF Rescan, NeverFalselyZero
  <2>2. CASE u # v
    BY <1>6, <2>1, <2>2 DEF Rescan, Goto, Announces, At, Shape, TypeOK
  <2>3. CASE u = v
    <3>1. scan[v] \in Nat /\ scan[v] <= w /\ w \in Nat
      BY <1>6, <2>1, <2>3, VcpuNumber DEF Rescan, Announces, At, Shape, TypeOK
    <3>2. CASE pc'[v] = "found"  BY <3>2 DEF Announces, At
    <3>3. CASE pending[scan[v]] = {}
      <4>1. scan[v] # w  BY <1>6, <3>3 DEF Rescan
      <4>2. scan'[v] = scan[v] + 1 /\ pc'[v] = "rescan"
        BY <1>6, <3>3 DEF Rescan, At, Shape, TypeOK
      <4>3. scan'[v] <= w  BY <3>1, <4>1, <4>2
      <4> QED  BY <4>2, <4>3 DEF Announces, At
    <3> QED  BY <1>6, <3>2, <3>3 DEF Rescan, Goto, Shape, TypeOK
  <2> QED  BY <2>2, <2>3
<1>7. CASE RescanEnds(v)
  <2> SUFFICES ASSUME NEW w \in Vcpus, pending'[w] # {}, any' # 1
               PROVE  \E u \in Vcpus : Announces(u, w)'
    BY DEF NeverFalselyZero
  <2>1. PICK u \in Vcpus : Announces(u, w)
    BY <1>7 DEF RescanEnds, NeverFalselyZero
  <2>2. ~(scan[v] <= w)  BY <1>7, VcpuNumber DEF RescanEnds
  <2>3. u # v  BY <1>7, <2>1, <2>2 DEF RescanEnds, Announces, At
  <2> QED  BY <1>7, <2>1, <2>3 DEF RescanEnds, Leave, Goto, Announces, At, Shape, TypeOK
<1>8. CASE RescanFound(v)
  BY <1>8 DEF RescanFound, Shape, TypeOK, At, Goto, Leave, First, NeverFalselyZero, Announces
<1> QED  BY <1>1, <1>2, <1>3, <1>4, <1>5, <1>6, <1>7, <1>8 DEF Drains

\* Posting a vector keeps the machine-wide word from being wrongly zero.
LEMMA PostsNeverFalselyZero ==
  ASSUME Shape, NeverFalselyZero, NEW v \in Vcpus, Posts(v)
  PROVE  NeverFalselyZero'
<1> USE DEF Shape, TypeOK, DrainsReturn, At, Goto, Draining, Vectors, NeverFalselyZero, Announces
<1>1. CASE SetBit(v)  BY <1>1 DEF SetBit
<1>2. CASE SetAny(v)  BY <1>2 DEF SetAny
<1>3. CASE Kick(v)  BY <1>3 DEF Kick
<1>4. CASE RaiseBit(v)  BY <1>4 DEF RaiseBit
<1>5. CASE RaiseAny(v)  BY <1>5 DEF RaiseAny
<1> QED  BY <1>1, <1>2, <1>3, <1>4, <1>5 DEF Posts

\* The loops that spin keep the machine-wide word from being wrongly zero.
LEMMA WaitsNeverFalselyZero ==
  ASSUME Shape, NeverFalselyZero, NEW v \in Vcpus, Waits(v)
  PROVE  NeverFalselyZero'
<1> USE DEF Shape, TypeOK, DrainsReturn, At, Goto, Enter, NeverFalselyZero, Announces
<1>1. CASE CsdPoll(v)  BY <1>1 DEF CsdPoll
<1>2. CASE CsdDone(v)  BY <1>2 DEF CsdDone
<1>3. CASE SpinTakes(v)  BY <1>3 DEF SpinTakes
<1>4. CASE SpinSees(v)  BY <1>4 DEF SpinSees
<1>5. CASE Poll(v)  BY <1>5 DEF Poll
<1> QED  BY <1>1, <1>2, <1>3, <1>4, <1>5 DEF Waits

\* The boundaries keep the machine-wide word from being wrongly zero.
LEMMA BoundaryNeverFalselyZero ==
  ASSUME Shape, NeverFalselyZero, NEW v \in Vcpus, Boundary(v)
  PROVE  NeverFalselyZero'
<1> USE DEF Shape, TypeOK, DrainsReturn, At, Goto, Enter, NeverFalselyZero, Announces
<1>1. CASE Return(v)  BY <1>1 DEF Return
<1>2. CASE WaitRung(v)  BY <1>2 DEF WaitRung
<1>3. CASE WaitTimeout(v)  BY <1>3 DEF WaitTimeout
<1>4. CASE IdleReturns(v)  BY <1>4 DEF IdleReturns
<1>5. CASE HostInterrupt(v)  BY <1>5 DEF HostInterrupt
<1> QED  BY <1>1, <1>2, <1>3, <1>4, <1>5 DEF Boundary

\* Going to a boundary keeps the machine-wide word from being wrongly zero.
LEMMA LeavesNeverFalselyZero ==
  ASSUME Shape, NeverFalselyZero, NEW v \in Vcpus, Leaves(v)
  PROVE  NeverFalselyZero'
<1> USE DEF Shape, TypeOK, DrainsReturn, At, Goto, Enter, NeverFalselyZero, Announces
<1>1. CASE ExitToUser(v)  BY <1>1 DEF ExitToUser
<1>2. CASE co_cpu_idle(v)  BY <1>2 DEF co_cpu_idle
<1> QED  BY <1>1, <1>2 DEF Leaves

\* Kernel code keeps the machine-wide word from being wrongly zero.
LEMMA WorksNeverFalselyZero ==
  ASSUME Shape, NeverFalselyZero, NEW v \in Vcpus, Works(v)
  PROVE  NeverFalselyZero'
<1> USE DEF Shape, TypeOK, DrainsReturn, At, Goto, NeverFalselyZero, Announces
<1>1. CASE \E t \in Vcpus : Call(v, t)  BY <1>1 DEF Call
<1>2. CASE QueueWork(v)  BY <1>2 DEF QueueWork
<1>3. CASE TakeLock(v)  BY <1>3 DEF TakeLock
<1>4. CASE Contend(v)  BY <1>4 DEF Contend
<1>5. CASE Unlock(v)  BY <1>5 DEF Unlock
<1>6. CASE Syscall(v)  BY <1>6 DEF Syscall
<1> QED  BY <1>1, <1>2, <1>3, <1>4, <1>5, <1>6 DEF Works

\* A drain's steps keep every posted call rung for.
LEMMA DrainsCallIsRung ==
  ASSUME Shape, CallIsRung, NEW v \in Vcpus, Drains(v)
  PROVE  CallIsRung'
<1> USE DEF Shape, TypeOK, DrainsReturn, At, Goto, Draining, Leave, First, Vectors, CallIsRung
<1>1. CASE DrainTake(v)  BY <1>1 DEF DrainTake
<1>2. CASE HandleCall(v)  BY <1>2 DEF HandleCall
<1>3. CASE RunCalls(v)  BY <1>3 DEF RunCalls
<1>4. CASE HandleWork(v)  BY <1>4 DEF HandleWork
<1>5. CASE DrainEmpty(v)  BY <1>5 DEF DrainEmpty
<1>6. CASE Rescan(v)  BY <1>6 DEF Rescan
<1>7. CASE RescanEnds(v)  BY <1>7 DEF RescanEnds
<1>8. CASE RescanFound(v)  BY <1>8 DEF RescanFound
<1> QED  BY <1>1, <1>2, <1>3, <1>4, <1>5, <1>6, <1>7, <1>8 DEF Drains

\* Posting a vector keeps every posted call rung for.
LEMMA PostsCallIsRung ==
  ASSUME Shape, CallIsRung, NEW v \in Vcpus, Posts(v)
  PROVE  CallIsRung'
<1> USE DEF Shape, TypeOK, DrainsReturn, At, Goto, Draining, Vectors, CallIsRung
<1>1. CASE SetBit(v)  BY <1>1 DEF SetBit
<1>2. CASE SetAny(v)  BY <1>2 DEF SetAny
<1>3. CASE Kick(v)  BY <1>3 DEF Kick
<1>4. CASE RaiseBit(v)  BY <1>4 DEF RaiseBit
<1>5. CASE RaiseAny(v)  BY <1>5 DEF RaiseAny
<1> QED  BY <1>1, <1>2, <1>3, <1>4, <1>5 DEF Posts

\* The loops that spin keep every posted call rung for.
LEMMA WaitsCallIsRung ==
  ASSUME Shape, CallIsRung, NEW v \in Vcpus, Waits(v)
  PROVE  CallIsRung'
<1> USE DEF Shape, TypeOK, DrainsReturn, At, Goto, Enter, CallIsRung
<1>1. CASE CsdPoll(v)  BY <1>1 DEF CsdPoll
<1>2. CASE CsdDone(v)  BY <1>2 DEF CsdDone
<1>3. CASE SpinTakes(v)  BY <1>3 DEF SpinTakes
<1>4. CASE SpinSees(v)  BY <1>4 DEF SpinSees
<1>5. CASE Poll(v)  BY <1>5 DEF Poll
<1> QED  BY <1>1, <1>2, <1>3, <1>4, <1>5 DEF Waits

\* The boundaries keep every posted call rung for.
LEMMA BoundaryCallIsRung ==
  ASSUME Shape, CallIsRung, NEW v \in Vcpus, Boundary(v)
  PROVE  CallIsRung'
<1> USE DEF Shape, TypeOK, DrainsReturn, At, Goto, Enter, CallIsRung
<1>1. CASE Return(v)  BY <1>1 DEF Return
<1>2. CASE WaitRung(v)  BY <1>2 DEF WaitRung
<1>3. CASE WaitTimeout(v)  BY <1>3 DEF WaitTimeout
<1>4. CASE IdleReturns(v)  BY <1>4 DEF IdleReturns
<1>5. CASE HostInterrupt(v)  BY <1>5 DEF HostInterrupt
<1> QED  BY <1>1, <1>2, <1>3, <1>4, <1>5 DEF Boundary

\* Going to a boundary keeps every posted call rung for.
LEMMA LeavesCallIsRung ==
  ASSUME Shape, CallIsRung, NEW v \in Vcpus, Leaves(v)
  PROVE  CallIsRung'
<1> USE DEF Shape, TypeOK, DrainsReturn, At, Goto, Enter, CallIsRung
<1>1. CASE ExitToUser(v)  BY <1>1 DEF ExitToUser
<1>2. CASE co_cpu_idle(v)  BY <1>2 DEF co_cpu_idle
<1> QED  BY <1>1, <1>2 DEF Leaves

\* Kernel code keeps every posted call rung for.
LEMMA WorksCallIsRung ==
  ASSUME Shape, CallIsRung, NEW v \in Vcpus, Works(v)
  PROVE  CallIsRung'
<1> USE DEF Shape, TypeOK, DrainsReturn, At, Goto, CallIsRung
<1>1. CASE \E t \in Vcpus : Call(v, t)  BY <1>1 DEF Call
<1>2. CASE QueueWork(v)  BY <1>2 DEF QueueWork
<1>3. CASE TakeLock(v)  BY <1>3 DEF TakeLock
<1>4. CASE Contend(v)  BY <1>4 DEF Contend
<1>5. CASE Unlock(v)  BY <1>5 DEF Unlock
<1>6. CASE Syscall(v)  BY <1>6 DEF Syscall
<1> QED  BY <1>1, <1>2, <1>3, <1>4, <1>5, <1>6 DEF Works

\* A drain's steps keep a vector for every list.
LEMMA DrainsListsHaveVectors ==
  ASSUME Shape, ListsHaveVectors, NEW v \in Vcpus, Drains(v)
  PROVE  ListsHaveVectors'
<1> USE DEF Shape, TypeOK, DrainsReturn, At, Goto, Draining, Leave, First, Vectors, ListsHaveVectors, Queue, Taken
<1>1. CASE DrainTake(v)  BY <1>1 DEF DrainTake
<1>2. CASE HandleCall(v)  BY <1>2 DEF HandleCall
<1>3. CASE RunCalls(v)  BY <1>3 DEF RunCalls
<1>4. CASE HandleWork(v)  BY <1>4 DEF HandleWork
<1>5. CASE DrainEmpty(v)  BY <1>5 DEF DrainEmpty
<1>6. CASE Rescan(v)  BY <1>6 DEF Rescan
<1>7. CASE RescanEnds(v)  BY <1>7 DEF RescanEnds
<1>8. CASE RescanFound(v)  BY <1>8 DEF RescanFound
<1> QED  BY <1>1, <1>2, <1>3, <1>4, <1>5, <1>6, <1>7, <1>8 DEF Drains

\* Posting a vector keeps a vector for every list.
LEMMA PostsListsHaveVectors ==
  ASSUME Shape, ListsHaveVectors, NEW v \in Vcpus, Posts(v)
  PROVE  ListsHaveVectors'
<1> USE DEF Shape, TypeOK, DrainsReturn, At, Goto, Draining, Vectors, ListsHaveVectors, Queue, Taken
<1>1. CASE SetBit(v)  BY <1>1 DEF SetBit
<1>2. CASE SetAny(v)  BY <1>2 DEF SetAny
<1>3. CASE Kick(v)  BY <1>3 DEF Kick
<1>4. CASE RaiseBit(v)  BY <1>4 DEF RaiseBit
<1>5. CASE RaiseAny(v)  BY <1>5 DEF RaiseAny
<1> QED  BY <1>1, <1>2, <1>3, <1>4, <1>5 DEF Posts

\* The loops that spin keep a vector for every list.
LEMMA WaitsListsHaveVectors ==
  ASSUME Shape, ListsHaveVectors, NEW v \in Vcpus, Waits(v)
  PROVE  ListsHaveVectors'
<1> USE DEF Shape, TypeOK, DrainsReturn, At, Goto, Enter, ListsHaveVectors, Queue, Taken
<1>1. CASE CsdPoll(v)  BY <1>1 DEF CsdPoll
<1>2. CASE CsdDone(v)  BY <1>2 DEF CsdDone
<1>3. CASE SpinTakes(v)  BY <1>3 DEF SpinTakes
<1>4. CASE SpinSees(v)  BY <1>4 DEF SpinSees
<1>5. CASE Poll(v)  BY <1>5 DEF Poll
<1> QED  BY <1>1, <1>2, <1>3, <1>4, <1>5 DEF Waits

\* The boundaries keep a vector for every list.
LEMMA BoundaryListsHaveVectors ==
  ASSUME Shape, ListsHaveVectors, NEW v \in Vcpus, Boundary(v)
  PROVE  ListsHaveVectors'
<1> USE DEF Shape, TypeOK, DrainsReturn, At, Goto, Enter, ListsHaveVectors, Queue, Taken
<1>1. CASE Return(v)  BY <1>1 DEF Return
<1>2. CASE WaitRung(v)  BY <1>2 DEF WaitRung
<1>3. CASE WaitTimeout(v)  BY <1>3 DEF WaitTimeout
<1>4. CASE IdleReturns(v)  BY <1>4 DEF IdleReturns
<1>5. CASE HostInterrupt(v)  BY <1>5 DEF HostInterrupt
<1> QED  BY <1>1, <1>2, <1>3, <1>4, <1>5 DEF Boundary

\* Going to a boundary keeps a vector for every list.
LEMMA LeavesListsHaveVectors ==
  ASSUME Shape, ListsHaveVectors, NEW v \in Vcpus, Leaves(v)
  PROVE  ListsHaveVectors'
<1> USE DEF Shape, TypeOK, DrainsReturn, At, Goto, Enter, ListsHaveVectors, Queue, Taken
<1>1. CASE ExitToUser(v)  BY <1>1 DEF ExitToUser
<1>2. CASE co_cpu_idle(v)  BY <1>2 DEF co_cpu_idle
<1> QED  BY <1>1, <1>2 DEF Leaves

\* Kernel code keeps a vector for every list.
LEMMA WorksListsHaveVectors ==
  ASSUME Shape, ListsHaveVectors, NEW v \in Vcpus, Works(v)
  PROVE  ListsHaveVectors'
<1> USE DEF Shape, TypeOK, DrainsReturn, At, Goto, ListsHaveVectors, Queue, Taken
<1>1. CASE \E t \in Vcpus : Call(v, t)  BY <1>1 DEF Call
<1>2. CASE QueueWork(v)  BY <1>2 DEF QueueWork
<1>3. CASE TakeLock(v)  BY <1>3 DEF TakeLock
<1>4. CASE Contend(v)  BY <1>4 DEF Contend
<1>5. CASE Unlock(v)  BY <1>5 DEF Unlock
<1>6. CASE Syscall(v)  BY <1>6 DEF Syscall
<1> QED  BY <1>1, <1>2, <1>3, <1>4, <1>5, <1>6 DEF Works

-----------------------------------------------------------------------------
\* A step that changes nothing keeps the invariant.
LEMMA StutterKeeps == IInv /\ UNCHANGED vars => IInv'
  BY DEF IInv, Shape, TypeOK, DrainsReturn, NeverFalselyZero, Announces, CallIsRung,
         ListsHaveVectors, Queue, At, vars

\* The invariant holds at first.
LEMMA InitKeeps == Init => IInv
<1> SUFFICES ASSUME Init PROVE IInv  OBVIOUS
<1>1. Shape  BY InitShape
<1>2. NeverFalselyZero /\ CallIsRung  BY DEF Init, NeverFalselyZero, CallIsRung
<1>3. ListsHaveVectors  BY DEF Init, ListsHaveVectors, Queue
<1> QED  BY <1>1, <1>2, <1>3 DEF IInv

\* Every step of every processor keeps the invariant.
LEMMA NextKeeps == IInv /\ Next => IInv'
<1> SUFFICES ASSUME IInv, NEW v \in Vcpus, Runs(v) \/ Leaves(v) \/ Works(v)
             PROVE  IInv'
  BY DEF Next
<1>1. CASE Drains(v)
  BY <1>1, DrainsShape, DrainsNeverFalselyZero, DrainsCallIsRung, DrainsListsHaveVectors DEF IInv
<1>2. CASE Posts(v)
  BY <1>2, PostsShape, PostsNeverFalselyZero, PostsCallIsRung, PostsListsHaveVectors DEF IInv
<1>3. CASE Waits(v)
  BY <1>3, WaitsShape, WaitsNeverFalselyZero, WaitsCallIsRung, WaitsListsHaveVectors DEF IInv
<1>4. CASE Boundary(v)
  BY <1>4, BoundaryShape, BoundaryNeverFalselyZero, BoundaryCallIsRung, BoundaryListsHaveVectors
     DEF IInv
<1>5. CASE Leaves(v)
  BY <1>5, BoundaryShape, LeavesNeverFalselyZero, LeavesCallIsRung, LeavesListsHaveVectors
     DEF IInv
<1>6. CASE Works(v)
  BY <1>6, WorksShape, WorksNeverFalselyZero, WorksCallIsRung, WorksListsHaveVectors DEF IInv
<1> QED  BY <1>1, <1>2, <1>3, <1>4, <1>5, <1>6 DEF Runs

\* The invariant of the whole.
THEOREM Invariance == Spec => []IInv
<1>1. Init => IInv  BY InitKeeps
<1>2. IInv /\ [Next]_vars => IInv'  BY NextKeeps, StutterKeeps
<1> QED  BY <1>1, <1>2, PTL DEF Spec

\* The word that spinning processors look at before they poll is never wrongly zero, however
\* many processors post, drain and re-scan at once (co_colinux_ipi_send, co_colinux_ipi_drain).
THEOREM WordIsNeverFalselyZero == Spec => []NeverFalselyZero
<1>1. IInv => NeverFalselyZero  BY DEF IInv
<1> QED  BY <1>1, Invariance, PTL

\* A processor never sleeps in the host's idle wait on a call whose caller has rung already:
\* the event is latched until a wait takes it (co_os_idle_wake, co_os_idle_wait).
THEOREM SleepersAreRung == Spec => []SleeperIsRung
<1>1. IInv => SleeperIsRung  BY DEF IInv, CallIsRung, SleeperIsRung, At
<1> QED  BY <1>1, Invariance, PTL

\* No call and no irq work is left on a list without its vector, although only the first entry
\* of a list posts it (the bit is cleared before the handler takes the list).
THEOREM ListsKeepVectors == Spec => []ListsHaveVectors
<1>1. IInv => ListsHaveVectors  BY DEF IInv
<1> QED  BY <1>1, Invariance, PTL

\* The two together: a vector is on its way wherever a processor looks for it.
THEOREM VectorsAreKept == Spec => []NoVectorLost
<1>1. IInv => NoVectorLost  BY DEF IInv, CallIsRung, SleeperIsRung, At, NoVectorLost
<1> QED  BY <1>1, Invariance, PTL

\* Type correctness.
THEOREM TypeCorrect == Spec => []TypeOK
<1>1. IInv => TypeOK  BY DEF IInv, Shape
<1> QED  BY <1>1, Invariance, PTL
=============================================================================
