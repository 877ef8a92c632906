--------------------------- MODULE CobdAsyncProofs ---------------------------
(***************************************************************************)
(* Proofs about CobdAsync, concluded: every record answers its request,    *)
(* the device implements BlockService, the pool of work nodes suffices,    *)
(* and in a guest with a single processor no drain is ever overtaken.      *)
(***************************************************************************)
EXTENDS CobdAsyncRing, FiniteSetTheorems

-----------------------------------------------------------------------------
Answering == {"complete", "announce"}

(* A step that adds no record, leaves the pending ones and the requests    *)
(* they answer alone, and brings no worker to a request answered already.  *)
LEMMA KeepRecords ==
  ASSUME RecordInv,
         \A i \in Indices : Pending(i)' => Pending(i) /\ comp'[SlotOf(i)] = comp[SlotOf(i)],
         \A i \in Indices : Pending(i)' => phase'[ReqAt(i)] = phase[ReqAt(i)],
         \A u \in Units : worker'[u] \in Answering =>
           \/ worker[u] \in Answering /\ node'[u] = node[u]
           \/ \A i \in Indices : Pending(i) => ReqAt(i) # node'[u],
         \A u \in Units : worker'[u] = "announce" =>
           comp'[SlotOf(comp_head')] = Record(node'[u], result'[u])
  PROVE  RecordInv'
  BY DEF RecordInv, ReqAt, Answering

LEMMA KeepEnds ==
  ASSUME EndInv,
         \A i \in Indices : Pending(i)' => Pending(i) /\ comp'[SlotOf(i)] = comp[SlotOf(i)],
         \A c \in CPUs : cpu'[c] = "end" =>
           cpu[c] = "end" /\ rec'[c] = rec[c] /\ phase'[rec[c].req] = phase[rec[c].req],
         \A u \in Units : worker'[u] \in Answering =>
           \/ worker[u] \in Answering /\ node'[u] = node[u]
           \/ \A c \in CPUs : cpu[c] = "end" => node'[u] # rec[c].req
  PROVE  EndInv'
  BY DEF EndInv, ReqAt, Answering

LEMMA KeepBoth ==
  ASSUME DeviceInv,
         UNCHANGED <<ring, reapers, phase>>,
         \A u \in Units : worker'[u] \in Answering =>
           worker[u] = worker'[u] /\ node'[u] = node[u] /\ result'[u] = result[u]
  PROVE  RecordInv' /\ EndInv'
<1>1. \A i \in Indices : Pending(i)' <=> Pending(i)
  BY Zenon, SamePending DEF ring, reapers
<1>2. RecordInv'
  BY Zenon, <1>1, KeepRecords DEF DeviceInv, AnswerInv, RecordInv, ring, Answering
<1>3. EndInv'
  BY Zenon, <1>1, KeepEnds DEF DeviceInv, AnswerInv, ring, reapers
<1> QED BY Zenon, <1>2, <1>3

(* The answers on their way, when the guest or the boot thread moves. *)
LEMMA AnswersOther ==
  ASSUME DeviceInv, Timely,
         \/ \E n \in WorkerCounts : co_cobd_async_start(n)
         \/ SyncBoot \/ GuestEnds \/ AskWorkers \/ JoinWorkers
         \/ \E r \in Requests : co_cobd_async_submit(r) \/ QueueInline(r) \/ InlineStep(r)
  PROVE  RecordInv' /\ EndInv'
<1>a. HostInv /\ TagsInv /\ RecordInv /\ EndInv /\ BootShape
  BY Zenon DEF DeviceInv, AnswerInv, HostInv
<1>b. /\ phase \in [Requests -> {"free", "inflight"} \cup Results]
      /\ \A c \in CPUs : rec[c].req \in Requests /\ rec[c].result \in Results
      /\ \A i \in Indices : ReqAt(i) \in Requests /\ comp[SlotOf(i)].result \in Results
  BY Zenon, <1>a, DeviceFacts
<1>1. ASSUME NEW n \in WorkerCounts, co_cobd_async_start(n) PROVE RecordInv' /\ EndInv'
  BY Zenon, <1>1, KeepBoth DEF co_cobd_async_start, Answering
<1>2. ASSUME SyncBoot \/ GuestEnds \/ AskWorkers \/ JoinWorkers PROVE RecordInv' /\ EndInv'
  BY Zenon, <1>2, KeepBoth DEF SyncBoot, GuestEnds, AskWorkers, JoinWorkers, workers
<1>3. ASSUME NEW r \in Requests, co_cobd_async_submit(r) PROVE RecordInv' /\ EndInv'
  <2>1. /\ UNCHANGED <<comp_head, comp_tail, comp, cpu, tail, rec, worker, node, result>>
        /\ phase' = [phase EXCEPT ![r] = "inflight"] /\ phase[r] = "free"
    BY Zenon, <1>3, <1>a DEF co_cobd_async_submit, Issuing, TagsInv, ring, reapers, workers
  <2>2. \A i \in Indices : Pending(i)' <=> Pending(i)
    BY Zenon, <2>1, SamePending
  <2>3. \A i \in Indices : Pending(i) => phase'[ReqAt(i)] = phase[ReqAt(i)]
    BY Zenon, <2>1, <1>a, <1>b DEF RecordInv, Results
  <2>4. \A c \in CPUs : cpu[c] = "end" => phase'[rec[c].req] = phase[rec[c].req]
    BY Zenon, <2>1, <1>a, <1>b DEF EndInv, Results
  <2>5. RecordInv'
    BY Zenon, <2>1, <2>2, <2>3, <1>a, KeepRecords DEF RecordInv
  <2>6. EndInv'
    BY Zenon, <2>1, <2>2, <2>4, <1>a, KeepEnds
  <2> QED BY Zenon, <2>5, <2>6
<1>4. ASSUME NEW r \in Requests, QueueInline(r) \/ InlineStep(r) PROVE RecordInv' /\ EndInv'
  <2>1. /\ UNCHANGED <<comp_head, comp_tail, comp, cpu, tail, rec, worker, node, result>>
        /\ ~async_cobd
    BY Zenon, <1>4, <1>a DEF QueueInline, InlineStep, InlineTransfer, InlineEnd, BootShape,
                      ring, reapers, workers
  <2>2. \A i \in Indices : Pending(i)' <=> Pending(i)
    BY Zenon, <2>1, SamePending
  <2>3. /\ \A i \in Indices : ~Pending(i)
        /\ \A c \in CPUs : cpu[c] # "end"
        /\ \A u \in Units : worker[u] = "none"
    BY Zenon, <2>1, NothingPending
  <2> QED BY Zenon, <2>1, <2>2, <2>3 DEF RecordInv, EndInv
<1> QED BY Zenon, <1>1, <1>2, <1>3, <1>4

(* The same, when a worker moves. *)
LEMMA AnswersWorker ==
  ASSUME DeviceInv, Timely, NEW u \in Units, WorkerStep(u)
  PROVE  RecordInv' /\ EndInv'
<1>a. HostInv /\ IndexInv /\ RecordInv /\ EndInv /\ QueueInv /\ WorkerShape /\ HostTypes
  BY Zenon DEF DeviceInv, AnswerInv, HostInv
<1>b. /\ phase \in [Requests -> {"free", "inflight"} \cup Results]
      /\ comp \in [0..(Slots - 1) -> Records]
      /\ comp_head \in Indices /\ comp_tail \in Indices
      /\ \A c \in CPUs : rec[c].req \in Requests /\ rec[c].result \in Results
      /\ \A i \in Indices : ReqAt(i) \in Requests /\ comp[SlotOf(i)].result \in Results
      /\ worker \in [Units -> {"none", "pop", "check", "sleep", "transfer", "complete",
                               "announce", "free", "gone"}]
      /\ \A v \in Units : worker[v] \in Holding => node[v] \in Requests
      /\ node \in [Units -> Requests \cup {None}] /\ result \in [Units -> Results \cup {None}]
  BY Zenon, <1>a, DeviceFacts DEF HostTypes
<1>1. ASSUME fifo_pop(u) \/ CheckStopping(u) \/ Wake(u) \/ node_free(u)
      PROVE  RecordInv' /\ EndInv'
  <2>1. /\ UNCHANGED <<ring, reapers, phase>>
        /\ worker'[u] \notin Answering
        /\ \A v \in Units : v # u => /\ worker'[v] = worker[v] /\ node'[v] = node[v]
                                     /\ result'[v] = result[v]
    BY Zenon, <1>1, <1>b DEF fifo_pop, CheckStopping, Wake, node_free, WorkerGo, Answering
  <2> QED BY Zenon, <2>1, KeepBoth
<1>2. ASSUME Transfer(u) PROVE RecordInv' /\ EndInv'
  <2>1. PICK res \in Results :
          /\ result' = [result EXCEPT ![u] = res] /\ phase' = [phase EXCEPT ![node[u]] = res]
          /\ worker[u] = "transfer" /\ worker' = [worker EXCEPT ![u] = "complete"]
          /\ UNCHANGED <<node, comp_head, comp_tail, comp, cpu, tail, rec>>
    BY Zenon, <1>2 DEF Transfer, At, WorkerGo, ring, reapers
  <2>2. node[u] \in Requests /\ phase[node[u]] = "inflight"
    BY Zenon, <2>1, <1>a, <1>b DEF QueueInv, Holding
  <2>3. \A i \in Indices : Pending(i)' <=> Pending(i)
    BY Zenon, <2>1, SamePending
  <2>4. \A i \in Indices : Pending(i) => ReqAt(i) # node[u]
    BY <2>2, <1>a, <1>b DEF RecordInv, Results
  <2>5. \A c \in CPUs : cpu[c] = "end" => rec[c].req # node[u]
    BY Zenon, <2>2, <1>a, <1>b DEF EndInv, Results
  <2>6. \A q \in Requests : q # node[u] => phase'[q] = phase[q]
    BY Zenon, <2>1, <1>b
  <2>7. \A v \in Units : v # u => worker'[v] = worker[v] /\ result'[v] = result[v]
    BY Zenon, <2>1, <1>b
  <2>8. worker'[u] = "complete"
    BY Zenon, <2>1, <1>b
  <2>9. \A v \in Units : worker'[v] = "announce" =>
          comp'[SlotOf(comp_head')] = Record(node'[v], result'[v])
    BY Zenon, <2>1, <2>7, <2>8, <1>a DEF RecordInv
  <2>10. RecordInv'
    BY Zenon, <2>1, <2>3, <2>4, <2>6, <2>7, <2>9, <1>a, <1>b, KeepRecords
  <2>11. EndInv'
    BY Zenon, <2>1, <2>3, <2>5, <2>6, <2>7, <1>a, <1>b, KeepEnds
  <2> QED BY Zenon, <2>10, <2>11
<1>3. ASSUME WriteRecord(u) PROVE RecordInv' /\ EndInv'
  <2>1. /\ UNCHANGED <<node, result, phase, comp_head, comp_tail, cpu, tail, rec>>
        /\ worker[u] = "complete" /\ worker'[u] \in {"announce", "free"}
        /\ \A v \in Units : v # u => worker'[v] = worker[v]
        /\ \A v \in Units : worker[v] # "announce"
    BY Zenon, <1>3, <1>a, <1>b, NoneAssumption DEF WriteRecord, At, WorkerGo, reapers, WorkerShape
  <2>2. \A i \in Indices : Pending(i)' <=> Pending(i)
    BY Zenon, <2>1, SamePending
  <2>3. \A i \in Indices : Pending(i) => comp'[SlotOf(i)] = comp[SlotOf(i)]
    BY Zenon, <1>3, <1>b, PendingInRing, SlotIs DEF WriteRecord
  <2>4. worker'[u] = "announce" => comp'[SlotOf(comp_head)] = Record(node[u], result[u])
    BY Zenon, <1>3, <1>b, SlotIs DEF WriteRecord, WorkerGo
  <2>5. RecordInv'
    BY Zenon, <2>1, <2>2, <2>3, <2>4, <1>a, KeepRecords DEF Answering
  <2>6. EndInv'
    BY Zenon, <2>1, <2>2, <2>3, <1>a, KeepEnds DEF Answering
  <2> QED BY Zenon, <2>5, <2>6
<1>4. ASSUME AnnounceRecord(u) PROVE RecordInv' /\ EndInv'
  <2>1. /\ UNCHANGED <<node, result, phase, comp_tail, comp, cpu, tail, rec>>
        /\ comp_head' = Inc(comp_head)
        /\ worker[u] = "announce" /\ worker'[u] = "free"
        /\ \A v \in Units : v # u => worker'[v] = worker[v] /\ worker[v] # "announce"
    BY Zenon, <1>4, <1>a, <1>b DEF AnnounceRecord, At, WorkerGo, reapers, WorkerShape
  <2>2. \A i \in Indices : Pending(i)' => Pending(i) \/ i = comp_head
    <3> SUFFICES ASSUME NEW i \in Indices, Pending(i)', ~Pending(i), i # comp_head PROVE FALSE
      BY Zenon
    <3>1. Live(i)'
      BY Zenon, <2>1 DEF Pending, Claimed
    <3>2. /\ Gap(comp_head, comp_tail) < Slots /\ Gap(comp_head, comp_tail) \in Nat
          /\ Slots \in Nat /\ 2 * Slots <= Width /\ Width \in Nat
      BY Zenon, <2>1, <1>a, <1>b, GapFacts, SizeFacts DEF IndexInv
    <3>3. Gap(comp_head', comp_tail) = Gap(comp_head, comp_tail) + 1
      BY <3>2, <2>1, <1>b, GapFacts
    <3>4. Gap(comp_head', i) \in 1..(Gap(comp_head, comp_tail) + 1)
      BY Zenon, <3>1, <3>3, <2>1 DEF Live
    <3>5. Gap(comp_head, i) \in Nat /\ Gap(comp_head, i) # 0 /\ Gap(comp_head, i) < Width
      BY Zenon, <1>b, GapFacts
    <3>6. CASE Gap(comp_head, i) < Width - 1
      <4>1. Gap(comp_head', i) = Gap(comp_head, i) + 1
        BY Zenon, <3>6, <2>1, <1>b, GapFacts
      <4>2. Live(i)
        BY <4>1, <3>4, <3>5, <3>2 DEF Live
      <4> QED BY Zenon, <4>2 DEF Pending
    <3>7. CASE Gap(comp_head, i) = Width - 1
      <4>1. Inc(comp_head) \in Indices
        BY Zenon, <1>b, IncIs
      <4>2. i = Inc(comp_head)
        BY Zenon, <3>7, <1>b, GapFull
      <4>3. Gap(comp_head', i) = 0
        BY Zenon, <4>1, <4>2, <2>1, GapFacts
      <4> QED BY <4>3, <3>4
    <3> QED BY <3>5, <3>6, <3>7, SizeFacts
  <2>3. comp[SlotOf(comp_head)] = Record(node[u], result[u])
    BY Zenon, <2>1, <1>a DEF RecordInv
  <2>4. ReqAt(comp_head) = node[u] /\ phase[node[u]] = comp[SlotOf(comp_head)].result
    BY <2>1, <2>3, <1>a DEF ReqAt, Record, QueueInv
  <2>5. \A v \in Units : v # u /\ worker[v] \in Answering => node[v] # node[u]
    BY <2>1, <1>a DEF QueueInv, Answering, Holding
  <2>6. \A i \in Indices : ReqAt(i)' = ReqAt(i)
    BY Zenon, <2>1 DEF ReqAt
  <2>7. RecordInv'
    <3>1. \A i \in Indices : Pending(i)' => phase'[ReqAt(i)'] = comp'[SlotOf(i)].result
      BY Zenon, <2>1, <2>2, <2>4, <2>6, <1>a DEF RecordInv
    <3>2. \A i, j \in Indices :
            Pending(i)' /\ Pending(j)' /\ ReqAt(i)' = ReqAt(j)' => i = j
      <4>1. \A i \in Indices : Pending(i) => ReqAt(i) # ReqAt(comp_head)
        BY Zenon, <2>1, <2>4, <1>a DEF RecordInv
      <4> QED BY Zenon, <4>1, <2>2, <2>6, <1>a DEF RecordInv
    <3>3. \A v \in Units : worker'[v] # "announce"
      BY Zenon, <2>1
    <3>4. \A v \in Units : worker'[v] \in Answering =>
            \A i \in Indices : Pending(i)' => ReqAt(i)' # node'[v]
      BY Zenon, <2>1, <2>2, <2>4, <2>5, <2>6, <1>a DEF RecordInv, Answering
    <3> QED BY Zenon, <3>1, <3>2, <3>3, <3>4 DEF RecordInv, Answering
  <2>8. EndInv'
    <3>1. \A c \in CPUs : cpu'[c] = "end" =>
            \A i \in Indices : Pending(i)' => ReqAt(i)' # rec'[c].req
      BY <2>1, <2>2, <2>4, <2>6, <1>a DEF EndInv
    <3>2. \A c \in CPUs : cpu'[c] = "end" =>
            \A v \in Units : worker'[v] \in {"complete", "announce"} => node'[v] # rec'[c].req
      BY Zenon, <2>1, <1>a DEF EndInv
    <3> QED BY Zenon, <3>1, <3>2, <2>1, <1>a DEF EndInv
  <2> QED BY Zenon, <2>7, <2>8
<1> QED BY Zenon, <1>1, <1>2, <1>3, <1>4 DEF WorkerStep

(* The same, when a processor drains. *)
LEMMA AnswersDrain ==
  ASSUME DeviceInv, Timely, NEW c \in CPUs, Drain(c)
  PROVE  RecordInv' /\ EndInv'
<1>a. HostInv /\ IndexInv /\ Reading /\ RecordInv /\ EndInv
  BY Zenon DEF DeviceInv, AnswerInv
<1>b. /\ phase \in [Requests -> {"free", "inflight"} \cup Results]
      /\ comp_head \in Indices /\ comp_tail \in Indices
      /\ cpu \in [CPUs -> {"out", "head", "resync", "claim", "read", "end"}]
      /\ tail \in [CPUs -> Indices]
      /\ \A d \in CPUs : rec[d].req \in Requests /\ rec[d].result \in Results
      /\ \A i \in Indices : ReqAt(i) \in Requests /\ comp[SlotOf(i)].result \in Results
  BY Zenon, <1>a, DeviceFacts
<1>c. rec \in [CPUs -> Records]
  BY Zenon, <1>a DEF HostInv, RingTypes
<1>d. /\ Gap(comp_head, comp_tail) \in Nat /\ Slots \in Nat
      /\ \A i \in Indices : Gap(comp_head, i) \in Nat
  BY Zenon, <1>b, GapFacts, SizeFacts
<1>1. ASSUME UNCHANGED <<comp_head, comp, worker, node, result, phase, rec>>,
             \A i \in Indices : Pending(i)' => Pending(i),
             \A d \in CPUs : cpu'[d] = "end" => cpu[d] = "end"
      PROVE  RecordInv' /\ EndInv'
  <2>1. RecordInv'
    BY Zenon, <1>1, <1>a, KeepRecords DEF RecordInv
  <2>2. EndInv'
    BY Zenon, <1>1, <1>a, KeepEnds
  <2> QED BY Zenon, <2>1, <2>2
<1>2. ASSUME ReadTail(c) \/ ReadHead(c) \/ Resync(c) PROVE RecordInv' /\ EndInv'
  <2>1. /\ UNCHANGED <<comp_head, comp, worker, node, result, phase, rec>>
        /\ cpu[c] \in {"out", "head", "resync"}
        /\ cpu'[c] \in {"out", "head", "resync", "claim"}
        /\ \A d \in CPUs : d # c => cpu'[d] = cpu[d] /\ tail'[d] = tail[d]
    BY Zenon, <1>2, <1>b DEF ReadTail, ReadHead, Resync, CpuGo, CpuOut, ring, workers
  <2>2. comp_tail' = comp_tail
    BY <1>2, <1>a, <1>d DEF ReadTail, ReadHead, Resync, IndexInv, ring
  <2>3. \A i \in Indices : Pending(i)' => Pending(i)
    BY Zenon, <2>1, <2>2, SamePending
  <2> QED BY Zenon, <1>1, <2>1, <2>3
<1>3. ASSUME ClaimSlot(c) PROVE RecordInv' /\ EndInv'
  <2>1. /\ UNCHANGED <<comp_head, comp, worker, node, result, phase, rec>>
        /\ cpu[c] = "claim" /\ cpu'[c] \in {"out", "read"}
        /\ \A d \in CPUs : d # c => cpu'[d] = cpu[d] /\ tail'[d] = tail[d]
    BY Zenon, <1>3, <1>b DEF ClaimSlot, CpuGo, CpuOut, workers
  <2>2. \A i \in Indices : Pending(i)' => Pending(i)
    <3>1. CASE comp_tail # tail[c]
      <4>1. cpu'[c] = "out" /\ comp_tail' = comp_tail
        BY Zenon, <1>3, <3>1, <1>b DEF ClaimSlot, CpuGo, CpuOut
      <4> QED BY Zenon, <4>1, <2>1, SamePending
    <3>2. CASE comp_tail = tail[c]
      <4>1. comp_tail' = Inc(comp_tail) /\ tail' = tail /\ comp_head # comp_tail
        BY Zenon, <1>3, <3>2, <1>a DEF ClaimSlot, IndexInv
      <4>2. Gap(comp_head, comp_tail') = Gap(comp_head, comp_tail) - 1
        BY Zenon, <4>1, <1>b, GapFacts
      <4>3. Gap(comp_head, comp_tail) >= 1
        BY <4>1, <1>b, <1>d, GapFacts
      <4>4. \A i \in Indices : Live(i)' => Live(i)
        BY <4>2, <2>1, <1>d DEF Live
      <4>5. \A i \in Indices : Claimed(i)' => Claimed(i) \/ i = comp_tail
        BY Zenon, <4>1, <2>1, <3>2 DEF Claimed
      <4>6. Live(comp_tail)
        BY <4>3, <1>d DEF Live
      <4> QED BY Zenon, <4>4, <4>5, <4>6 DEF Pending
    <3> QED BY Zenon, <3>1, <3>2
  <2> QED BY Zenon, <1>1, <2>1, <2>2
<1>4. ASSUME ReadRecord(c) PROVE RecordInv' /\ EndInv'
  <2> DEFINE t == tail[c]
  <2>1. /\ UNCHANGED <<comp_head, comp_tail, comp, worker, node, result, phase>>
        /\ cpu[c] = "read" /\ cpu'[c] \in {"out", "end"}
        /\ cpu'[c] = "end" => rec'[c] = comp[SlotOf(t)]
        /\ \A d \in CPUs : d # c => /\ cpu'[d] = cpu[d] /\ tail'[d] = tail[d]
                                    /\ rec'[d] = rec[d]
    BY Zenon, <1>4, <1>b, <1>c DEF ReadRecord, CpuGo, CpuOut, ring, workers
  <2>2. t \in Indices /\ Pending(t)
    BY Zenon, <2>1, <1>b DEF Pending, Claimed
  <2>3. ~Live(t)
    BY <2>1, <2>2, <1>a, <1>d DEF Reading, Live
  <2>4. \A i \in Indices : Pending(i)' => Pending(i) /\ i # t
    <3>1. \A i \in Indices : Live(i)' <=> Live(i)
      BY Zenon, <2>1 DEF Live
    <3>2. \A i \in Indices : Claimed(i)' => Claimed(i) /\ i # t
      BY Zenon, <2>1, <1>a DEF Claimed, Reading
    <3> QED BY Zenon, <3>1, <3>2, <2>3 DEF Pending
  <2>5. \A i \in Indices : ReqAt(i)' = ReqAt(i)
    BY Zenon, <2>1 DEF ReqAt
  <2>6. RecordInv'
    BY Zenon, <2>1, <2>4, <1>a, KeepRecords DEF RecordInv
  <2>7. cpu'[c] = "end" => rec'[c].req = ReqAt(t) /\ rec'[c].result = comp[SlotOf(t)].result
    BY Zenon, <2>1 DEF ReqAt
  <2>8. phase[ReqAt(t)] = comp[SlotOf(t)].result
    BY Zenon, <2>2, <1>a DEF RecordInv
  <2>9. \A d \in CPUs : cpu[d] = "end" => rec[d].req # ReqAt(t)
    BY Zenon, <2>2, <1>a DEF EndInv
  <2>10. \A i \in Indices : Pending(i)' => ReqAt(i) # ReqAt(t)
    BY Zenon, <2>2, <2>4, <1>a DEF RecordInv
  <2>11. \A v \in Units : worker[v] \in {"complete", "announce"} => node[v] # ReqAt(t)
    BY Zenon, <2>2, <1>a DEF RecordInv
  <2> HIDE DEF t
  <2>12. EndInv'
    <3>1. \A d \in CPUs : cpu'[d] = "end" => phase'[rec'[d].req] = rec'[d].result
      BY Zenon, <2>1, <2>7, <2>8, <1>a DEF EndInv
    <3>2. \A d, e \in CPUs :
            cpu'[d] = "end" /\ cpu'[e] = "end" /\ rec'[d].req = rec'[e].req => d = e
      BY <2>1, <2>7, <2>9, <1>a DEF EndInv
    <3>3. \A d \in CPUs : cpu'[d] = "end" =>
            \A i \in Indices : Pending(i)' => ReqAt(i)' # rec'[d].req
      BY <2>1, <2>4, <2>5, <2>7, <2>10, <1>a DEF EndInv
    <3>4. \A d \in CPUs : cpu'[d] = "end" =>
            \A v \in Units : worker'[v] \in {"complete", "announce"} => node'[v] # rec'[d].req
      BY <2>1, <2>7, <2>11, <1>a DEF EndInv
    <3> QED BY Zenon, <3>1, <3>2, <3>3, <3>4 DEF EndInv
  <2> QED BY Zenon, <2>6, <2>12
<1>5. ASSUME EndRequest(c) PROVE RecordInv' /\ EndInv'
  <2>1. /\ UNCHANGED <<comp_head, comp_tail, comp, worker, node, result>>
        /\ cpu[c] = "end" /\ cpu'[c] = "out"
        /\ phase' = [phase EXCEPT ![rec[c].req] = "free"]
        /\ \A d \in CPUs : d # c => /\ cpu'[d] = cpu[d] /\ tail'[d] = tail[d]
                                    /\ rec'[d] = rec[d]
    BY Zenon, <1>5, <1>b, <1>c DEF EndRequest, CpuGo, CpuOut, ring, workers
  <2>2. \A i \in Indices : Pending(i)' <=> Pending(i)
    BY Zenon, <2>1, SamePending
  <2>3. \A q \in Requests : q # rec[c].req => phase'[q] = phase[q]
    BY Zenon, <2>1, <1>b
  <2>4. \A i \in Indices : Pending(i) => phase'[ReqAt(i)] = phase[ReqAt(i)]
    BY Zenon, <2>1, <2>3, <1>a, <1>b DEF EndInv
  <2>5. \A d \in CPUs : cpu'[d] = "end" =>
          cpu[d] = "end" /\ rec'[d] = rec[d] /\ phase'[rec[d].req] = phase[rec[d].req]
    BY <2>1, <2>3, <1>a, <1>b DEF EndInv
  <2>6. RecordInv'
    BY Zenon, <2>1, <2>2, <2>4, <1>a, KeepRecords DEF RecordInv
  <2>7. EndInv'
    BY Zenon, <2>1, <2>2, <2>5, <1>a, KeepEnds
  <2> QED BY Zenon, <2>6, <2>7
<1> QED BY Zenon, <1>2, <1>3, <1>4, <1>5 DEF Drain

LEMMA DeviceInit == Init => DeviceInv
<1> SUFFICES ASSUME Init PROVE DeviceInv
  BY Zenon
<1>1. HostInv /\ IndexInv
  BY Zenon, HostInit, IndexInit
<1>2. Gap(comp_head, comp_tail) = 0
  BY Zenon, SizeFacts, GapFacts DEF Init
<1>3. \A i \in Indices : ~Pending(i)
  BY <1>2 DEF Init, Pending, Live, Claimed
<1>4. Reading /\ TagsInv
  BY Zenon DEF Init, Reading, TagsInv
<1>5. QueueInv
  BY DEF Init, QueueInv, Holding
<1>6. RecordInv /\ EndInv
  BY Zenon, <1>3 DEF Init, RecordInv, EndInv
<1> QED BY Zenon, <1>1, <1>4, <1>5, <1>6 DEF DeviceInv, AnswerInv

LEMMA DeviceStep == DeviceInv /\ Timely /\ [Next]_vars => DeviceInv'
<1> SUFFICES ASSUME DeviceInv, Timely, [Next]_vars PROVE DeviceInv'
  BY Zenon
<1>1. HostInv' /\ IndexInv'
  BY Zenon, HostStep, IndexNext DEF DeviceInv, Timely
<1>2. CASE Next
  <2>1. RecordInv' /\ EndInv'
    BY Zenon, <1>2, AnswersOther, AnswersWorker, AnswersDrain DEF Next
  <2>2. Reading' /\ TagsInv' /\ QueueInv'
    BY Zenon, <1>2, ReadingStep, TagsStep, QueueStep
  <2> QED BY Zenon, <1>1, <2>1, <2>2 DEF DeviceInv, AnswerInv
<1>3. CASE UNCHANGED vars
  <2>1. UNCHANGED <<ring, reapers, worker, node, result, phase, rq, fifo, async_cobd>>
    BY Zenon, <1>3 DEF vars, workers, hostq, ctl
  <2>2. RecordInv' /\ EndInv'
    BY Zenon, <2>1, KeepBoth DEF Answering
  <2>3. Reading' /\ TagsInv' /\ QueueInv'
    BY <2>1 DEF DeviceInv, AnswerInv, Reading, TagsInv, QueueInv, ring, reapers
  <2> QED BY Zenon, <1>1, <2>2, <2>3 DEF DeviceInv, AnswerInv
<1> QED BY Zenon, <1>2, <1>3

LEMMA DeviceAlways == Spec /\ []Timely => []DeviceInv
  BY DeviceInit, DeviceStep, PTL DEF Spec
-----------------------------------------------------------------------------
(* The device is the block service: each of its steps is one of the        *)
(* service's or leaves the requests alone.                                 *)
LEMMA ServiceStep ==
  ASSUME DeviceInv, Next
  PROVE  [Service!Next]_(Service!vars)
<1> USE DEF Service!vars
<1>a. HostInv /\ TagsInv /\ QueueInv /\ EndInv /\ BootShape
  BY Zenon DEF DeviceInv, AnswerInv, HostInv
<1>b. /\ \A c \in CPUs : rec[c].req \in Requests /\ rec[c].result \in Results
      /\ \A u \in Units : worker[u] \in Holding => node[u] \in Requests
  BY Zenon, <1>a, DeviceFacts
<1>c. Service!Results = Results
  BY Zenon DEF Service!Results, Results
<1>1. ASSUME NEW r \in Requests, co_cobd_async_submit(r) \/ QueueInline(r)
      PROVE  Service!Issue(r)
  BY Zenon, <1>1, <1>a DEF co_cobd_async_submit, QueueInline, Issuing, TagsInv, Service!Issue
<1>2. ASSUME NEW r \in Requests, InlineTransfer(r)
      PROVE  Service!Transfer(r) \/ UNCHANGED <<phase, answer>>
  <2>1. phase \in [Requests -> {"free", "inflight"} \cup Results]
    BY Zenon, <1>a, DeviceFacts
  <2> QED BY Zenon, <1>2, <1>c, <2>1 DEF InlineTransfer, Service!Transfer, Results
<1>3. ASSUME NEW r \in Requests, InlineEnd(r) PROVE Service!End(r)
  BY Zenon, <1>3, <1>c DEF InlineEnd, Service!End
<1>4. ASSUME NEW u \in Units, Transfer(u) PROVE Service!Transfer(node[u]) /\ node[u] \in Requests
  <2>1. node[u] \in Requests /\ phase[node[u]] = "inflight"
    BY Zenon, <1>4, <1>a, <1>b DEF Transfer, At, QueueInv, Holding
  <2> QED BY Zenon, <1>4, <2>1, <1>c DEF Transfer, Service!Transfer
<1>5. ASSUME NEW c \in CPUs, EndRequest(c) PROVE Service!End(rec[c].req) /\ rec[c].req \in Requests
  <2>1. phase[rec[c].req] = rec[c].result
    BY Zenon, <1>5, <1>a DEF EndRequest, EndInv
  <2> QED BY Zenon, <1>5, <2>1, <1>b, <1>c DEF EndRequest, Service!End
<1>6. ASSUME NEW u \in Units, CheckStopping(u) \/ Wake(u) \/ WriteRecord(u)
                              \/ AnnounceRecord(u) \/ fifo_pop(u) \/ node_free(u)
      PROVE  UNCHANGED <<phase, answer>>
  BY Zenon, <1>6 DEF CheckStopping, Wake, WriteRecord, AnnounceRecord, fifo_pop, node_free
<1>7. ASSUME NEW c \in CPUs, ReadTail(c) \/ ReadHead(c) \/ Resync(c) \/ ClaimSlot(c)
                             \/ ReadRecord(c)
      PROVE  UNCHANGED <<phase, answer>>
  BY Zenon, <1>7 DEF ReadTail, ReadHead, Resync, ClaimSlot, ReadRecord
<1>8. ASSUME (\E n \in WorkerCounts : co_cobd_async_start(n))
              \/ SyncBoot \/ GuestEnds \/ AskWorkers \/ JoinWorkers
       PROVE  UNCHANGED <<phase, answer>>
  BY Zenon, <1>8 DEF co_cobd_async_start, SyncBoot, GuestEnds, AskWorkers, JoinWorkers
<1> QED
  BY Zenon, <1>1, <1>2, <1>3, <1>4, <1>5, <1>6, <1>7, <1>8
  DEF Next, WorkerStep, Drain, InlineStep, Service!Next

LEMMA ServiceNext == DeviceInv /\ [Next]_vars => [Service!Next]_(Service!vars)
<1> SUFFICES ASSUME DeviceInv, [Next]_vars PROVE [Service!Next]_(Service!vars)
  BY Zenon
<1>1. CASE UNCHANGED vars
  BY Zenon, <1>1 DEF vars, Service!vars
<1> QED BY Zenon, <1>1, ServiceStep

LEMMA ServiceInit == Init => Service!Init
  BY Zenon DEF Init, Service!Init

(* Every request is transferred once and ended once, after its transfer    *)
(* and with its result, whatever the number of processors, as long as none *)
(* is overtaken by a whole ring in the middle of a drain.                  *)
THEOREM ServiceIsImplemented == Spec /\ []Timely => ServiceImplemented
  BY ServiceInit, ServiceNext, DeviceAlways, PTL DEF Spec, ServiceImplemented, Service!Spec

-----------------------------------------------------------------------------
(* The work nodes that are not in the free list: one for every queued       *)
(* request, and the one a worker holds.                                    *)
InUse ==
  {x \in Units \X Nat :
     IF x[2] = 0 THEN worker[x[1]] \in Holding ELSE x[2] <= Len(fifo[x[1]])}

(* No more nodes are out than the pool has, and while the workers may run  *)
(* none is lost. *)
NodesCounted ==
  /\ IsFiniteSet(InUse)
  /\ free_nodes + Cardinality(InUse) <= Nodes
  /\ async_cobd /\ boot \in {"run", "join"} => free_nodes + Cardinality(InUse) = Nodes

PoolInv == HostInv /\ free_nodes \in 0..Nodes /\ NodesCounted

(* The nodes in use stay the same when no queue changes its length and no  *)
(* worker takes or gives up a node.                                        *)
LEMMA SameNodes ==
  ASSUME NodesCounted,
         \A u \in Units : Len(fifo'[u]) = Len(fifo[u]),
         \A u \in Units : worker'[u] \in Holding <=> worker[u] \in Holding,
         free_nodes' = free_nodes,
         async_cobd' = async_cobd,
         boot' \in {"run", "join"} => boot \in {"run", "join"} \/ ~async_cobd
  PROVE  NodesCounted'
<1>1. InUse' = InUse
  BY Zenon DEF InUse
<1> QED BY Zenon, <1>1 DEF NodesCounted

(* Every action keeps the nodes counted. *)
LEMMA NodesStep ==
  ASSUME PoolInv, Next
  PROVE  NodesCounted' /\ free_nodes' \in 0..Nodes
<1> USE SizesAssumption
<1>a. HostTypes /\ free_nodes \in 0..Nodes /\ NodesCounted /\ BootShape /\ WorkerShape
  BY Zenon DEF PoolInv, HostInv
<1>b. /\ Cardinality(InUse) \in Nat /\ IsFiniteSet(InUse) /\ free_nodes \in 0..Nodes
      /\ free_nodes + Cardinality(InUse) <= Nodes
  BY Zenon, <1>a, FS_CardinalityType DEF NodesCounted
<1>c. fifo \in [Units -> Seq(Requests)]
  BY Zenon, <1>a DEF HostTypes
<1>d. worker \in [Units -> {"none", "pop", "check", "sleep", "transfer", "complete",
                            "announce", "free", "gone"}]
  BY Zenon, <1>a DEF HostTypes
<1>e. \A u \in Units : Len(fifo[u]) \in Nat
  BY <1>c
<1>f. boot = "start" => ~async_cobd
  BY Zenon, <1>a DEF BootShape
<1>1. ASSUME NEW n \in WorkerCounts, co_cobd_async_start(n)
      PROVE  NodesCounted' /\ free_nodes' \in 0..Nodes
  <2>1. InUse = {}
    <3>1. \A u \in Units : worker[u] = "none" /\ fifo[u] = <<>>
      BY Zenon, <1>1, <1>a DEF co_cobd_async_start, BootShape
    <3> QED BY <3>1 DEF InUse, Holding
  <2>2. InUse' = {}
    <3>1. \A u \in Units : worker'[u] \in {"pop", "none"} /\ fifo'[u] = <<>>
      BY Zenon, <1>1, <1>a DEF co_cobd_async_start, BootShape
    <3> QED BY <3>1 DEF InUse, Holding
  <2>3. free_nodes' = Nodes
    BY Zenon, <1>1 DEF co_cobd_async_start
  <2> QED BY <2>2, <2>3, FS_EmptySet DEF NodesCounted
<1>2. CASE SyncBoot
  BY Zenon, <1>2, <1>a, <1>f, SameNodes DEF SyncBoot, hostq, workers
<1>3. CASE GuestEnds
  BY Zenon, <1>3, <1>a, SameNodes DEF GuestEnds, hostq, workers, ctl
<1>4. CASE AskWorkers
  BY Zenon, <1>4, <1>a, SameNodes DEF AskWorkers, workers
<1>5. CASE JoinWorkers
  <2>1. InUse' = {}
    <3>1. \A u \in Units : worker'[u] \in {"none", "gone"} /\ fifo'[u] = <<>>
      BY Zenon, <1>5 DEF JoinWorkers, workers
    <3> QED BY <3>1 DEF InUse, Holding
  <2>2. free_nodes' = 0 /\ boot' = "freed"
    BY Zenon, <1>5 DEF JoinWorkers
  <2> QED BY <2>1, <2>2, FS_EmptySet DEF NodesCounted
<1>6. ASSUME NEW r \in Requests, co_cobd_async_submit(r)
      PROVE  NodesCounted' /\ free_nodes' \in 0..Nodes
  <2> DEFINE u == UnitOf(r)
             x == <<u, Len(fifo[u]) + 1>>
  <2>1. u \in Units
    BY Zenon, RequestFacts
  <2>2. fifo' = [fifo EXCEPT ![u] = Append(@, r)] /\ worker' = worker
    BY Zenon, <1>6 DEF co_cobd_async_submit, workers
  <2>3. Len(fifo'[u]) = Len(fifo[u]) + 1 /\ \A v \in Units : v # u => fifo'[v] = fifo[v]
    BY Zenon, <2>1, <2>2, <1>c, SeqAppend
  <2> HIDE DEF u
  <2>4. InUse' = InUse \cup {x} /\ x \notin InUse
    BY <2>1, <2>2, <2>3, <1>e DEF InUse
  <2>5. IsFiniteSet(InUse') /\ Cardinality(InUse') = Cardinality(InUse) + 1
    BY Zenon, <2>4, <1>b, FS_AddElement
  <2>6. free_nodes' = free_nodes - 1 /\ free_nodes > 0 /\ UNCHANGED <<async_cobd, boot>>
    BY Zenon, <1>6 DEF co_cobd_async_submit, ctl
  <2>7. async_cobd' /\ boot' \in {"run", "join"} => free_nodes + Cardinality(InUse) = Nodes
    BY Zenon, <2>6, <1>a DEF NodesCounted
  <2> HIDE DEF x
  <2> QED BY <2>5, <2>6, <2>7, <1>b DEF NodesCounted
<1>7. ASSUME NEW r \in Requests, QueueInline(r) \/ InlineStep(r)
      PROVE  NodesCounted' /\ free_nodes' \in 0..Nodes
  <2>1. UNCHANGED <<hostq, workers, ctl>>
    BY Zenon, <1>7 DEF QueueInline, InlineStep, InlineTransfer, InlineEnd
  <2> QED BY Zenon, <2>1, <1>a, <1>b, SameNodes DEF hostq, workers, ctl
<1>8. ASSUME NEW u \in Units, fifo_pop(u)
      PROVE  NodesCounted' /\ free_nodes' \in 0..Nodes
  <2>1. UNCHANGED <<free_nodes, async_cobd, boot>> /\ worker[u] = "pop"
    BY Zenon, <1>8 DEF fifo_pop, ctl, At
  <2>2. CASE fifo[u] = <<>>
    BY Zenon, <2>1, <2>2, <1>8, <1>a, <1>b, <1>d, SameNodes DEF fifo_pop, WorkerGo, Holding
  <2>3. CASE fifo[u] # <<>>
    <3> DEFINE x == <<u, Len(fifo[u])>>
               y == <<u, 0>>
    <3>1. fifo' = [fifo EXCEPT ![u] = Tail(@)] /\ worker' = [worker EXCEPT ![u] = "transfer"]
      BY Zenon, <1>8, <2>3 DEF fifo_pop, WorkerGo
    <3>2. /\ Len(fifo'[u]) = Len(fifo[u]) - 1 /\ Len(fifo[u]) > 0
          /\ \A v \in Units : v # u => fifo'[v] = fifo[v]
      BY Zenon, <3>1, <2>3, <1>c, <1>e, SeqTail
    <3>3. /\ worker'[u] \in Holding /\ worker[u] \notin Holding
          /\ \A v \in Units : v # u => worker'[v] = worker[v]
      BY Zenon, <3>1, <2>1, <1>d DEF Holding
    <3>4. InUse' = (InUse \ {x}) \cup {y} /\ x \in InUse /\ y \notin InUse \ {x}
      BY <3>2, <3>3, <1>e DEF InUse
    <3>5. IsFiniteSet(InUse') /\ Cardinality(InUse') = Cardinality(InUse)
      <4> HIDE DEF x, y
      <4>1. IsFiniteSet(InUse \ {x}) /\ Cardinality(InUse \ {x}) = Cardinality(InUse) - 1
        BY Zenon, <3>4, <1>b, FS_RemoveElement
      <4>2. /\ IsFiniteSet((InUse \ {x}) \cup {y})
            /\ Cardinality((InUse \ {x}) \cup {y}) = Cardinality(InUse \ {x}) + 1
        BY Zenon, <4>1, <3>4, FS_AddElement
      <4> QED BY <4>1, <4>2, <3>4, <1>b
    <3> QED BY Zenon, <3>5, <2>1, <1>a, <1>b DEF NodesCounted
  <2> QED BY Zenon, <2>2, <2>3
<1>9. ASSUME NEW u \in Units, node_free(u)
      PROVE  NodesCounted' /\ free_nodes' \in 0..Nodes
  <2> DEFINE y == <<u, 0>>
  <2>1. /\ UNCHANGED <<async_cobd, boot, fifo>> /\ free_nodes' = free_nodes + 1
        /\ worker[u] = "free" /\ worker' = [worker EXCEPT ![u] = "pop"]
    BY Zenon, <1>9 DEF node_free, ctl, At, WorkerGo
  <2>2. InUse' = InUse \ {y} /\ y \in InUse
    <3>1. /\ worker'[u] \notin Holding /\ worker[u] \in Holding
          /\ \A v \in Units : v # u => worker'[v] = worker[v]
      BY Zenon, <2>1, <1>d DEF Holding
    <3> QED BY <3>1, <2>1 DEF InUse
  <2>3. IsFiniteSet(InUse') /\ Cardinality(InUse') = Cardinality(InUse) - 1
    BY Zenon, <2>2, <1>b, FS_RemoveElement
  <2>4. Cardinality(InUse') \in Nat
    BY Zenon, <2>3, FS_CardinalityType
  <2>5. async_cobd' /\ boot' \in {"run", "join"} => free_nodes + Cardinality(InUse) = Nodes
    BY Zenon, <2>1, <1>a DEF NodesCounted
  <2> HIDE DEF y
  <2> QED BY <2>1, <2>3, <2>4, <2>5, <1>b DEF NodesCounted
<1>10. ASSUME NEW u \in Units, CheckStopping(u) \/ Wake(u) \/ Transfer(u)
                               \/ WriteRecord(u) \/ AnnounceRecord(u)
       PROVE  NodesCounted' /\ free_nodes' \in 0..Nodes
  <2>1. /\ UNCHANGED <<free_nodes, fifo, async_cobd, boot>>
        /\ \/ worker[u] \in {"check", "sleep"} /\ worker'[u] \in {"gone", "sleep", "pop"}
           \/ worker[u] \in Holding /\ worker'[u] \in Holding
        /\ \A v \in Units : v # u => worker'[v] = worker[v]
    BY Zenon, <1>10, <1>d
    DEF CheckStopping, Wake, Transfer, WriteRecord, AnnounceRecord, ctl, hostq,
                       At, WorkerGo, Holding
  <2>2. \A v \in Units : worker'[v] \in Holding <=> worker[v] \in Holding
    BY Zenon, <2>1 DEF Holding
  <2> QED BY Zenon, <2>1, <2>2, <1>a, <1>b, SameNodes
<1>11. ASSUME NEW c \in CPUs, Drain(c)
       PROVE  NodesCounted' /\ free_nodes' \in 0..Nodes
  <2>1. UNCHANGED <<hostq, workers, ctl>>
    BY Zenon, <1>11 DEF Drain, ReadTail, ReadHead, Resync, ClaimSlot, ReadRecord, EndRequest
  <2> QED BY Zenon, <2>1, <1>a, <1>b, SameNodes DEF hostq, workers, ctl
<1> QED
  BY Zenon, <1>1, <1>2, <1>3, <1>4, <1>5, <1>6, <1>7, <1>8, <1>9, <1>10, <1>11
  DEF Next, WorkerStep

LEMMA PoolInit == Init => PoolInv
<1> SUFFICES ASSUME Init PROVE PoolInv
  BY Zenon
<1>1. InUse = {}
  BY DEF Init, InUse, Holding
<1>2. NodesCounted /\ free_nodes \in 0..Nodes
  BY <1>1, FS_EmptySet, SizesAssumption DEF Init, NodesCounted
<1> QED BY Zenon, <1>2, HostInit DEF PoolInv

LEMMA PoolNext == PoolInv /\ [Next]_vars => PoolInv'
<1> SUFFICES ASSUME PoolInv, [Next]_vars PROVE PoolInv'
  BY Zenon
<1>1. HostInv'
  BY Zenon, HostStep DEF PoolInv
<1>2. CASE Next
  BY Zenon, <1>1, <1>2, NodesStep DEF PoolInv
<1>3. CASE UNCHANGED vars
  <2>1. NodesCounted' /\ free_nodes' \in 0..Nodes
    BY Zenon, <1>3 DEF PoolInv, NodesCounted, InUse, vars, ctl, hostq, workers
  <2> QED BY Zenon, <1>1, <2>1 DEF PoolInv
<1> QED BY Zenon, <1>2, <1>3

LEMMA PoolAlways == Spec => []PoolInv
  BY PoolInit, PoolNext, PTL DEF Spec

LEMMA TypeParts == HostTypes /\ RingTypes /\ TagTypes /\ free_nodes \in 0..Nodes => TypeOK
<1>1. /\ enabled \in BOOLEAN /\ async_cobd \in BOOLEAN
      /\ cobd_io_va \in BOOLEAN /\ stopping \in BOOLEAN
      => {enabled, async_cobd, cobd_io_va, stopping} \subseteq BOOLEAN
  BY Zenon
<1> QED BY <1>1, Zenon DEF TypeOK, HostTypes, RingTypes, TagTypes, Indices

(* Type correctness: in particular the free list never holds more nodes    *)
(* than the pool has, nor fewer than none.                                 *)
THEOREM TypeCorrect == Spec => []TypeOK
<1>1. PoolInv => TypeOK
  BY Zenon, TypeParts DEF PoolInv, HostInv
<1> QED BY <1>1, PoolAlways, PTL

-----------------------------------------------------------------------------
LEMMA RequestsCounted == IsFiniteSet(Requests) /\ Cardinality(Requests) = NUnits * Depth
<1>1. IsFiniteSet(Units) /\ Cardinality(Units) = NUnits
  BY SizeFacts, FS_Interval DEF Units
<1>2. IsFiniteSet(Tags) /\ Cardinality(Tags) = Depth
  BY SizeFacts, FS_Interval DEF Tags
<1> QED BY Zenon, <1>1, <1>2, FS_Product DEF Requests

(* As long as one tag is free the nodes in use are at most one for every   *)
(* other tag and one for every worker.                                     *)
LEMMA NodesBounded ==
  ASSUME DeviceInv, NEW r0 \in Requests, rq[r0] = "idle"
  PROVE  Cardinality(InUse) \in Nat /\ Cardinality(InUse) < NUnits * Depth + NUnits
<1> DEFINE Queued == {x \in InUse : x[2] # 0}
           Held == {x \in InUse : x[2] = 0}
           Others == Requests \ {r0}
           f == [x \in Queued |-> fifo[x[1]][x[2]]]
           g == [x \in Held |-> x[1]]
<1>a. fifo \in [Units -> Seq(Requests)] /\ QueueInv /\ TagsInv
  BY Zenon, DeviceFacts DEF DeviceInv, AnswerInv
<1>b. \A u \in Units : Len(fifo[u]) \in Nat
  BY Zenon, <1>a, SeqElements
<1>1. \A x \in Queued : x[1] \in Units /\ x[2] \in 1..Len(fifo[x[1]]) /\ x = <<x[1], x[2]>>
  BY <1>b DEF InUse
<1>2. \A x \in Queued : fifo[x[1]][x[2]] \in Others
  BY <1>1, <1>a, SeqElements DEF QueueInv, TagsInv
<1>3. \A x, y \in Queued : f[x] = f[y] => x = y
  <2> SUFFICES ASSUME NEW x \in Queued, NEW y \in Queued, f[x] = f[y] PROVE x = y
    BY Zenon
  <2>1. x[1] = y[1]
    BY <1>1, <1>a DEF QueueInv
  <2>2. x[2] = y[2]
    BY <2>1, <1>1, <1>a DEF QueueInv
  <2> QED BY Zenon, <2>1, <2>2, <1>1
<1>4. f \in Injection(Queued, Others)
  BY Zenon, <1>2, <1>3 DEF Injection, IsInjective
<1>5. /\ IsFiniteSet(Others) /\ Cardinality(Others) = NUnits * Depth - 1
  BY Zenon, RequestsCounted, FS_RemoveElement
<1>6. IsFiniteSet(Queued) /\ Cardinality(Queued) <= NUnits * Depth - 1
  BY <1>4, <1>5, FS_Injection
<1>7. IsFiniteSet(Units) /\ Cardinality(Units) = NUnits
  BY SizeFacts, FS_Interval DEF Units
<1>8. g \in Injection(Held, Units)
  <2>1. \A x \in Held : x[1] \in Units /\ x = <<x[1], 0>>
    BY DEF InUse
  <2> QED BY Zenon, <2>1 DEF Injection, IsInjective
<1>9. IsFiniteSet(Held) /\ Cardinality(Held) <= NUnits
  BY Zenon, <1>7, <1>8, FS_Injection
<1>10. InUse = Queued \cup Held
  BY Zenon
<1> HIDE DEF Queued, Held
<1>11. /\ IsFiniteSet(Queued \cap Held) /\ Cardinality(Queued \cap Held) \in Nat
  BY Zenon, <1>6, FS_Subset, FS_CardinalityType
<1>12. Cardinality(InUse) = Cardinality(Queued) + Cardinality(Held) - Cardinality(Queued \cap Held)
  BY Zenon, <1>6, <1>9, <1>10, FS_Union
<1>13. /\ Cardinality(Queued) \in Nat /\ Cardinality(Held) \in Nat
       /\ Cardinality(InUse) \in Nat
  BY Zenon, <1>6, <1>9, <1>10, FS_Union, FS_CardinalityType
<1>14. NUnits \in Nat /\ NUnits * Depth \in Nat
  BY SizeFacts
<1> QED BY <1>6, <1>9, <1>11, <1>12, <1>13, <1>14

LEMMA PoolFollows == DeviceInv /\ PoolInv => PoolSuffices
<1> SUFFICES ASSUME DeviceInv, PoolInv, guest = "up", async_cobd, NEW r0 \in Requests,
                    rq[r0] = "idle"
             PROVE  free_nodes > 0
  BY Zenon DEF PoolSuffices
<1>1. free_nodes + Cardinality(InUse) = Nodes /\ free_nodes \in 0..Nodes
  BY Zenon DEF PoolInv, HostInv, NodesCounted, BootShape
<1>2. Cardinality(InUse) \in Nat /\ Cardinality(InUse) < NUnits * Depth + NUnits
  BY Zenon, NodesBounded
<1>3. NUnits * Depth \in Nat /\ NUnits \in Nat /\ Nodes \in Nat /\ NUnits * Depth + NUnits <= Nodes
  BY SizesAssumption
<1> QED BY <1>1, <1>2, <1>3

(* A guest with a free tag finds a free node: co_cobd_async_submit never   *)
(* answers busy.                                                           *)
THEOREM PoolIsEnough == Spec /\ []Timely => []PoolSuffices
  BY PoolFollows, PoolAlways, DeviceAlways, PTL
-----------------------------------------------------------------------------
(* One processor is the only one that moves the tail. *)
SoloInv ==
  \A c \in CPUs :
    /\ cpu[c] \in {"head", "resync", "claim"} => tail[c] = comp_tail
    /\ cpu[c] = "read" => comp_tail = Inc(tail[c])

(* A guest with one processor.  It alone moves the tail, so what it read   *)
(* of it is still true at its exchange, and what it has claimed is next to *)
(* the tail; the requests that are out do not fill the ring.               *)
LEMMA SoloStep ==
  ASSUME NEW c, CPUs = {c}, HostInv, SoloInv, Next
  PROVE  SoloInv'
<1>a. /\ cpu \in [CPUs -> {"out", "head", "resync", "claim", "read", "end"}]
      /\ tail \in [CPUs -> Indices]
  BY Zenon, DeviceFacts
<1>1. ASSUME UNCHANGED <<comp_tail, cpu, tail>> PROVE SoloInv'
  BY Zenon, <1>1 DEF SoloInv
<1>2. ASSUME NEW d \in CPUs, Drain(d) PROVE SoloInv'
  <2>1. d = c
    BY Zenon
  <2>2. CASE ReadTail(d) \/ ReadHead(d)
    BY Zenon, <2>2, <2>1, <1>a DEF ReadTail, ReadHead, CpuGo, CpuOut, ring, SoloInv
  <2>3. CASE Resync(d) \/ ClaimSlot(d)
    BY Zenon, <2>3, <2>1, <1>a DEF Resync, ClaimSlot, CpuGo, CpuOut, SoloInv
  <2>4. CASE ReadRecord(d) \/ EndRequest(d)
    BY Zenon, <2>4, <2>1, <1>a DEF ReadRecord, EndRequest, CpuGo, CpuOut, ring, SoloInv
  <2> QED BY Zenon, <1>2, <2>2, <2>3, <2>4 DEF Drain
<1>3. ASSUME NEW u \in Units, WorkerStep(u) PROVE UNCHANGED <<comp_tail, cpu, tail>>
  BY Zenon, <1>3 DEF WorkerStep, fifo_pop, CheckStopping, Wake, Transfer, WriteRecord,
              AnnounceRecord, node_free, ring, reapers
<1>4. ASSUME NEW r \in Requests, co_cobd_async_submit(r) \/ QueueInline(r) \/ InlineStep(r)
      PROVE  UNCHANGED <<comp_tail, cpu, tail>>
  BY Zenon, <1>4 DEF co_cobd_async_submit, QueueInline, InlineStep, InlineTransfer, InlineEnd, ring,
              reapers
<1>5. ASSUME (\E n \in WorkerCounts : co_cobd_async_start(n))
              \/ SyncBoot \/ GuestEnds \/ AskWorkers \/ JoinWorkers
       PROVE  UNCHANGED <<comp_tail, cpu, tail>>
  BY Zenon, <1>5
  DEF co_cobd_async_start, SyncBoot, GuestEnds, AskWorkers, JoinWorkers, ring, reapers
<1> QED BY Zenon, <1>1, <1>2, <1>3, <1>4, <1>5 DEF Next

(* The position a given distance behind the head. *)
LEMMA GapInverse ==
  ASSUME NEW h \in Indices, NEW g \in Indices
  PROVE  Gap(h, g) \in Indices /\ Gap(h, Gap(h, g)) = g
<1> DEFINE k == Gap(h, g)
<1>1. k \in Indices /\ k = IF g <= h THEN h - g ELSE h - g + Width
  BY Zenon, GapIs
<1> HIDE DEF k
<1>2. Gap(h, k) = IF k <= h THEN h - k ELSE h - k + Width
  BY Zenon, <1>1, GapIs
<1>3. /\ Width \in Int /\ h \in Int /\ g \in Int
      /\ h < Width /\ g < Width /\ h >= 0 /\ g >= 0
  BY SizeFacts DEF Indices
<1>4. Gap(h, k) = g
  <2>1. CASE g <= h
    BY <2>1, <1>1, <1>2, <1>3
  <2>2. CASE ~(g <= h)
    BY <2>2, <1>1, <1>2, <1>3
  <2> QED BY Zenon, <2>1, <2>2
<1> QED BY Zenon, <1>1, <1>4 DEF k

LEMMA SoloTimely ==
  ASSUME NEW c, CPUs = {c}, DeviceInv, SoloInv
  PROVE  Timely
<1>a. comp_head \in Indices /\ comp_tail \in Indices /\ tail[c] \in Indices
  BY Zenon, DeviceFacts DEF DeviceInv
<1>b. Slots \in Nat /\ Slots > 1 /\ Width \in Nat /\ 2 * Slots <= Width
  BY Zenon, SizeFacts
<1>c. /\ Gap(comp_head, comp_tail) \in Nat /\ Gap(comp_head, comp_tail) <= Slots
      /\ Gap(comp_head, tail[c]) \in Nat /\ Gap(comp_head, tail[c]) < Width
  BY Zenon, <1>a, GapFacts DEF DeviceInv, IndexInv
<1>1. NoWrap
  BY <1>b, <1>c DEF NoWrap, SoloInv
<1>2. ASSUME cpu[c] = "read" PROVE Gap(comp_head, tail[c]) < Slots
  <2> DEFINE n == Gap(comp_head, tail[c])
             f == [g \in 1..n |-> ReqAt(Gap(comp_head, g))]
  <2>1. comp_tail = Inc(tail[c]) /\ Gap(comp_head, comp_tail) < n
    BY Zenon, <1>2 DEF SoloInv, DeviceInv, AnswerInv, Reading
  <2>2. Gap(comp_head, comp_tail) = n - 1
    BY <2>1, <1>a, <1>c, GapFacts
  <2>3. ASSUME NEW g \in 1..n
        PROVE  /\ Gap(comp_head, g) \in Indices /\ Pending(Gap(comp_head, g))
               /\ Gap(comp_head, Gap(comp_head, g)) = g
    <3>1. g \in Indices
      BY <1>b, <1>c DEF Indices
    <3>2. Gap(comp_head, g) \in Indices /\ Gap(comp_head, Gap(comp_head, g)) = g
      BY Zenon, <3>1, <1>a, GapInverse
    <3>3. CASE g = n
      <4>1. Gap(comp_head, g) = tail[c]
        BY Zenon, <3>2, <3>3, <1>a, GapInjective
      <4> QED BY Zenon, <4>1, <3>2, <1>2 DEF Pending, Claimed
    <3>4. CASE g # n
      BY <3>2, <3>4, <2>2, <1>c DEF Pending, Live
    <3> QED BY Zenon, <3>2, <3>3, <3>4
  <2>4. \A i, j \in Indices : Pending(i) /\ Pending(j) /\ ReqAt(i) = ReqAt(j) => i = j
    BY Zenon DEF DeviceInv, AnswerInv, RecordInv
  <2>5. \A i \in Indices : ReqAt(i) \in Requests
    BY Zenon, DeviceFacts DEF DeviceInv
  <2> HIDE DEF n
  <2>6. \A g, k \in 1..n : f[g] = f[k] => g = k
    <3> SUFFICES ASSUME NEW g \in 1..n, NEW k \in 1..n, f[g] = f[k] PROVE g = k
      BY Zenon
    <3>1. Gap(comp_head, g) = Gap(comp_head, k)
      BY Zenon, <2>3, <2>4
    <3> QED BY Zenon, <3>1, <2>3
  <2>7. f \in Injection(1..n, Requests)
    BY Zenon, <2>3, <2>5, <2>6 DEF Injection, IsInjective
  <2>8. n \in Nat
    BY Zenon, <1>c DEF n
  <2>9. Cardinality(1..n) = n
    BY <2>8, FS_Interval
  <2>10. Cardinality(1..n) <= NUnits * Depth
    BY <2>7, RequestsCounted, FS_Injection
  <2> QED BY <2>8, <2>9, <2>10, SizesAssumption DEF n
<1>3. ProducerNeverLaps
  BY Zenon, <1>2 DEF ProducerNeverLaps
<1> QED BY Zenon, <1>1, <1>3 DEF Timely

LEMMA SoloAlways ==
  ASSUME NEW c, CPUs = {c}
  PROVE  Spec => [](Timely /\ DeviceInv)
<1>1. Init => DeviceInv /\ SoloInv
  <2>1. Init => SoloInv
    BY Zenon DEF Init, SoloInv
  <2> QED BY Zenon, <2>1, DeviceInit
<1>2. DeviceInv /\ SoloInv => Timely
  BY Zenon, SoloTimely
<1>3. DeviceInv /\ SoloInv /\ [Next]_vars => SoloInv'
  <2> SUFFICES ASSUME DeviceInv, SoloInv, [Next]_vars PROVE SoloInv'
    BY Zenon
  <2>1. CASE UNCHANGED vars
    BY Zenon, <2>1 DEF vars, ring, reapers, SoloInv
  <2> QED BY Zenon, <2>1, SoloStep DEF DeviceInv
<1> QED BY <1>1, <1>2, <1>3, DeviceStep, PTL DEF Spec

(* With one processor the comment above CO_COBD_COMP_SLOTS is right: the   *)
(* producer is never within a lap of a claimed slot.                       *)
THEOREM OneProcessorNeverLapped ==
  ASSUME NEW c, CPUs = {c}
  PROVE  Spec => []ProducerNeverLaps
<1>1. Timely => ProducerNeverLaps
  BY Zenon DEF Timely
<1> QED BY <1>1, SoloAlways, PTL

(* So with one processor everything above holds without a condition. *)
THEOREM OneProcessorServed ==
  ASSUME NEW c, CPUs = {c}
  PROVE  Spec => ServiceImplemented /\ []PoolSuffices /\ ResyncLosesNothing
<1>1. Timely => NoWrap
  BY Zenon DEF Timely
<1> QED BY <1>1, SoloAlways, ServiceIsImplemented, PoolIsEnough, ResyncIsHarmless, PTL
=============================================================================
