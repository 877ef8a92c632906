------------------------------ MODULE CobdAsync ------------------------------
(***************************************************************************)
(* Asynchronous block I/O, both sides.                                     *)
(*                                                                         *)
(* Guest (drivers/block/cobd.c): cobd_queue_rq starts a blk-mq request and *)
(* crosses to the host; every processor reaps the completion ring.  Host   *)
(* (kernel/cobd_async.c, and the BLOCK_IO case of the crossing loop): a    *)
(* submission takes a work node and joins its unit's FIFO; one worker per  *)
(* unit transfers and posts {unit, tag, result} to the ring in guest .bss. *)
(*                                                                         *)
(* A request is its <<unit, tag>>.  The contents of a transfer are left    *)
(* out: it succeeds or fails.  phase is the history of the current use of  *)
(* a tag, which the code does not keep and the properties speak about.     *)
(***************************************************************************)
EXTENDS Integers, Sequences, FiniteSets

CONSTANTS NUnits,       \* CO_COBD_MAX_UNITS
          Depth,        \* queue_depth: tags of one unit
          Nodes,        \* CO_COBD_WORK_NODES
          Slots,        \* CO_COBD_COMP_SLOTS
          Width,        \* ring indices count modulo this (2^32 in the code)
          StartIndex,   \* where the ring indices stand when we look
          CPUs,         \* guest processors, each of which reaps
          WorkerCounts, \* how many worker threads the host may manage to start
          MaxIssue,     \* bound: requests issued in a behaviour
          None

Units == 0..(NUnits - 1)
Tags == 0..(Depth - 1)
Requests == Units \X Tags
UnitOf(r) == r[1]
Results == {"ok", "err"}

(* The code has 4 units of 16 tags, 128 nodes, 128 slots and 32-bit indices. *)
ASSUME SizesAssumption ==
  /\ NUnits \in Nat \ {0} /\ Depth \in Nat \ {0} /\ Nodes \in Nat
  /\ NUnits * Depth + NUnits <= Nodes
  /\ Slots \in Nat /\ NUnits * Depth < Slots
  /\ Width \in Nat /\ Width % Slots = 0 /\ Width > Slots
  /\ StartIndex \in 0..(Width - 1)
  /\ WorkerCounts \subseteq 0..NUnits
  /\ MaxIssue \in Nat
ASSUME NoneAssumption ==
  None \notin Requests /\ None \notin CPUs /\ None \notin Units /\ None \notin Results

VARIABLES
  guest,          \* "off" before the run, "up", "down" once its loops have ended
  enabled,        \* io->enabled: the guest submits asynchronously
  async_cobd,     \* vcpu_ctl.async_cobd: the host queues what it is given
  cobd_io_va,     \* is the ring's address known to the producer?
  stopping,
  free_nodes,     \* length of free_list
  fifo,           \* per unit, the queued requests, oldest first
  sub_wait,       \* per unit, the auto-reset event
  worker,         \* per unit, where its worker is: "none" when not started
  node,           \* per unit, the request its worker holds
  result,         \* per unit, what the transfer returned
  comp_lock,      \* holder: a unit's worker, or None
  comp_head, comp_tail, comp,
  rq,             \* blk-mq: "idle" or "started"
  phase, answer,  \* history: see BlockService
  cpu,            \* per processor, where its drain is
  tail, rec,      \* per processor, the index it read, the record it claimed
  boot,           \* the boot thread: start, stop and join
  issued

ring == <<comp_head, comp_tail, comp>>
hostq == <<free_nodes, fifo, sub_wait>>
workers == <<worker, node, result, comp_lock>>
reapers == <<cpu, tail, rec>>
ctl == <<enabled, async_cobd, cobd_io_va, stopping, boot>>
vars == <<guest, ctl, hostq, workers, ring, rq, phase, answer, reapers, issued>>

Record(r, res) == [req |-> r, result |-> res]
Zero == Record(<<0, 0>>, "ok")      \* .bss
Inc(i) == (i + 1) % Width
Gap(h, t) == (h + Width - t) % Width \* (u32)(head - tail)
SlotOf(i) == i % Slots

Init ==
  /\ guest = "off" /\ boot = "start"
  /\ enabled = FALSE /\ async_cobd = FALSE /\ cobd_io_va = FALSE /\ stopping = FALSE
  /\ free_nodes = 0
  /\ fifo = [u \in Units |-> <<>>]
  /\ sub_wait = [u \in Units |-> FALSE]
  /\ worker = [u \in Units |-> "none"]
  /\ node = [u \in Units |-> None]
  /\ result = [u \in Units |-> None]
  /\ comp_lock = None
  /\ comp_head = StartIndex /\ comp_tail = StartIndex
  /\ comp = [s \in 0..(Slots - 1) |-> Zero]
  /\ rq = [r \in Requests |-> "idle"]
  /\ phase = [r \in Requests |-> "free"]
  /\ answer = [r \in Requests |-> "none"]
  /\ cpu = [c \in CPUs |-> "out"]
  /\ tail = [c \in CPUs |-> StartIndex]
  /\ rec = [c \in CPUs |-> Zero]
  /\ issued = 0
-----------------------------------------------------------------------------
(* co_cobd_async_start.  The guest is told async is live before the first  *)
(* worker exists; n workers start, in unit order, before one fails.  With  *)
(* none, the host falls back to inline transfers.  --sync-cobd does not    *)
(* call it at all, and the write of enabled may itself be refused.         *)
co_cobd_async_start(n) ==
  /\ boot = "start"
  /\ n \in WorkerCounts
  /\ enabled' = TRUE
  /\ free_nodes' = Nodes
  /\ worker' = [u \in Units |-> IF u < n THEN "pop" ELSE "none"]
  /\ cobd_io_va' = (n > 0)
  /\ async_cobd' = (n > 0)
  /\ guest' = "up" /\ boot' = "run"
  /\ UNCHANGED <<stopping, fifo, sub_wait, node, result, comp_lock, ring, rq,
                 phase, answer, reapers, issued>>

SyncBoot ==
  /\ boot = "start"
  /\ guest' = "up" /\ boot' = "run"
  /\ UNCHANGED <<enabled, async_cobd, cobd_io_va, stopping, hostq, workers, ring,
                 rq, phase, answer, reapers, issued>>

(* Every crossing loop has ended: nothing of the guest runs any more. *)
GuestEnds ==
  /\ guest = "up"
  /\ guest' = "down"
  /\ UNCHANGED <<ctl, hostq, workers, ring, rq, phase, answer, reapers, issued>>

(* Slip: the workers are told and not woken. *)
AskWorkersAsleep ==
  /\ boot = "run" /\ guest = "down"
  /\ IF async_cobd
     THEN stopping' = TRUE /\ boot' = "join"
     ELSE boot' = "freed" /\ UNCHANGED stopping
  /\ UNCHANGED <<guest, enabled, async_cobd, cobd_io_va, hostq, workers,
                 ring, rq, phase, answer, reapers, issued>>

(* co_cobd_async_stop: ask, wake each worker, join each, retire the ring,  *)
(* forget the queues. *)
AskWorkers ==
  /\ boot = "run" /\ guest = "down"
  /\ IF async_cobd
     THEN /\ stopping' = TRUE
          /\ sub_wait' = [u \in Units |-> sub_wait[u] \/ worker[u] # "none"]
          /\ boot' = "join"
     ELSE boot' = "freed" /\ UNCHANGED <<stopping, sub_wait>>
  /\ UNCHANGED <<guest, enabled, async_cobd, cobd_io_va, free_nodes, fifo, workers,
                 ring, rq, phase, answer, reapers, issued>>

(* Slip: only the first unit's worker is joined. *)
JoinFirstWorker ==
  /\ boot = "join"
  /\ worker[0] \in {"none", "gone"}
  /\ comp_lock = None
  /\ cobd_io_va' = FALSE
  /\ fifo' = [u \in Units |-> <<>>]
  /\ free_nodes' = 0
  /\ boot' = "freed"
  /\ UNCHANGED <<guest, enabled, async_cobd, stopping, sub_wait, workers, ring, rq,
                 phase, answer, reapers, issued>>

JoinWorkers ==
  /\ boot = "join"
  /\ \A u \in Units : worker[u] \in {"none", "gone"}
  /\ comp_lock = None
  /\ cobd_io_va' = FALSE
  /\ fifo' = [u \in Units |-> <<>>]
  /\ free_nodes' = 0
  /\ boot' = "freed"
  /\ UNCHANGED <<guest, enabled, async_cobd, stopping, sub_wait, workers, ring, rq,
                 phase, answer, reapers, issued>>
-----------------------------------------------------------------------------
(* cobd_queue_rq for a read or write the block layer has a free tag for.   *)
(* (A flush, or an operation it does not know, ends where it starts.)      *)
Issuing(r) == guest = "up" /\ rq[r] = "idle" /\ issued < MaxIssue

(* Slip: the request is queued and its worker not woken. *)
SubmitAsleep(r) ==
  /\ Issuing(r) /\ enabled /\ async_cobd
  /\ free_nodes > 0
  /\ free_nodes' = free_nodes - 1
  /\ fifo' = [fifo EXCEPT ![UnitOf(r)] = Append(@, r)]
  /\ rq' = [rq EXCEPT ![r] = "started"]
  /\ phase' = [phase EXCEPT ![r] = "inflight"]
  /\ issued' = issued + 1
  /\ UNCHANGED <<guest, ctl, sub_wait, workers, ring, answer, reapers>>

(* The guest submits, co_cobd_async_submit takes a node, queues and wakes. *)
(* Without a free node the guest is told busy and the request goes back to *)
(* the block layer as it came: PoolSuffices shows that never happens.      *)
co_cobd_async_submit(r) ==
  /\ Issuing(r) /\ enabled /\ async_cobd
  /\ free_nodes > 0
  /\ free_nodes' = free_nodes - 1
  /\ fifo' = [fifo EXCEPT ![UnitOf(r)] = Append(@, r)]
  /\ sub_wait' = [sub_wait EXCEPT ![UnitOf(r)] = TRUE]
  /\ rq' = [rq EXCEPT ![r] = "started"]
  /\ phase' = [phase EXCEPT ![r] = "inflight"]
  /\ issued' = issued + 1
  /\ UNCHANGED <<guest, ctl, workers, ring, answer, reapers>>

(* A host without workers transfers inside the crossing.  params[56] is    *)
(* the transfer's result to the host; to a guest that has async enabled it *)
(* is accepted (0) or busy (1, and the request is queued again).           *)
QueueInline(r) ==
  /\ Issuing(r) /\ ~async_cobd
  /\ rq' = [rq EXCEPT ![r] = "started"]
  /\ phase' = [phase EXCEPT ![r] = "inflight"]
  /\ issued' = issued + 1
  /\ UNCHANGED <<guest, ctl, hostq, workers, ring, answer, reapers>>

InlineTransfer(r) ==
  /\ guest = "up" /\ ~async_cobd /\ phase[r] = "inflight"
  /\ \E res \in IF enabled THEN {"ok", "inflight"} ELSE Results :
       phase' = [phase EXCEPT ![r] = res]
  /\ UNCHANGED <<guest, ctl, hostq, workers, ring, rq, answer, reapers, issued>>

(* Only a guest that knows the transfer is synchronous ends it here. *)
InlineEnd(r) ==
  /\ guest = "up" /\ ~enabled /\ phase[r] \in Results
  /\ rq' = [rq EXCEPT ![r] = "idle"]
  /\ answer' = [answer EXCEPT ![r] = phase[r]]
  /\ phase' = [phase EXCEPT ![r] = "free"]
  /\ UNCHANGED <<guest, ctl, hostq, workers, ring, reapers, issued>>
-----------------------------------------------------------------------------
(* co_cobd_worker(u) *)
At(u, label) == worker[u] = label
WorkerGo(u, label) == worker' = [worker EXCEPT ![u] = label]

fifo_pop(u) ==
  /\ At(u, "pop")
  /\ IF fifo[u] # <<>>
     THEN /\ node' = [node EXCEPT ![u] = Head(fifo[u])]
          /\ fifo' = [fifo EXCEPT ![u] = Tail(@)]
          /\ WorkerGo(u, "transfer")
     ELSE WorkerGo(u, "check") /\ UNCHANGED <<node, fifo>>
  /\ UNCHANGED <<guest, ctl, free_nodes, sub_wait, result, comp_lock, ring, rq,
                 phase, answer, reapers, issued>>

CheckStopping(u) ==
  /\ At(u, "check")
  /\ WorkerGo(u, IF stopping THEN "gone" ELSE "sleep")
  /\ UNCHANGED <<guest, ctl, hostq, node, result, comp_lock, ring, rq, phase,
                 answer, reapers, issued>>

(* co_os_wait_sleep on an auto-reset event. *)
Wake(u) ==
  /\ At(u, "sleep") /\ sub_wait[u]
  /\ sub_wait' = [sub_wait EXCEPT ![u] = FALSE]
  /\ WorkerGo(u, "pop")
  /\ UNCHANGED <<guest, ctl, free_nodes, fifo, node, result, comp_lock, ring, rq,
                 phase, answer, reapers, issued>>

(* co_cobd_request_sg, on guest memory. *)
Transfer(u) ==
  /\ At(u, "transfer")
  /\ \E res \in Results :
       /\ result' = [result EXCEPT ![u] = res]
       /\ phase' = [phase EXCEPT ![node[u]] = res]
  /\ WorkerGo(u, "complete")
  /\ UNCHANGED <<guest, ctl, hostq, node, comp_lock, ring, rq, answer, reapers, issued>>

(* co_cobd_complete: the record, then the index that announces it, both    *)
(* under comp_lock.  A retired or full ring drops the record.              *)
WriteRecord(u) ==
  /\ At(u, "complete")
  /\ comp_lock = None
  /\ IF cobd_io_va /\ Gap(comp_head, comp_tail) < Slots
     THEN /\ comp_lock' = u
          /\ comp' = [comp EXCEPT ![SlotOf(comp_head)] = Record(node[u], result[u])]
          /\ WorkerGo(u, "announce")
     ELSE WorkerGo(u, "free") /\ UNCHANGED <<comp_lock, comp>>
  /\ UNCHANGED <<guest, ctl, hostq, node, result, comp_head, comp_tail, rq, phase,
                 answer, reapers, issued>>

(* Slip: the index moves on two slots. *)
AnnounceTwice(u) ==
  /\ At(u, "announce")
  /\ comp_head' = Inc(Inc(comp_head))
  /\ comp_lock' = None
  /\ WorkerGo(u, "free")
  /\ UNCHANGED <<guest, ctl, hostq, node, result, comp_tail, comp, rq, phase, answer,
                 reapers, issued>>

AnnounceRecord(u) ==
  /\ At(u, "announce")
  /\ comp_head' = Inc(comp_head)
  /\ comp_lock' = None
  /\ WorkerGo(u, "free")
  /\ UNCHANGED <<guest, ctl, hostq, node, result, comp_tail, comp, rq, phase, answer,
                 reapers, issued>>

(* Slips: a node that never returns to the pool, and one that returns twice. *)
NodeLeaked(u) ==
  /\ At(u, "free")
  /\ node' = [node EXCEPT ![u] = None]
  /\ result' = [result EXCEPT ![u] = None]
  /\ WorkerGo(u, "pop")
  /\ UNCHANGED <<guest, ctl, hostq, comp_lock, ring, rq, phase, answer,
                 reapers, issued>>

NodeFreedTwice(u) ==
  /\ At(u, "free")
  /\ free_nodes' = free_nodes + 2
  /\ node' = [node EXCEPT ![u] = None]
  /\ result' = [result EXCEPT ![u] = None]
  /\ WorkerGo(u, "pop")
  /\ UNCHANGED <<guest, ctl, fifo, sub_wait, comp_lock, ring, rq, phase, answer,
                 reapers, issued>>

node_free(u) ==
  /\ At(u, "free")
  /\ free_nodes' = free_nodes + 1
  /\ node' = [node EXCEPT ![u] = None]
  /\ result' = [result EXCEPT ![u] = None]
  /\ WorkerGo(u, "pop")
  /\ UNCHANGED <<guest, ctl, fifo, sub_wait, comp_lock, ring, rq, phase, answer,
                 reapers, issued>>
-----------------------------------------------------------------------------
(* co_cobd_drain_completions on processor c: the tick, the idle crossing   *)
(* and every return to user space call it. *)
CpuGo(c, label) == cpu' = [cpu EXCEPT ![c] = label]
CpuOut(c) == CpuGo(c, "out") /\ tail' = [tail EXCEPT ![c] = StartIndex]

ReadTail(c) ==
  /\ guest = "up" /\ cpu[c] = "out"
  /\ tail' = [tail EXCEPT ![c] = comp_tail]
  /\ CpuGo(c, "head")
  /\ UNCHANGED <<guest, ctl, hostq, workers, ring, rq, phase, answer, rec, issued>>

(* Nothing to reap: return.  A gap wider than the ring: resynchronise.     *)
ReadHead(c) ==
  /\ guest = "up" /\ cpu[c] = "head"
  /\ IF comp_head = tail[c] THEN CpuOut(c)
     ELSE /\ CpuGo(c, IF Gap(comp_head, tail[c]) > Slots THEN "resync" ELSE "claim")
          /\ UNCHANGED tail
  /\ UNCHANGED <<guest, ctl, hostq, workers, ring, rq, phase, answer, rec, issued>>

(* Slip: the tail is stored without a compare. *)
ResyncByStore(c) ==
  /\ guest = "up" /\ cpu[c] = "resync"
  /\ comp_tail' = comp_head
  /\ CpuOut(c)
  /\ UNCHANGED <<guest, ctl, hostq, workers, comp_head, comp, rq, phase, answer, rec,
                 issued>>

Resync(c) ==
  /\ guest = "up" /\ cpu[c] = "resync"
  /\ comp_tail' = IF comp_tail = tail[c] THEN comp_head ELSE comp_tail
  /\ CpuOut(c)
  /\ UNCHANGED <<guest, ctl, hostq, workers, comp_head, comp, rq, phase, answer, rec,
                 issued>>

(* Slips: the tail is stored without a compare, or not stored at all. *)
ClaimByStore(c) ==
  /\ guest = "up" /\ cpu[c] = "claim"
  /\ comp_tail' = Inc(tail[c]) /\ CpuGo(c, "read") /\ UNCHANGED tail
  /\ UNCHANGED <<guest, ctl, hostq, workers, comp_head, comp, rq, phase, answer, rec,
                 issued>>

ClaimNothing(c) ==
  /\ guest = "up" /\ cpu[c] = "claim"
  /\ IF comp_tail = tail[c] THEN CpuGo(c, "read") /\ UNCHANGED tail ELSE CpuOut(c)
  /\ UNCHANGED <<guest, ctl, hostq, workers, ring, rq, phase, answer, rec,
                 issued>>

(* cmpxchg(&comp_tail, tail, tail + 1): the slot is mine, or look again.   *)
ClaimSlot(c) ==
  /\ guest = "up" /\ cpu[c] = "claim"
  /\ IF comp_tail = tail[c]
     THEN comp_tail' = Inc(comp_tail) /\ CpuGo(c, "read") /\ UNCHANGED tail
     ELSE CpuOut(c) /\ UNCHANGED comp_tail
  /\ UNCHANGED <<guest, ctl, hostq, workers, comp_head, comp, rq, phase, answer, rec,
                 issued>>

(* The record is read after the claim, and the request tested ... *)
ReadRecord(c) ==
  /\ guest = "up" /\ cpu[c] = "read"
  /\ LET r == comp[SlotOf(tail[c])] IN
     IF rq[r.req] = "started"
     THEN rec' = [rec EXCEPT ![c] = r] /\ CpuGo(c, "end") /\ UNCHANGED tail
     ELSE CpuOut(c) /\ UNCHANGED rec
  /\ UNCHANGED <<guest, ctl, hostq, workers, ring, rq, phase, answer, issued>>

(* ... then blk_mq_end_request: the tag may be used again. *)
EndRequest(c) ==
  /\ guest = "up" /\ cpu[c] = "end"
  /\ rq' = [rq EXCEPT ![rec[c].req] = "idle"]
  /\ answer' = [answer EXCEPT ![rec[c].req] = rec[c].result]
  /\ phase' = [phase EXCEPT ![rec[c].req] = "free"]
  /\ rec' = [rec EXCEPT ![c] = Zero]
  /\ CpuOut(c)
  /\ UNCHANGED <<guest, ctl, hostq, workers, ring, issued>>
-----------------------------------------------------------------------------
WorkerStep(u) ==
  \/ fifo_pop(u) \/ CheckStopping(u) \/ Wake(u) \/ Transfer(u)
  \/ WriteRecord(u) \/ AnnounceRecord(u) \/ node_free(u)

Drain(c) ==
  \/ ReadTail(c) \/ ReadHead(c) \/ Resync(c) \/ ClaimSlot(c)
  \/ ReadRecord(c) \/ EndRequest(c)

InlineStep(r) == InlineTransfer(r) \/ InlineEnd(r)

Next ==
  \/ \E n \in WorkerCounts : co_cobd_async_start(n)
  \/ SyncBoot
  \/ GuestEnds \/ AskWorkers \/ JoinWorkers
  \/ \E r \in Requests : co_cobd_async_submit(r) \/ QueueInline(r) \/ InlineStep(r)
  \/ \E u \in Units : WorkerStep(u)
  \/ \E c \in CPUs : Drain(c)

Spec == Init /\ [][Next]_vars

(* Worker threads and the boot thread are scheduled by the host; every     *)
(* processor of a running guest reaches a drain point at each tick.        *)
FairSpec ==
  /\ Spec
  /\ WF_vars(AskWorkers) /\ WF_vars(JoinWorkers)
  /\ \A u \in Units : WF_vars(WorkerStep(u))
  /\ \A c \in CPUs : WF_vars(Drain(c))
  /\ \A r \in Requests : WF_vars(InlineStep(r))
-----------------------------------------------------------------------------
Records == [req : Requests, result : Results]

TypeOK ==
  /\ guest \in {"off", "up", "down"}
  /\ boot \in {"start", "run", "join", "freed"}
  /\ {enabled, async_cobd, cobd_io_va, stopping} \subseteq BOOLEAN
  /\ free_nodes \in 0..Nodes
  /\ fifo \in [Units -> Seq(Requests)]
  /\ sub_wait \in [Units -> BOOLEAN]
  /\ worker \in [Units -> {"none", "pop", "check", "sleep", "transfer", "complete",
                           "announce", "free", "gone"}]
  /\ node \in [Units -> Requests \cup {None}]
  /\ result \in [Units -> Results \cup {None}]
  /\ comp_lock \in Units \cup {None}
  /\ comp_head \in 0..(Width - 1) /\ comp_tail \in 0..(Width - 1)
  /\ comp \in [0..(Slots - 1) -> Records]
  /\ rq \in [Requests -> {"idle", "started"}]
  /\ phase \in [Requests -> {"free", "inflight"} \cup Results]
  /\ answer \in [Requests -> {"none"} \cup Results]
  /\ cpu \in [CPUs -> {"out", "head", "resync", "claim", "read", "end"}]
  /\ tail \in [CPUs -> 0..(Width - 1)]
  /\ rec \in [CPUs -> Records]
  /\ issued \in 0..MaxIssue

(* The comment above CO_COBD_COMP_SLOTS: "head - tail never exceeds 64 and *)
(* the producer is never within a lap of a claimed slot."                  *)
ProducerNeverLaps ==
  \A c \in CPUs : cpu[c] = "read" => Gap(comp_head, tail[c]) < Slots

(* "Resync rather than walk garbage": the gap is wider than the ring only  *)
(* to a processor whose tail is stale, so the exchange fails and no record *)
(* is skipped.  The tail passes a record when a processor takes it to read.*)
ResyncLosesNothing ==
  [][comp_tail' # comp_tail =>
       /\ comp_tail' = Inc(comp_tail)
       /\ \E c \in CPUs : tail[c] = comp_tail /\ cpu[c] = "claim" /\ cpu'[c] = "read"]_vars

(* A guest with a free tag is never told the queue is busy: a request's    *)
(* tag returns to the guest before its node returns to the pool, and the   *)
(* pool covers the difference.                                             *)
PoolSuffices ==
  guest = "up" /\ async_cobd /\ (\E r \in Requests : rq[r] = "idle") => free_nodes > 0

(* When co_cobd_async_stop returns and guest memory may be freed, no       *)
(* worker is left that could walk it, and the ring address is retired.     *)
TeardownSafe ==
  boot = "freed" =>
    /\ \A u \in Units : worker[u] \in {"none", "gone"} /\ node[u] = None
    /\ ~cobd_io_va

(* The device implements BlockService: every request is transferred once   *)
(* and ended once, after the transfer and with its result.                 *)
Service == INSTANCE BlockService WITH Requests <- Requests, phase <- phase,
                                     answer <- answer
ServiceImplemented == Service!Spec

(* Every request the guest issues is ended, as long as the guest runs: no  *)
(* wakeup of a worker is lost and no completion goes missing.              *)
RequestsEnd == \A r \in Requests : rq[r] = "started" ~> rq[r] = "idle" \/ guest = "down"

(* co_cobd_async_stop returns: every worker drains its queue, sees         *)
(* stopping and leaves, however it was sleeping.                           *)
StopReturns == guest = "down" ~> boot = "freed"
=============================================================================
