---------------------------- MODULE CobdAsyncRing ----------------------------
(***************************************************************************)
(* Proofs about CobdAsync, for every number of units, tags, nodes, slots   *)
(* and processors: the types, the teardown, and the indices of the         *)
(* completion ring.                                                        *)
(*                                                                         *)
(* A completion is safe as long as no processor sleeps in the middle of a  *)
(* drain while the producer goes round the ring (ProducerNeverLaps) or all *)
(* the way round the index (NoWrap).                                       *)
(***************************************************************************)
EXTENDS CobdAsync, TLAPS

Indices == 0..(Width - 1)
Holding == {"transfer", "complete", "announce", "free"}

(* The types, but for the count of free nodes: the host's variables, the   *)
(* ring's and the block layer's. *)
HostTypes ==
  /\ guest \in {"off", "up", "down"}
  /\ boot \in {"start", "run", "join", "freed"}
  /\ enabled \in BOOLEAN /\ async_cobd \in BOOLEAN
  /\ cobd_io_va \in BOOLEAN /\ stopping \in BOOLEAN
  /\ fifo \in [Units -> Seq(Requests)]
  /\ sub_wait \in [Units -> BOOLEAN]
  /\ worker \in [Units -> {"none", "pop", "check", "sleep", "transfer", "complete",
                           "announce", "free", "gone"}]
  /\ node \in [Units -> Requests \cup {None}]
  /\ result \in [Units -> Results \cup {None}]
  /\ comp_lock \in Units \cup {None}

RingTypes ==
  /\ comp_head \in Indices /\ comp_tail \in Indices
  /\ comp \in [0..(Slots - 1) -> Records]
  /\ cpu \in [CPUs -> {"out", "head", "resync", "claim", "read", "end"}]
  /\ tail \in [CPUs -> Indices]
  /\ rec \in [CPUs -> Records]

TagTypes ==
  /\ rq \in [Requests -> {"idle", "started"}]
  /\ phase \in [Requests -> {"free", "inflight"} \cup Results]
  /\ answer \in [Requests -> {"none"} \cup Results]
  /\ issued \in 0..MaxIssue

(* Where the boot thread, the guest and the workers can be together. *)
BootShape ==
  /\ boot = "start" <=> guest = "off"
  /\ guest = "up" => boot = "run"
  /\ async_cobd => enabled /\ boot # "start"
  /\ ~async_cobd => \A u \in Units : worker[u] = "none" /\ fifo[u] = <<>>
  /\ boot = "freed" => \A u \in Units : worker[u] \in {"none", "gone"}
  /\ cobd_io_va <=> async_cobd /\ boot # "freed"

(* What a worker holds, by where it is; comp_lock is its own at the index. *)
WorkerShape ==
  /\ \A u \in Units :
       /\ node[u] # None <=> worker[u] \in Holding
       /\ result[u] # None <=> worker[u] \in {"complete", "announce", "free"}
       /\ comp_lock = u <=> worker[u] = "announce"

HostInv == HostTypes /\ RingTypes /\ TagTypes /\ BootShape /\ WorkerShape
-----------------------------------------------------------------------------
(* No processor stops between its read of the tail and its exchange for    *)
(* as long as it takes the index to come round to the same value.          *)
NoWrap ==
  \A c \in CPUs :
    cpu[c] \in {"head", "resync", "claim"} => Gap(comp_head, tail[c]) < Width - 1

(* The producer stays within the ring, and a processor's tail is the ring's *)
(* or behind it, by what the processor has seen.                           *)
IndexInv ==
  /\ Gap(comp_head, comp_tail) <= Slots
  /\ ~async_cobd => comp_head = comp_tail
  /\ \A u \in Units : worker[u] = "announce" => Gap(comp_head, comp_tail) < Slots
  /\ \A c \in CPUs :
       /\ cpu[c] \in {"head", "resync", "claim"} =>
            Gap(comp_head, comp_tail) <= Gap(comp_head, tail[c])
       /\ cpu[c] = "resync" => Gap(comp_head, tail[c]) > Slots
       /\ cpu[c] = "claim" => comp_head # tail[c]
-----------------------------------------------------------------------------
(* The positions of records that are not read yet: between tail and head,  *)
(* and those a processor has claimed.                                      *)
Live(i) == Gap(comp_head, i) \in 1..Gap(comp_head, comp_tail)
Claimed(i) == \E c \in CPUs : cpu[c] = "read" /\ tail[c] = i
Pending(i) == Live(i) \/ Claimed(i)
ReqAt(i) == comp[SlotOf(i)].req

Reading ==
  /\ \A c \in CPUs : cpu[c] = "read" =>
       Gap(comp_head, comp_tail) < Gap(comp_head, tail[c])
  /\ \A c, d \in CPUs : cpu[c] = "read" /\ cpu[d] = "read" /\ c # d => tail[c] # tail[d]
  /\ ~async_cobd =>
       \A c \in CPUs : cpu[c] \in {"out", "head"} /\ (cpu[c] = "head" => tail[c] = comp_tail)

(* A request that the block layer has given out is in flight or done.      *)
TagsInv == \A r \in Requests : rq[r] = "idle" <=> phase[r] = "free"

(* Queued requests are in flight and queued once, with their own unit; so  *)
(* is the request a worker is about to transfer.                           *)
QueueInv ==
  \A u \in Units :
    /\ \A i \in 1..Len(fifo[u]) : UnitOf(fifo[u][i]) = u /\ phase[fifo[u][i]] = "inflight"
    /\ \A i, j \in 1..Len(fifo[u]) : fifo[u][i] = fifo[u][j] => i = j
    /\ worker[u] \in Holding => UnitOf(node[u]) = u
    /\ worker[u] = "transfer" =>
         /\ phase[node[u]] = "inflight"
         /\ \A i \in 1..Len(fifo[u]) : fifo[u][i] # node[u]
    /\ worker[u] \in {"complete", "announce"} => phase[node[u]] = result[u]

(* The answers on their way: a transferred request is in the hands of one  *)
(* worker, in one pending record, or with one processor, and all carry the *)
(* transfer's result.                                                      *)
RecordInv ==
  /\ \A i \in Indices : Pending(i) => phase[ReqAt(i)] = comp[SlotOf(i)].result
  /\ \A i, j \in Indices : Pending(i) /\ Pending(j) /\ ReqAt(i) = ReqAt(j) => i = j
  /\ \A u \in Units : worker[u] = "announce" =>
       comp[SlotOf(comp_head)] = Record(node[u], result[u])
  /\ \A u \in Units : worker[u] \in {"complete", "announce"} =>
       \A i \in Indices : Pending(i) => ReqAt(i) # node[u]

EndInv ==
  /\ \A c \in CPUs : cpu[c] = "end" => phase[rec[c].req] = rec[c].result
  /\ \A c, d \in CPUs :
       cpu[c] = "end" /\ cpu[d] = "end" /\ rec[c].req = rec[d].req => c = d
  /\ \A c \in CPUs : cpu[c] = "end" =>
       /\ \A i \in Indices : Pending(i) => ReqAt(i) # rec[c].req
       /\ \A u \in Units : worker[u] \in {"complete", "announce"} => node[u] # rec[c].req

AnswerInv == Reading /\ TagsInv /\ QueueInv /\ RecordInv /\ EndInv
-----------------------------------------------------------------------------
(* Ring indices: the difference and the successor without the modulus.     *)
LEMMA SizeFacts ==
  /\ NUnits \in Nat /\ NUnits > 0 /\ Depth \in Nat /\ Depth > 0
  /\ Slots \in Nat /\ Slots > 1
  /\ Width \in Nat /\ 2 * Slots <= Width
  /\ StartIndex \in Indices
<1>1. NUnits * Depth >= 1
  BY SizesAssumption
<1>2. Slots \in Nat /\ Slots > 1
  BY <1>1, SizesAssumption
<1>3. 2 * Slots <= Width
  <2>1. Width = Slots * (Width \div Slots) + (Width % Slots) /\ Width \div Slots \in Nat
    BY <1>2, SizesAssumption
  <2> DEFINE q == Width \div Slots
  <2> HIDE DEF q
  <2>3. Width = Slots * q /\ q \in Nat
    BY <2>1, <1>2, SizesAssumption DEF q
  <2>2. q >= 2
    BY <2>3, <1>2, SizesAssumption
  <2> QED BY <2>3, <2>2, <1>2
<1> QED BY <1>2, <1>3, SizesAssumption DEF Indices

LEMMA GapIs ==
  ASSUME NEW h \in Indices, NEW t \in Indices
  PROVE  /\ Gap(h, t) \in Indices
         /\ Gap(h, t) = IF t <= h THEN h - t ELSE h - t + Width
  BY SizeFacts DEF Gap, Indices

LEMMA IncIs ==
  ASSUME NEW i \in Indices
  PROVE  /\ Inc(i) \in Indices
         /\ Inc(i) = IF i = Width - 1 THEN 0 ELSE i + 1
  BY SizeFacts DEF Inc, Indices

LEMMA SlotIs == ASSUME NEW i \in Indices PROVE SlotOf(i) \in 0..(Slots - 1)
  BY SizeFacts DEF SlotOf, Indices

(* Two positions that share a slot are a whole ring apart. *)
LEMMA SlotsApart ==
  ASSUME NEW i \in Indices, NEW j \in Indices, i # j, SlotOf(i) = SlotOf(j)
  PROVE  Gap(i, j) >= Slots
<1>1. /\ i = Slots * (i \div Slots) + SlotOf(i) /\ i \div Slots \in Nat
      /\ j = Slots * (j \div Slots) + SlotOf(j) /\ j \div Slots \in Nat
      /\ SlotOf(i) \in 0..(Slots - 1) /\ SlotOf(j) \in 0..(Slots - 1)
  BY SizeFacts DEF SlotOf, Indices
<1>2. Width = Slots * (Width \div Slots) /\ Width \div Slots \in Nat
  BY SizeFacts, SizesAssumption
<1>3. PICK a \in Nat, b \in Nat, w \in Nat :
        i = Slots * a + SlotOf(i) /\ j = Slots * b + SlotOf(j) /\ Width = Slots * w
  BY Zenon, <1>1, <1>2
<1>4. \A x, y, z \in Int : x * y - x * z = x * (y - z) /\ x * y + x * z = x * (y + z)
  OBVIOUS
<1>5. i - j = Slots * (a - b) /\ i - j + Width = Slots * (a - b + w)
  <2>0. SlotOf(i) \in Int /\ Slots * a \in Int /\ Slots * b \in Int
    BY SlotIs, SizeFacts
  <2>1. i - j = Slots * a - Slots * b
    BY <1>3, <2>0
  <2>2. Slots * a - Slots * b = Slots * (a - b) /\ a - b \in Int
    BY <1>4, SizeFacts
  <2>3. Slots * (a - b) + Slots * w = Slots * (a - b + w)
    BY <1>4, <2>2, SizeFacts
  <2> QED BY Zenon, <2>1, <2>2, <2>3, <1>3
<1>6. \A k \in Int : Slots * k > 0 => Slots * k >= Slots
  <2> SUFFICES ASSUME NEW k \in Int, Slots * k > 0 PROVE Slots * k >= Slots
    BY Zenon
  <2>1. k >= 1
    BY SizeFacts
  <2> QED BY <2>1, SizeFacts
<1>7. Gap(i, j) > 0 /\ (Gap(i, j) = i - j \/ Gap(i, j) = i - j + Width)
  <2>1. Gap(i, j) = IF j <= i THEN i - j ELSE i - j + Width
    BY Zenon, GapIs
  <2> QED BY <2>1, SizeFacts DEF Indices
<1> QED BY <1>5, <1>6, <1>7

(* Sequences. *)
LEMMA SeqElements ==
  ASSUME NEW S, NEW s \in Seq(S)
  PROVE  Len(s) \in Nat /\ \A i \in 1..Len(s) : s[i] \in S
  OBVIOUS
LEMMA SeqTail ==
  ASSUME NEW S, NEW s \in Seq(S), s # <<>>
  PROVE  /\ Len(s) > 0 /\ Head(s) = s[1] /\ Head(s) \in S
         /\ Tail(s) \in Seq(S) /\ Len(Tail(s)) = Len(s) - 1
         /\ \A i \in 1..Len(Tail(s)) : Tail(s)[i] = s[i + 1]
  OBVIOUS
LEMMA SeqAppend ==
  ASSUME NEW S, NEW s \in Seq(S), NEW e \in S
  PROVE  /\ Append(s, e) \in Seq(S) /\ Len(Append(s, e)) = Len(s) + 1
         /\ \A i \in 1..Len(Append(s, e)) :
              \/ i \in 1..Len(s) /\ Append(s, e)[i] = s[i]
              \/ i = Len(s) + 1 /\ Append(s, e)[i] = e
  OBVIOUS

LEMMA RequestFacts ==
  /\ \A r \in Requests : UnitOf(r) \in Units
  /\ 0 \in Units /\ <<0, 0>> \in Requests
  BY SizeFacts DEF Requests, Units, Tags, UnitOf

-----------------------------------------------------------------------------
(* Types, action by action. *)
LEMMA ZeroIsRecord == Zero \in Records
  BY Zenon, RequestFacts DEF Zero, Record, Records, Results

LEMMA HostTypesStep ==
  ASSUME HostInv, Next
  PROVE  HostTypes'
<1>a. HostTypes /\ RingTypes /\ TagTypes /\ WorkerShape
  BY Zenon DEF HostInv
<1> USE DEF HostTypes, ctl, hostq, workers, At, WorkerGo
<1>1. ASSUME NEW n \in WorkerCounts, co_cobd_async_start(n) PROVE HostTypes'
  <2>1. (n > 0) \in BOOLEAN
    OBVIOUS
  <2> QED BY Zenon, <1>1, <1>a, <2>1 DEF co_cobd_async_start
<1>2. CASE SyncBoot
  BY Zenon, <1>2, <1>a DEF SyncBoot
<1>3. CASE GuestEnds
  BY Zenon, <1>3, <1>a DEF GuestEnds
<1>4. CASE AskWorkers
  <2>1. sub_wait' \in [Units -> BOOLEAN]
    BY <1>4, <1>a, Zenon DEF AskWorkers
  <2> QED BY Zenon, <1>4, <1>a, <2>1 DEF AskWorkers
<1>5. CASE JoinWorkers
  <2>1. <<>> \in Seq(Requests)
    OBVIOUS
  <2> QED BY Zenon, <1>5, <1>a, <2>1 DEF JoinWorkers
<1>6. ASSUME NEW r \in Requests, co_cobd_async_submit(r) PROVE HostTypes'
  <2>1. UnitOf(r) \in Units
    BY Zenon, RequestFacts
  <2>2. fifo' \in [Units -> Seq(Requests)] /\ sub_wait' \in [Units -> BOOLEAN]
    BY <1>6, <1>a, <2>1 DEF co_cobd_async_submit
  <2> QED BY Zenon, <1>6, <1>a, <2>2 DEF co_cobd_async_submit
<1>7. ASSUME NEW r \in Requests, QueueInline(r) \/ InlineStep(r) PROVE HostTypes'
  BY Zenon, <1>7, <1>a DEF QueueInline, InlineStep, InlineTransfer, InlineEnd
<1>8. ASSUME NEW u \in Units, fifo_pop(u) PROVE HostTypes'
  <2>1. CASE fifo[u] = <<>>
    BY Zenon, <1>8, <1>a, <2>1 DEF fifo_pop
  <2>2. CASE fifo[u] # <<>>
    <3>1. Head(fifo[u]) \in Requests /\ Tail(fifo[u]) \in Seq(Requests)
      BY Zenon, <1>a, <2>2, SeqTail
    <3> QED BY Zenon, <1>8, <1>a, <2>2, <3>1 DEF fifo_pop
  <2> QED BY Zenon, <2>1, <2>2
<1>9. ASSUME NEW u \in Units, node_free(u) PROVE HostTypes'
  BY Zenon, <1>9, <1>a DEF node_free
<1>10. ASSUME NEW u \in Units, CheckStopping(u) \/ Wake(u) PROVE HostTypes'
  BY Zenon, <1>10, <1>a DEF CheckStopping, Wake
<1>11. ASSUME NEW u \in Units, Transfer(u) PROVE HostTypes'
  BY Zenon, <1>11, <1>a DEF Transfer
<1>12. ASSUME NEW u \in Units, WriteRecord(u) \/ AnnounceRecord(u) PROVE HostTypes'
  BY Zenon, <1>12, <1>a DEF WriteRecord, AnnounceRecord
<1>13. ASSUME NEW c \in CPUs, Drain(c) PROVE HostTypes'
  BY Zenon, <1>13, <1>a DEF Drain, ReadTail, ReadHead, Resync, ClaimSlot, ReadRecord, EndRequest
<1> QED
  BY Zenon, <1>1, <1>2, <1>3, <1>4, <1>5, <1>6, <1>7, <1>8, <1>9, <1>10, <1>11, <1>12, <1>13
  DEF Next, WorkerStep

LEMMA RingTypesStep ==
  ASSUME HostInv, Next
  PROVE  RingTypes'
<1>a. HostTypes /\ RingTypes /\ TagTypes /\ WorkerShape
  BY Zenon DEF HostInv
<1>b. StartIndex \in Indices
  BY Zenon, SizeFacts
<1>1. CASE UNCHANGED <<ring, reapers>>
  BY Zenon, <1>1, <1>a DEF RingTypes, ring, reapers
<1>2. ASSUME NEW u \in Units, WriteRecord(u) PROVE RingTypes'
  <2>1. node[u] \in Requests /\ result[u] \in Results
    BY Zenon, <1>2, <1>a DEF WorkerShape, HostTypes, WriteRecord, At, Holding
  <2>2. Record(node[u], result[u]) \in Records
    BY Zenon, <2>1 DEF Record, Records
  <2>3. SlotOf(comp_head) \in 0..(Slots - 1)
    BY Zenon, <1>a, SlotIs DEF RingTypes
  <2> QED BY Zenon, <1>2, <1>a, <2>2, <2>3 DEF WriteRecord, RingTypes, reapers
<1>3. ASSUME NEW u \in Units, AnnounceRecord(u) PROVE RingTypes'
  BY Zenon, <1>3, <1>a, IncIs DEF AnnounceRecord, RingTypes, reapers
<1>4. ASSUME NEW c \in CPUs, ReadTail(c) \/ ReadHead(c) PROVE RingTypes'
  BY Zenon, <1>4, <1>a, <1>b DEF ReadTail, ReadHead, RingTypes, ring, CpuGo, CpuOut
<1>5. ASSUME NEW c \in CPUs, Resync(c) \/ ClaimSlot(c) PROVE RingTypes'
  BY Zenon, <1>5, <1>a, <1>b, IncIs DEF Resync, ClaimSlot, RingTypes, CpuGo, CpuOut
<1>6. ASSUME NEW c \in CPUs, ReadRecord(c) PROVE RingTypes'
  <2>1. comp[SlotOf(tail[c])] \in Records
    BY Zenon, <1>a, SlotIs DEF RingTypes
  <2> QED BY Zenon, <1>6, <1>a, <1>b, <2>1 DEF ReadRecord, RingTypes, ring, CpuGo, CpuOut
<1>7. ASSUME NEW c \in CPUs, EndRequest(c) PROVE RingTypes'
  BY Zenon, <1>7, <1>a, <1>b, ZeroIsRecord DEF EndRequest, RingTypes, ring, CpuGo, CpuOut
<1>8. ASSUME NEW u \in Units, CheckStopping(u) \/ Wake(u) \/ Transfer(u)
                              \/ fifo_pop(u) \/ node_free(u)
      PROVE  UNCHANGED <<ring, reapers>>
  BY Zenon, <1>8 DEF CheckStopping, Wake, Transfer, fifo_pop, node_free
<1>9. ASSUME NEW r \in Requests, co_cobd_async_submit(r) \/ QueueInline(r) \/ InlineStep(r)
      PROVE  UNCHANGED <<ring, reapers>>
  BY Zenon, <1>9 DEF co_cobd_async_submit, QueueInline, InlineStep, InlineTransfer, InlineEnd
<1>10. ASSUME (\E n \in WorkerCounts : co_cobd_async_start(n))
              \/ SyncBoot \/ GuestEnds \/ AskWorkers \/ JoinWorkers
       PROVE  UNCHANGED <<ring, reapers>>
  BY Zenon, <1>10 DEF co_cobd_async_start, SyncBoot, GuestEnds, AskWorkers, JoinWorkers
<1> QED
  BY Zenon, <1>1, <1>2, <1>3, <1>4, <1>5, <1>6, <1>7, <1>8, <1>9, <1>10
  DEF Next, WorkerStep, Drain

LEMMA TagTypesStep ==
  ASSUME HostInv, Next
  PROVE  TagTypes'
<1>a. HostTypes /\ RingTypes /\ TagTypes /\ WorkerShape
  BY Zenon DEF HostInv
<1>b. MaxIssue \in Nat
  BY Zenon, SizesAssumption
<1>1. CASE UNCHANGED <<rq, phase, answer, issued>>
  BY Zenon, <1>1, <1>a DEF TagTypes
<1>2. ASSUME NEW r \in Requests, co_cobd_async_submit(r) \/ QueueInline(r) PROVE TagTypes'
  BY <1>2, <1>a, <1>b DEF co_cobd_async_submit, QueueInline, Issuing, TagTypes
<1>3. ASSUME NEW r \in Requests, InlineStep(r) PROVE TagTypes'
  BY Zenon, <1>3, <1>a DEF InlineStep, InlineTransfer, InlineEnd, TagTypes, Results
<1>4. ASSUME NEW u \in Units, Transfer(u) PROVE TagTypes'
  BY Zenon, <1>4, <1>a DEF Transfer, TagTypes
<1>5. ASSUME NEW c \in CPUs, EndRequest(c) PROVE TagTypes'
  <2>1. rec[c].req \in Requests /\ rec[c].result \in Results
    BY Zenon, <1>a DEF RingTypes, Records
  <2> QED BY Zenon, <1>5, <1>a, <2>1 DEF EndRequest, TagTypes
<1>6. ASSUME NEW u \in Units, CheckStopping(u) \/ Wake(u) \/ WriteRecord(u)
                              \/ AnnounceRecord(u) \/ fifo_pop(u) \/ node_free(u)
      PROVE  UNCHANGED <<rq, phase, answer, issued>>
  BY Zenon, <1>6 DEF CheckStopping, Wake, WriteRecord, AnnounceRecord, fifo_pop, node_free
<1>7. ASSUME NEW c \in CPUs, ReadTail(c) \/ ReadHead(c) \/ Resync(c) \/ ClaimSlot(c)
                             \/ ReadRecord(c)
      PROVE  UNCHANGED <<rq, phase, answer, issued>>
  BY Zenon, <1>7 DEF ReadTail, ReadHead, Resync, ClaimSlot, ReadRecord
<1>8. ASSUME (\E n \in WorkerCounts : co_cobd_async_start(n))
              \/ SyncBoot \/ GuestEnds \/ AskWorkers \/ JoinWorkers
       PROVE  UNCHANGED <<rq, phase, answer, issued>>
  BY Zenon, <1>8 DEF co_cobd_async_start, SyncBoot, GuestEnds, AskWorkers, JoinWorkers
<1> QED
  BY Zenon, <1>1, <1>2, <1>3, <1>4, <1>5, <1>6, <1>7, <1>8 DEF Next, WorkerStep, Drain
-----------------------------------------------------------------------------
(* Where the boot thread, the guest and the workers are, action by action. *)
LEMMA ShapeStep ==
  ASSUME HostInv, Next
  PROVE  BootShape' /\ WorkerShape'
<1>a. HostTypes /\ BootShape /\ WorkerShape
  BY Zenon DEF HostInv
<1>b. NUnits \in Nat /\ NUnits > 0 /\ WorkerCounts \subseteq Nat
  BY SizesAssumption
<1>c. None \notin Units /\ None \notin Requests /\ None \notin Results
  BY Zenon, NoneAssumption
<1> USE DEF ctl, hostq, workers, At, WorkerGo
<1>1. ASSUME NEW n \in WorkerCounts, co_cobd_async_start(n) PROVE BootShape' /\ WorkerShape'
  <2>1. \A u \in Units : worker[u] = "none" /\ fifo[u] = <<>>
    BY Zenon, <1>1, <1>a DEF co_cobd_async_start, BootShape
  <2>2. n = 0 => \A u \in Units : worker'[u] = "none"
    BY <1>1, <1>b DEF co_cobd_async_start, Units
  <2>3. \A u \in Units : worker'[u] \in {"none", "pop"}
    BY Zenon, <1>1 DEF co_cobd_async_start
  <2>4. BootShape'
    <3>1. /\ guest' = "up" /\ boot' = "run" /\ enabled' = TRUE /\ fifo' = fifo
          /\ cobd_io_va' = (n > 0) /\ async_cobd' = (n > 0)
      BY Zenon, <1>1 DEF co_cobd_async_start
    <3>2. ~(n > 0) => n = 0
      BY <1>b
    <3> QED BY Zenon, <3>1, <3>2, <2>1, <2>2 DEF BootShape
  <2>5. WorkerShape'
    BY Zenon, <1>1, <1>a, <2>1, <2>3 DEF co_cobd_async_start, WorkerShape, Holding
  <2> QED BY Zenon, <2>4, <2>5
<1>2. CASE SyncBoot
  BY Zenon, <1>2, <1>a DEF SyncBoot, BootShape, WorkerShape
<1>3. CASE GuestEnds
  BY Zenon, <1>3, <1>a DEF GuestEnds, BootShape, WorkerShape
<1>4. CASE AskWorkers
  BY Zenon, <1>4, <1>a DEF AskWorkers, BootShape, WorkerShape
<1>5. CASE JoinWorkers
  BY Zenon, <1>5, <1>a DEF JoinWorkers, BootShape, WorkerShape
<1>6. ASSUME NEW r \in Requests, co_cobd_async_submit(r) PROVE BootShape' /\ WorkerShape'
  BY Zenon, <1>6, <1>a DEF co_cobd_async_submit, BootShape, WorkerShape
<1>7. ASSUME NEW r \in Requests, QueueInline(r) \/ InlineStep(r)
      PROVE  BootShape' /\ WorkerShape'
  BY <1>7, <1>a DEF QueueInline, InlineStep, InlineTransfer, InlineEnd, BootShape, WorkerShape
<1>8. ASSUME NEW u \in Units, WorkerStep(u) PROVE BootShape'
  <2>1. /\ UNCHANGED ctl /\ UNCHANGED guest
        /\ worker[u] \notin {"none", "gone"}
        /\ \A v \in Units : v # u => worker'[v] = worker[v]
    BY Zenon, <1>8, <1>a DEF WorkerStep, fifo_pop, CheckStopping, Wake, Transfer, WriteRecord,
                      AnnounceRecord, node_free, HostTypes
  <2>2. async_cobd /\ boot # "freed"
    BY Zenon, <2>1, <1>a DEF BootShape
  <2> QED BY Zenon, <2>1, <2>2, <1>a DEF BootShape
<1>9. ASSUME NEW u \in Units, fifo_pop(u) PROVE WorkerShape'
  <2>1. fifo[u] # <<>> => Head(fifo[u]) \in Requests
    BY Zenon, <1>a, SeqTail DEF HostTypes
  <2> QED BY ZenonT(40), <1>9, <1>a, <1>c, <2>1 DEF fifo_pop, WorkerShape, HostTypes, Holding
<1>10. ASSUME NEW u \in Units, CheckStopping(u) \/ Wake(u) PROVE WorkerShape'
  BY <1>10, <1>a DEF CheckStopping, Wake, WorkerShape, HostTypes, Holding
<1>11. ASSUME NEW u \in Units, Transfer(u) PROVE WorkerShape'
  BY Zenon, <1>11, <1>a, <1>c DEF Transfer, WorkerShape, HostTypes, Holding
<1>12. ASSUME NEW u \in Units, WriteRecord(u) PROVE WorkerShape'
  BY <1>12, <1>a, <1>c DEF WriteRecord, WorkerShape, HostTypes, Holding
<1>13. ASSUME NEW u \in Units, AnnounceRecord(u) PROVE WorkerShape'
  BY Zenon, <1>13, <1>a, <1>c DEF AnnounceRecord, WorkerShape, HostTypes, Holding
<1>14. ASSUME NEW u \in Units, node_free(u) PROVE WorkerShape'
  BY Zenon, <1>14, <1>a, <1>c DEF node_free, WorkerShape, HostTypes, Holding
<1>15. ASSUME NEW c \in CPUs, Drain(c) PROVE BootShape' /\ WorkerShape'
  BY <1>15, <1>a DEF Drain, ReadTail, ReadHead, Resync, ClaimSlot, ReadRecord, EndRequest,
                     BootShape, WorkerShape
<1> QED
  BY Zenon, <1>1, <1>2, <1>3, <1>4, <1>5, <1>6, <1>7, <1>8, <1>9, <1>10, <1>11, <1>12, <1>13,
     <1>14, <1>15
  DEF Next, WorkerStep

LEMMA HostInit == Init => HostInv
<1> SUFFICES ASSUME Init PROVE HostInv
  BY Zenon
<1>0. <<>> \in Seq(Requests)
  OBVIOUS
<1>1. HostTypes /\ TagTypes
  <2>1. TagTypes
    BY SizesAssumption DEF Init, TagTypes
  <2>2. fifo \in [Units -> Seq(Requests)]
    BY Zenon, <1>0 DEF Init
  <2> QED BY Zenon, <2>1, <2>2 DEF Init, HostTypes
<1>2. RingTypes
  BY Zenon, SizeFacts, ZeroIsRecord DEF Init, RingTypes
<1>5. BootShape /\ WorkerShape
  BY Zenon, NoneAssumption DEF Init, BootShape, WorkerShape, Holding
<1> QED BY Zenon, <1>1, <1>2, <1>5 DEF HostInv

LEMMA HostStep == HostInv /\ [Next]_vars => HostInv'
<1> SUFFICES ASSUME HostInv, [Next]_vars PROVE HostInv'
  BY Zenon
<1>1. CASE Next
  BY Zenon, <1>1, HostTypesStep, RingTypesStep, TagTypesStep, ShapeStep DEF HostInv
<1>2. CASE UNCHANGED vars
  <2>1. HostTypes' /\ RingTypes' /\ TagTypes'
    BY Zenon, <1>2 DEF HostInv, HostTypes, RingTypes, TagTypes, vars, ctl, hostq, workers, ring,
                reapers
  <2>2. BootShape' /\ WorkerShape'
    BY Zenon, <1>2 DEF HostInv, BootShape, WorkerShape, vars, ctl, hostq, workers
  <2> QED BY Zenon, <2>1, <2>2 DEF HostInv
<1> QED BY Zenon, <1>1, <1>2

LEMMA HostAlways == Spec => []HostInv
  BY HostInit, HostStep, PTL DEF Spec

(* When co_cobd_async_stop has returned no worker can touch guest memory   *)
(* any more and the address of the ring is retired.                        *)
THEOREM TeardownIsSafe == Spec => []TeardownSafe
<1>1. HostInv => TeardownSafe
  BY Zenon DEF HostInv, BootShape, WorkerShape, TeardownSafe, Holding
<1> QED BY <1>1, HostAlways, PTL
-----------------------------------------------------------------------------
(* What the distance of two indices does when one of them moves on. *)
LEMMA GapFacts ==
  ASSUME NEW h \in Indices, NEW t \in Indices
  PROVE  /\ Gap(h, t) \in Nat /\ Gap(h, t) < Width
         /\ Gap(h, t) = 0 <=> h = t
         /\ Gap(h, t) < Width - 1 => Gap(Inc(h), t) = Gap(h, t) + 1
         /\ h # t => Gap(h, Inc(t)) = Gap(h, t) - 1
<1>1. Gap(h, t) = IF t <= h THEN h - t ELSE h - t + Width
  BY Zenon, GapIs
<1>2. Inc(h) \in Indices /\ Inc(h) = IF h = Width - 1 THEN 0 ELSE h + 1
  BY Zenon, IncIs
<1>3. Inc(t) \in Indices /\ Inc(t) = IF t = Width - 1 THEN 0 ELSE t + 1
  BY Zenon, IncIs
<1>4. Gap(Inc(h), t) = IF t <= Inc(h) THEN Inc(h) - t ELSE Inc(h) - t + Width
  BY Zenon, <1>2, GapIs
<1>5. Gap(h, Inc(t)) = IF Inc(t) <= h THEN h - Inc(t) ELSE h - Inc(t) + Width
  BY Zenon, <1>3, GapIs
<1>6. Width \in Nat /\ h \in 0..(Width - 1) /\ t \in 0..(Width - 1)
  BY Zenon, SizeFacts DEF Indices
<1> QED BY <1>1, <1>2, <1>3, <1>4, <1>5, <1>6

LEMMA GapInjective ==
  ASSUME NEW h \in Indices, NEW i \in Indices, NEW j \in Indices, Gap(h, i) = Gap(h, j)
  PROVE  i = j
<1>1. Gap(h, i) = h - i \/ Gap(h, i) = h - i + Width
  BY Zenon, GapIs
<1>2. Gap(h, j) = h - j \/ Gap(h, j) = h - j + Width
  BY Zenon, GapIs
<1>3. /\ Width \in Int /\ h \in Int /\ i \in Int /\ j \in Int
      /\ i < Width /\ j < Width /\ i >= 0 /\ j >= 0
  BY SizeFacts DEF Indices
<1> QED BY <1>1, <1>2, <1>3

LEMMA GapFull ==
  ASSUME NEW h \in Indices, NEW t \in Indices, Gap(h, t) = Width - 1
  PROVE  t = Inc(h)
<1>1. (Gap(h, t) = h - t /\ t <= h) \/ Gap(h, t) = h - t + Width
  BY Zenon, GapIs
<1>2. (Inc(h) = 0 /\ h = Width - 1) \/ (Inc(h) = h + 1 /\ h # Width - 1)
  BY Zenon, IncIs
<1>3. /\ Width \in Int /\ h \in Int /\ t \in Int /\ Width >= 2
      /\ h < Width /\ t < Width /\ h >= 0 /\ t >= 0
  BY SizeFacts DEF Indices
<1> QED BY <1>1, <1>2, <1>3

(* The ring's indices, as long as none comes round under a waiting         *)
(* processor. *)
LEMMA IndexStep ==
  ASSUME HostInv, IndexInv, NoWrap, Next
  PROVE  IndexInv'
<1>a. HostTypes /\ RingTypes /\ BootShape /\ WorkerShape
  BY Zenon DEF HostInv
<1>b. Slots \in Nat /\ Slots > 1 /\ Width \in Nat /\ 2 * Slots <= Width
  BY Zenon, SizeFacts
<1>c. comp_head \in Indices /\ comp_tail \in Indices /\ \A c \in CPUs : tail[c] \in Indices
  BY Zenon, <1>a DEF RingTypes
<1>d. cpu \in [CPUs -> {"out", "head", "resync", "claim", "read", "end"}]
  BY Zenon, <1>a DEF RingTypes
<1>e. worker \in [Units -> {"none", "pop", "check", "sleep", "transfer", "complete",
                            "announce", "free", "gone"}]
  BY Zenon, <1>a DEF HostTypes
<1>g. tail \in [CPUs -> Indices]
  BY Zenon, <1>a DEF RingTypes
<1>h. /\ Gap(comp_head, comp_tail) \in Nat
      /\ \A c \in CPUs : Gap(comp_head, tail[c]) \in Nat
  BY Zenon, <1>c, GapFacts
<1>1. ASSUME UNCHANGED <<ring, reapers, worker, async_cobd>> PROVE IndexInv'
  BY Zenon, <1>1 DEF IndexInv, ring, reapers
<1>2. ASSUME NEW n \in WorkerCounts, co_cobd_async_start(n) PROVE IndexInv'
  <2>1. UNCHANGED <<ring, reapers>> /\ ~async_cobd
    BY Zenon, <1>2, <1>a DEF co_cobd_async_start, BootShape
  <2>2. \A u \in Units : worker'[u] # "announce"
    BY Zenon, <1>2 DEF co_cobd_async_start
  <2> QED BY Zenon, <2>1, <2>2 DEF IndexInv, ring, reapers
<1>3. ASSUME NEW u \in Units, WriteRecord(u) PROVE IndexInv'
  <2>1. UNCHANGED <<comp_head, comp_tail, reapers, async_cobd>>
    BY Zenon, <1>3 DEF WriteRecord, ctl
  <2>2. \A v \in Units : worker'[v] = "announce" =>
          worker[v] = "announce" \/ Gap(comp_head, comp_tail) < Slots
    BY Zenon, <1>3, <1>e DEF WriteRecord, WorkerGo
  <2> QED BY Zenon, <2>1, <2>2 DEF IndexInv, reapers
<1>4. ASSUME NEW u \in Units, AnnounceRecord(u) PROVE IndexInv'
  <2>1. UNCHANGED <<comp_tail, reapers, async_cobd>> /\ comp_head' = Inc(comp_head)
    BY Zenon, <1>4 DEF AnnounceRecord, ctl
  <2>2. async_cobd /\ Gap(comp_head, comp_tail) < Slots
    BY Zenon, <1>4, <1>a DEF AnnounceRecord, At, BootShape, IndexInv
  <2>3. \A v \in Units : worker'[v] # "announce"
    BY Zenon, <1>4, <1>a, <1>e DEF AnnounceRecord, At, WorkerShape, WorkerGo
  <2>4. Gap(comp_head', comp_tail) = Gap(comp_head, comp_tail) + 1
    BY <2>1, <2>2, <1>b, <1>c, <1>h, GapFacts
  <2>5. \A c \in CPUs : cpu[c] \in {"head", "resync", "claim"} =>
          Gap(comp_head', tail[c]) = Gap(comp_head, tail[c]) + 1
    BY Zenon, <2>1, <1>c, GapFacts DEF NoWrap
  <2>6. \A c \in CPUs : cpu[c] = "claim" => comp_head' # tail[c]
    BY <2>1, <2>5, <1>c, <1>h, GapFacts, IncIs
  <2> QED BY <2>1, <2>2, <2>3, <2>4, <2>5, <2>6, <1>b, <1>h DEF IndexInv, reapers
<1>5. ASSUME NEW c \in CPUs, ReadTail(c) PROVE IndexInv'
  BY <1>5, <1>d, <1>g, <1>h DEF ReadTail, CpuGo, IndexInv, ring, workers, ctl
<1>6. ASSUME NEW c \in CPUs, ReadHead(c) PROVE IndexInv'
  BY Zenon, <1>6, <1>d, <1>g, <1>h DEF ReadHead, CpuGo, CpuOut, IndexInv, ring, workers, ctl
<1>7. ASSUME NEW c \in CPUs, Resync(c) PROVE IndexInv'
  <2>1. comp_tail' = comp_tail
    BY <1>7, <1>b, <1>h DEF Resync, IndexInv
  <2> QED BY Zenon, <1>7, <2>1, <1>d, <1>g DEF Resync, CpuGo, CpuOut, IndexInv, workers, ctl
<1>8. ASSUME NEW c \in CPUs, ClaimSlot(c) PROVE IndexInv'
  <2>1. CASE comp_tail # tail[c]
    BY Zenon, <1>8, <2>1, <1>d, <1>g DEF ClaimSlot, CpuGo, CpuOut, IndexInv, workers, ctl
  <2>2. CASE comp_tail = tail[c]
    <3>1. /\ comp_tail' = Inc(comp_tail) /\ UNCHANGED <<comp_head, tail, worker, async_cobd>>
          /\ cpu' = [cpu EXCEPT ![c] = "read"]
      BY Zenon, <1>8, <2>2 DEF ClaimSlot, CpuGo, workers, ctl
    <3>2. comp_head # comp_tail
      BY Zenon, <1>8, <2>2 DEF ClaimSlot, IndexInv
    <3>3. Gap(comp_head, comp_tail') = Gap(comp_head, comp_tail) - 1
      BY Zenon, <3>1, <3>2, <1>c, GapFacts
    <3> QED BY <3>1, <3>2, <3>3, <1>b, <1>d, <1>h DEF IndexInv
  <2> QED BY Zenon, <2>1, <2>2
<1>9. ASSUME NEW c \in CPUs, ReadRecord(c) \/ EndRequest(c) PROVE IndexInv'
  <2>1. /\ UNCHANGED <<ring, worker, async_cobd>>
        /\ cpu'[c] \in {"out", "end"}
        /\ \A d \in CPUs : d # c => cpu'[d] = cpu[d] /\ tail'[d] = tail[d]
    BY Zenon, <1>9, <1>d, <1>g DEF ReadRecord, EndRequest, CpuGo, CpuOut, workers, ctl
  <2> QED BY Zenon, <2>1 DEF IndexInv, ring
<1>10. ASSUME NEW u \in Units, CheckStopping(u) \/ Wake(u) \/ Transfer(u)
                              \/ fifo_pop(u) \/ node_free(u)
       PROVE  IndexInv'
  <2>1. UNCHANGED <<ring, reapers, async_cobd>>
    BY Zenon, <1>10 DEF CheckStopping, Wake, Transfer, fifo_pop, node_free, ctl
  <2>2. \A v \in Units : worker'[v] = "announce" => worker[v] = "announce"
    BY Zenon, <1>10, <1>e DEF CheckStopping, Wake, Transfer, fifo_pop, node_free, WorkerGo
  <2> QED BY Zenon, <2>1, <2>2 DEF IndexInv, ring, reapers
<1>11. ASSUME NEW r \in Requests, co_cobd_async_submit(r) \/ QueueInline(r) \/ InlineStep(r)
       PROVE  UNCHANGED <<ring, reapers, worker, async_cobd>>
  BY Zenon, <1>11 DEF co_cobd_async_submit, QueueInline, InlineStep, InlineTransfer, InlineEnd,
               workers, ctl
<1>12. ASSUME SyncBoot \/ GuestEnds \/ AskWorkers \/ JoinWorkers
       PROVE  UNCHANGED <<ring, reapers, worker, async_cobd>>
  BY Zenon, <1>12 DEF SyncBoot, GuestEnds, AskWorkers, JoinWorkers, workers, ctl
<1> QED
  BY Zenon, <1>1, <1>2, <1>3, <1>4, <1>5, <1>6, <1>7, <1>8, <1>9, <1>10, <1>11, <1>12
  DEF Next, WorkerStep, Drain

LEMMA IndexInit == Init => IndexInv
<1> SUFFICES ASSUME Init PROVE IndexInv
  BY Zenon
<1>1. Gap(StartIndex, StartIndex) = 0
  BY Zenon, SizeFacts, GapFacts
<1> QED BY <1>1, SizeFacts DEF Init, IndexInv

LEMMA IndexNext == HostInv /\ IndexInv /\ NoWrap /\ [Next]_vars => IndexInv'
<1> SUFFICES ASSUME HostInv, IndexInv, NoWrap, [Next]_vars PROVE IndexInv'
  BY Zenon
<1>1. CASE UNCHANGED vars
  BY Zenon, <1>1 DEF IndexInv, vars, ring, reapers, workers, ctl
<1> QED BY Zenon, <1>1, IndexStep

LEMMA IndexAlways == Spec /\ []NoWrap => []IndexInv
  BY HostAlways, IndexInit, IndexNext, PTL DEF Spec

(* "Resync rather than walk garbage" loses no record: a processor that     *)
(* finds the gap too wide holds a stale tail, so its exchange fails.       *)
THEOREM ResyncIsHarmless == Spec /\ []NoWrap => ResyncLosesNothing
<1> DEFINE Moves ==
      comp_tail' # comp_tail =>
        /\ comp_tail' = Inc(comp_tail)
        /\ \E c \in CPUs : tail[c] = comp_tail /\ cpu[c] = "claim" /\ cpu'[c] = "read"
<1>1. HostInv /\ IndexInv /\ [Next]_vars => [Moves]_vars
  <2> SUFFICES ASSUME HostInv, IndexInv, Next, comp_tail' # comp_tail PROVE Moves
    BY Zenon DEF vars, ring
  <2>a. RingTypes /\ Slots \in Nat
    BY Zenon, SizeFacts DEF HostInv
  <2>b. Gap(comp_head, comp_tail) \in Nat
    BY Zenon, <2>a, GapFacts DEF RingTypes
  <2>1. PICK c \in CPUs : Resync(c) \/ ClaimSlot(c)
    <3>1. ASSUME NEW u \in Units, WorkerStep(u) PROVE comp_tail' = comp_tail
      BY Zenon, <3>1 DEF WorkerStep, fifo_pop, CheckStopping, Wake, Transfer, WriteRecord,
                  AnnounceRecord, node_free, ring
    <3>2. ASSUME NEW r \in Requests,
                 co_cobd_async_submit(r) \/ QueueInline(r) \/ InlineStep(r)
          PROVE  comp_tail' = comp_tail
      BY Zenon, <3>2
      DEF co_cobd_async_submit, QueueInline, InlineStep, InlineTransfer, InlineEnd, ring
    <3>3. ASSUME (\E n \in WorkerCounts : co_cobd_async_start(n))
                 \/ SyncBoot \/ GuestEnds \/ AskWorkers \/ JoinWorkers
          PROVE  comp_tail' = comp_tail
      BY Zenon, <3>3 DEF co_cobd_async_start, SyncBoot, GuestEnds, AskWorkers, JoinWorkers, ring
    <3>4. ASSUME NEW d \in CPUs,
                 ReadTail(d) \/ ReadHead(d) \/ ReadRecord(d) \/ EndRequest(d)
          PROVE  comp_tail' = comp_tail
      BY Zenon, <3>4 DEF ReadTail, ReadHead, ReadRecord, EndRequest, ring
    <3> QED BY Zenon, <3>1, <3>2, <3>3, <3>4 DEF Next, Drain
  <2>2. ~Resync(c)
    BY <2>a, <2>b DEF Resync, IndexInv
  <2> QED BY Zenon, <2>1, <2>2, <2>a DEF ClaimSlot, CpuGo, RingTypes
<1> QED BY <1>1, HostAlways, IndexAlways, PTL DEF Spec, ResyncLosesNothing
-----------------------------------------------------------------------------
Timely == NoWrap /\ ProducerNeverLaps
DeviceInv == HostInv /\ IndexInv /\ AnswerInv

(* The facts about types that the proofs below share. *)
LEMMA DeviceFacts ==
  ASSUME HostInv
  PROVE  /\ comp_head \in Indices /\ comp_tail \in Indices
         /\ comp \in [0..(Slots - 1) -> Records]
         /\ cpu \in [CPUs -> {"out", "head", "resync", "claim", "read", "end"}]
         /\ tail \in [CPUs -> Indices]
         /\ \A c \in CPUs : rec[c].req \in Requests /\ rec[c].result \in Results
         /\ \A i \in Indices : ReqAt(i) \in Requests /\ comp[SlotOf(i)].result \in Results
         /\ worker \in [Units -> {"none", "pop", "check", "sleep", "transfer", "complete",
                                  "announce", "free", "gone"}]
         /\ \A u \in Units : worker[u] \in Holding => node[u] \in Requests
         /\ \A u \in Units : worker[u] \in {"complete", "announce", "free"} =>
              node[u] \in Requests /\ result[u] \in Results
         /\ phase \in [Requests -> {"free", "inflight"} \cup Results]
         /\ rq \in [Requests -> {"idle", "started"}]
         /\ fifo \in [Units -> Seq(Requests)]
<1>1. HostTypes /\ RingTypes /\ TagTypes /\ WorkerShape
  BY Zenon DEF HostInv
<1>2. \A i \in Indices : comp[SlotOf(i)] \in Records
  BY Zenon, <1>1, SlotIs DEF RingTypes
<1>3. /\ \A i \in Indices : ReqAt(i) \in Requests /\ comp[SlotOf(i)].result \in Results
      /\ \A c \in CPUs : rec[c].req \in Requests /\ rec[c].result \in Results
  BY Zenon, <1>1, <1>2 DEF RingTypes, Records, ReqAt
<1>4. \A u \in Units : worker[u] \in Holding => node[u] \in Requests
  BY Zenon, <1>1 DEF HostTypes, WorkerShape
<1>5. \A u \in Units : worker[u] \in {"complete", "announce", "free"} =>
         node[u] \in Requests /\ result[u] \in Results
  BY Zenon, <1>1, <1>4 DEF HostTypes, WorkerShape, Holding
<1> QED BY Zenon, <1>1, <1>3, <1>4, <1>5 DEF HostTypes, RingTypes, TagTypes

LEMMA SamePending ==
  ASSUME UNCHANGED <<comp_head, comp_tail>>,
         \A c \in CPUs : cpu'[c] = "read" <=> cpu[c] = "read",
         \A c \in CPUs : cpu[c] = "read" => tail'[c] = tail[c]
  PROVE  \A i \in Indices : Pending(i)' <=> Pending(i)
  BY Zenon DEF Pending, Live, Claimed

(* A pending record is at most a ring behind the head, and the slot of the *)
(* next record is not one of theirs while the ring has room.               *)
LEMMA PendingInRing ==
  ASSUME DeviceInv, Timely, NEW i \in Indices, Pending(i)
  PROVE  /\ Gap(comp_head, i) \in 1..Slots
         /\ Gap(comp_head, comp_tail) < Slots => SlotOf(i) # SlotOf(comp_head)
<1>1. /\ comp_head \in Indices /\ comp_tail \in Indices
      /\ \A c \in CPUs : tail[c] \in Indices
  BY Zenon, DeviceFacts DEF DeviceInv
<1>2. /\ Gap(comp_head, comp_tail) \in Nat /\ Gap(comp_head, comp_tail) <= Slots
      /\ Gap(comp_head, i) \in Nat /\ Slots \in Nat
  BY Zenon, <1>1, GapFacts, SizeFacts DEF DeviceInv, IndexInv
<1>3. Live(i) => Gap(comp_head, i) \in 1..Gap(comp_head, comp_tail)
  BY Zenon DEF Live
<1>4. Claimed(i) => Gap(comp_head, comp_tail) < Gap(comp_head, i) /\ Gap(comp_head, i) < Slots
  BY Zenon DEF Claimed, DeviceInv, AnswerInv, Reading, Timely, ProducerNeverLaps
<1>5. Gap(comp_head, i) \in 1..Slots
  BY <1>2, <1>3, <1>4 DEF Pending
<1>6. ASSUME Gap(comp_head, comp_tail) < Slots, SlotOf(i) = SlotOf(comp_head) PROVE FALSE
  <2>1. Gap(comp_head, i) < Slots
    BY <1>2, <1>3, <1>4, <1>6 DEF Pending
  <2>2. i # comp_head
    BY <1>5, <1>1, GapFacts
  <2> QED BY <2>1, <2>2, <1>1, <1>2, <1>6, SlotsApart
<1> QED BY Zenon, <1>5, <1>6

LEMMA NothingPending ==
  ASSUME DeviceInv, ~async_cobd
  PROVE  /\ \A i \in Indices : ~Pending(i)
         /\ \A c \in CPUs : cpu[c] # "end"
         /\ \A u \in Units : worker[u] = "none" /\ fifo[u] = <<>>
<1>1. comp_head \in Indices /\ comp_head = comp_tail
  BY Zenon, DeviceFacts DEF DeviceInv, IndexInv
<1>2. Gap(comp_head, comp_tail) = 0
  BY Zenon, <1>1, GapFacts
<1>3. \A c \in CPUs : cpu[c] \in {"out", "head"}
  BY Zenon DEF DeviceInv, AnswerInv, Reading
<1> QED BY <1>2, <1>3 DEF Pending, Live, Claimed, DeviceInv, HostInv, BootShape

LEMMA ReadingStep ==
  ASSUME DeviceInv, Timely, Next
  PROVE  Reading'
<1>a. HostInv /\ IndexInv /\ Reading
  BY Zenon DEF DeviceInv, AnswerInv
<1>b. /\ comp_head \in Indices /\ comp_tail \in Indices /\ tail \in [CPUs -> Indices]
      /\ cpu \in [CPUs -> {"out", "head", "resync", "claim", "read", "end"}]
  BY Zenon, <1>a, DeviceFacts
<1>c. /\ Gap(comp_head, comp_tail) \in Nat
      /\ \A c \in CPUs : Gap(comp_head, tail[c]) \in Nat
  BY Zenon, <1>b, GapFacts
<1>d. Slots \in Nat /\ Slots > 1 /\ Width \in Nat /\ 2 * Slots <= Width
  BY Zenon, SizeFacts
<1>1. ASSUME UNCHANGED <<comp_head, comp_tail, reapers, async_cobd>> PROVE Reading'
  BY Zenon, <1>1, <1>a DEF Reading, reapers
<1>2. ASSUME NEW n \in WorkerCounts, co_cobd_async_start(n) PROVE Reading'
  <2>1. UNCHANGED <<ring, reapers>> /\ ~async_cobd
    BY Zenon, <1>2, <1>a DEF co_cobd_async_start, HostInv, BootShape
  <2> QED BY Zenon, <2>1, <1>a DEF Reading, ring, reapers
<1>3. ASSUME NEW u \in Units, AnnounceRecord(u) PROVE Reading'
  <2>1. UNCHANGED <<comp_tail, reapers, async_cobd>> /\ comp_head' = Inc(comp_head)
    BY Zenon, <1>3 DEF AnnounceRecord, ctl
  <2>2. async_cobd
    BY Zenon, <1>3, <1>a DEF AnnounceRecord, At, HostInv, BootShape
  <2>3. Gap(comp_head', comp_tail) = Gap(comp_head, comp_tail) + 1
    BY <2>1, <1>a, <1>b, <1>c, <1>d, GapFacts DEF IndexInv
  <2>4. \A c \in CPUs : cpu[c] = "read" =>
          Gap(comp_head', tail[c]) = Gap(comp_head, tail[c]) + 1
    BY <2>1, <1>b, <1>c, <1>d, GapFacts DEF Timely, ProducerNeverLaps
  <2> QED BY <2>1, <2>2, <2>3, <2>4, <1>a, <1>c DEF Reading, reapers
<1>4. ASSUME NEW c \in CPUs, ReadTail(c) PROVE Reading'
  BY Zenon, <1>4, <1>a, <1>b DEF ReadTail, CpuGo, Reading, ring, ctl
<1>5. ASSUME NEW c \in CPUs, ReadHead(c) PROVE Reading'
  <2>1. /\ comp_head' = comp_head /\ comp_tail' = comp_tail /\ async_cobd' = async_cobd
        /\ cpu[c] = "head"
    BY Zenon, <1>5 DEF ReadHead, ring, ctl
  <2>2. CASE comp_head = tail[c]
    <3>1. /\ cpu'[c] = "out"
          /\ \A d \in CPUs : d # c => cpu'[d] = cpu[d] /\ tail'[d] = tail[d]
      BY Zenon, <1>5, <2>2, <1>b DEF ReadHead, CpuGo, CpuOut
    <3> QED BY Zenon, <2>1, <3>1, <1>a DEF Reading
  <2>3. CASE comp_head # tail[c]
    <3>1. async_cobd
      BY Zenon, <2>1, <2>3, <1>a DEF Reading, IndexInv
    <3> QED BY Zenon, <1>5, <2>1, <2>3, <3>1, <1>a, <1>b DEF ReadHead, CpuGo, Reading
  <2> QED BY Zenon, <2>2, <2>3
<1>6. ASSUME NEW c \in CPUs, Resync(c) PROVE Reading'
  <2>1. comp_tail' = comp_tail
    BY <1>6, <1>a, <1>c, <1>d DEF Resync, IndexInv
  <2> QED BY Zenon, <1>6, <2>1, <1>a, <1>b DEF Resync, CpuGo, CpuOut, Reading, ctl
<1>7. ASSUME NEW c \in CPUs, ClaimSlot(c) PROVE Reading'
  <2>1. CASE comp_tail # tail[c]
    BY <1>7, <2>1, <1>a, <1>b DEF ClaimSlot, CpuGo, CpuOut, Reading, ctl
  <2>2. CASE comp_tail = tail[c]
    <3>1. /\ comp_tail' = Inc(comp_tail) /\ UNCHANGED <<comp_head, tail, async_cobd>>
          /\ cpu' = [cpu EXCEPT ![c] = "read"]
      BY Zenon, <1>7, <2>2 DEF ClaimSlot, CpuGo, ctl
    <3>2. comp_head # comp_tail /\ async_cobd
      BY Zenon, <1>7, <2>2, <1>a DEF ClaimSlot, IndexInv, Reading
    <3>3. Gap(comp_head, comp_tail') = Gap(comp_head, comp_tail) - 1
      BY Zenon, <3>1, <3>2, <1>b, GapFacts
    <3>4. \A d \in CPUs : cpu[d] = "read" => tail[d] # tail[c]
      BY <2>2, <1>a, <1>c DEF Reading
    <3> QED BY <2>2, <3>1, <3>2, <3>3, <3>4, <1>a, <1>b, <1>c DEF Reading
  <2> QED BY Zenon, <2>1, <2>2
<1>8. ASSUME NEW c \in CPUs, ReadRecord(c) \/ EndRequest(c) PROVE Reading'
  <2>1. /\ UNCHANGED <<ring, async_cobd>> /\ cpu[c] \in {"read", "end"}
        /\ cpu'[c] \in {"out", "end"}
        /\ \A d \in CPUs : d # c => cpu'[d] = cpu[d] /\ tail'[d] = tail[d]
    BY Zenon, <1>8, <1>b DEF ReadRecord, EndRequest, CpuGo, CpuOut, ctl
  <2> QED BY Zenon, <2>1, <1>a DEF Reading, ring
<1>9. ASSUME NEW u \in Units, CheckStopping(u) \/ Wake(u) \/ Transfer(u) \/ WriteRecord(u)
                              \/ fifo_pop(u) \/ node_free(u)
      PROVE  UNCHANGED <<comp_head, comp_tail, reapers, async_cobd>>
  BY Zenon, <1>9 DEF CheckStopping, Wake, Transfer, WriteRecord, fifo_pop, node_free, ctl, ring
<1>10. ASSUME NEW r \in Requests, co_cobd_async_submit(r) \/ QueueInline(r) \/ InlineStep(r)
       PROVE  UNCHANGED <<comp_head, comp_tail, reapers, async_cobd>>
  BY Zenon, <1>10 DEF co_cobd_async_submit, QueueInline, InlineStep, InlineTransfer, InlineEnd,
               ring, ctl
<1>11. ASSUME SyncBoot \/ GuestEnds \/ AskWorkers \/ JoinWorkers
       PROVE  UNCHANGED <<comp_head, comp_tail, reapers, async_cobd>>
  BY Zenon, <1>11 DEF SyncBoot, GuestEnds, AskWorkers, JoinWorkers, ring, ctl
<1> QED
  BY Zenon, <1>1, <1>2, <1>3, <1>4, <1>5, <1>6, <1>7, <1>8, <1>9, <1>10, <1>11
  DEF Next, WorkerStep, Drain

(* The block layer's tags and the history of their use go together. *)
LEMMA TagsStep ==
  ASSUME DeviceInv, Next
  PROVE  TagsInv'
<1>a. HostInv /\ TagsInv /\ QueueInv
  BY Zenon DEF DeviceInv, AnswerInv
<1>b. /\ phase \in [Requests -> {"free", "inflight"} \cup Results]
      /\ rq \in [Requests -> {"idle", "started"}]
      /\ \A c \in CPUs : rec[c].req \in Requests
      /\ \A u \in Units : worker[u] \in Holding => node[u] \in Requests
  BY Zenon, <1>a, DeviceFacts
<1>1. ASSUME UNCHANGED <<rq, phase>> PROVE TagsInv'
  BY Zenon, <1>1, <1>a DEF TagsInv
<1>2. ASSUME NEW r \in Requests, co_cobd_async_submit(r) \/ QueueInline(r) PROVE TagsInv'
  BY Zenon, <1>2, <1>a, <1>b DEF co_cobd_async_submit, QueueInline, TagsInv
<1>3. ASSUME NEW r \in Requests, InlineStep(r) PROVE TagsInv'
  BY Zenon, <1>3, <1>a, <1>b DEF InlineStep, InlineTransfer, InlineEnd, TagsInv, Results
<1>4. ASSUME NEW u \in Units, Transfer(u) PROVE TagsInv'
  <2>1. node[u] \in Requests /\ phase[node[u]] = "inflight" /\ rq' = rq
    BY Zenon, <1>4, <1>a, <1>b DEF Transfer, At, QueueInv, Holding
  <2> QED BY Zenon, <1>4, <2>1, <1>a, <1>b DEF Transfer, TagsInv, Results
<1>5. ASSUME NEW c \in CPUs, EndRequest(c) PROVE TagsInv'
  BY Zenon, <1>5, <1>a, <1>b DEF EndRequest, TagsInv
<1>6. ASSUME NEW u \in Units, CheckStopping(u) \/ Wake(u) \/ WriteRecord(u)
                              \/ AnnounceRecord(u) \/ fifo_pop(u) \/ node_free(u)
      PROVE  UNCHANGED <<rq, phase>>
  BY Zenon, <1>6 DEF CheckStopping, Wake, WriteRecord, AnnounceRecord, fifo_pop, node_free
<1>7. ASSUME NEW c \in CPUs, ReadTail(c) \/ ReadHead(c) \/ Resync(c) \/ ClaimSlot(c)
                             \/ ReadRecord(c)
      PROVE  UNCHANGED <<rq, phase>>
  BY Zenon, <1>7 DEF ReadTail, ReadHead, Resync, ClaimSlot, ReadRecord
<1>8. ASSUME (\E n \in WorkerCounts : co_cobd_async_start(n))
              \/ SyncBoot \/ GuestEnds \/ AskWorkers \/ JoinWorkers
       PROVE  UNCHANGED <<rq, phase>>
  BY Zenon, <1>8 DEF co_cobd_async_start, SyncBoot, GuestEnds, AskWorkers, JoinWorkers
<1> QED
  BY Zenon, <1>1, <1>2, <1>3, <1>4, <1>5, <1>6, <1>7, <1>8 DEF Next, WorkerStep, Drain

(* What is queued and what the workers hold. *)
LEMMA QueueStep ==
  ASSUME DeviceInv, Next
  PROVE  QueueInv'
<1>a. HostInv /\ TagsInv /\ QueueInv /\ EndInv
  BY Zenon DEF DeviceInv, AnswerInv
<1>b. /\ phase \in [Requests -> {"free", "inflight"} \cup Results]
      /\ \A c \in CPUs : rec[c].req \in Requests /\ rec[c].result \in Results
      /\ \A u \in Units : worker[u] \in Holding => node[u] \in Requests
      /\ fifo \in [Units -> Seq(Requests)]
      /\ worker \in [Units -> {"none", "pop", "check", "sleep", "transfer", "complete",
                               "announce", "free", "gone"}]
  BY Zenon, <1>a, DeviceFacts
<1>c. \A u \in Units : /\ Len(fifo[u]) \in Nat
                       /\ \A i \in 1..Len(fifo[u]) : fifo[u][i] \in Requests
  BY Zenon, <1>b, SeqElements
<1>d. HostTypes
  BY Zenon, <1>a DEF HostInv
<1>1. ASSUME UNCHANGED <<fifo, worker, node, result, phase>> PROVE QueueInv'
  BY Zenon, <1>1, <1>a DEF QueueInv
<1>2. ASSUME NEW n \in WorkerCounts, co_cobd_async_start(n) PROVE QueueInv'
  <2>1. /\ UNCHANGED <<fifo, phase>> /\ \A u \in Units : fifo[u] = <<>>
        /\ \A u \in Units : worker'[u] \in {"pop", "none"}
    BY Zenon, <1>2, <1>a DEF co_cobd_async_start, HostInv, BootShape
  <2> QED BY <2>1 DEF QueueInv, Holding
<1>3. CASE JoinWorkers
  BY <1>3 DEF JoinWorkers, QueueInv, workers, Holding
<1>4. ASSUME NEW r \in Requests, co_cobd_async_submit(r) PROVE QueueInv'
  <2>1. /\ fifo' = [fifo EXCEPT ![UnitOf(r)] = Append(@, r)]
        /\ UNCHANGED <<worker, node, result>>
        /\ phase' = [phase EXCEPT ![r] = "inflight"]
        /\ phase[r] = "free" /\ UnitOf(r) \in Units
    BY Zenon, <1>4, <1>a, RequestFacts DEF co_cobd_async_submit, Issuing, TagsInv, workers
  <2>2. \A q \in Requests : phase'[q] = IF q = r THEN "inflight" ELSE phase[q]
    BY Zenon, <2>1, <1>b
  <2>3. \A u \in Units : \A i \in 1..Len(fifo[u]) : fifo[u][i] # r
    BY Zenon, <2>1, <1>a DEF QueueInv
  <2>4. \A u \in Units : worker[u] \in {"transfer", "complete", "announce"} => node[u] # r
    BY <2>1, <1>a, DeviceFacts DEF QueueInv, Results
  <2>5. ASSUME NEW u \in Units
        PROVE  /\ Len(fifo'[u]) \in Nat
               /\ \A i \in 1..Len(fifo'[u]) :
                    \/ i \in 1..Len(fifo[u]) /\ fifo'[u][i] = fifo[u][i]
                    \/ i = Len(fifo[u]) + 1 /\ u = UnitOf(r) /\ fifo'[u][i] = r
    <3>1. CASE u # UnitOf(r)
      BY Zenon, <3>1, <2>1, <1>b, <1>c
    <3>2. CASE u = UnitOf(r)
      <4>1. fifo'[u] = Append(fifo[u], r) /\ fifo[u] \in Seq(Requests)
        BY Zenon, <3>2, <2>1, <1>b
      <4> QED BY <4>1, <3>2, <1>c, SeqAppend
    <3> QED BY Zenon, <3>1, <3>2
  <2> QED
    <3> SUFFICES ASSUME NEW u \in Units
                 PROVE  /\ \A i \in 1..Len(fifo'[u]) :
                             UnitOf(fifo'[u][i]) = u /\ phase'[fifo'[u][i]] = "inflight"
                        /\ \A i, j \in 1..Len(fifo'[u]) : fifo'[u][i] = fifo'[u][j] => i = j
                        /\ worker'[u] \in Holding => UnitOf(node'[u]) = u
                        /\ worker'[u] = "transfer" =>
                             /\ phase'[node'[u]] = "inflight"
                             /\ \A i \in 1..Len(fifo'[u]) : fifo'[u][i] # node'[u]
                        /\ worker'[u] \in {"complete", "announce"} =>
                             phase'[node'[u]] = result'[u]
      BY Zenon DEF QueueInv
    <3>1. \A i \in 1..Len(fifo'[u]) :
            UnitOf(fifo'[u][i]) = u /\ phase'[fifo'[u][i]] = "inflight"
      BY <2>5, <2>2, <1>a, <1>c DEF QueueInv
    <3>2. \A i, j \in 1..Len(fifo'[u]) : fifo'[u][i] = fifo'[u][j] => i = j
      BY <2>5, <2>3, <1>a, <1>c DEF QueueInv
    <3>3. worker'[u] = "transfer" => \A i \in 1..Len(fifo'[u]) : fifo'[u][i] # node'[u]
      BY <2>5, <2>4, <2>1, <1>a DEF QueueInv
    <3> QED BY Zenon, <3>1, <3>2, <3>3, <2>1, <2>2, <2>4, <1>a, <1>b DEF QueueInv, Holding
<1>5. ASSUME NEW r \in Requests, QueueInline(r) \/ InlineStep(r) PROVE QueueInv'
  <2>1. UNCHANGED <<fifo, worker>> /\ ~async_cobd
    BY Zenon, <1>5, <1>a DEF QueueInline, InlineStep, InlineTransfer, InlineEnd, hostq, workers,
                      HostInv, BootShape
  <2>2. \A u \in Units : worker[u] = "none" /\ fifo[u] = <<>>
    BY Zenon, <2>1, NothingPending
  <2> QED BY <2>1, <2>2 DEF QueueInv, Holding
<1>6. ASSUME NEW u \in Units, fifo_pop(u) PROVE QueueInv'
  <2>1. CASE fifo[u] = <<>>
    <3>1. /\ UNCHANGED <<fifo, node, result, phase>> /\ worker'[u] = "check"
          /\ \A v \in Units : v # u => worker'[v] = worker[v]
      BY Zenon, <1>6, <2>1, <1>b DEF fifo_pop, WorkerGo
    <3> QED BY Zenon, <3>1, <1>a DEF QueueInv, Holding
  <2>2. CASE fifo[u] # <<>>
    <3>1. /\ fifo' = [fifo EXCEPT ![u] = Tail(@)]
          /\ node' = [node EXCEPT ![u] = fifo[u][1]]
          /\ worker' = [worker EXCEPT ![u] = "transfer"] /\ UNCHANGED <<phase, result>>
      BY Zenon, <1>6, <2>2, <1>b, SeqTail DEF fifo_pop, WorkerGo
    <3>2. /\ Len(fifo'[u]) = Len(fifo[u]) - 1 /\ Len(fifo[u]) > 0
          /\ \A i \in 1..Len(fifo'[u]) : fifo'[u][i] = fifo[u][i + 1]
      BY <3>1, <2>2, <1>b, <1>c, SeqTail
    <3>3. \A i \in 1..Len(fifo'[u]) : i + 1 \in 1..Len(fifo[u]) /\ i + 1 # 1
      BY <3>2, <1>c
    <3>4. /\ node'[u] = fifo[u][1] /\ worker'[u] = "transfer"
          /\ \A v \in Units : v # u => /\ fifo'[v] = fifo[v] /\ node'[v] = node[v]
                                       /\ worker'[v] = worker[v]
      BY Zenon, <3>1, <1>b, <1>d DEF HostTypes
    <3>5. 1 \in 1..Len(fifo[u])
      BY <3>2, <1>c
    <3>6. /\ \A i \in 1..Len(fifo'[u]) :
               UnitOf(fifo'[u][i]) = u /\ phase'[fifo'[u][i]] = "inflight"
          /\ UnitOf(node'[u]) = u /\ phase'[node'[u]] = "inflight"
          /\ \A i \in 1..Len(fifo'[u]) : fifo'[u][i] # node'[u]
      BY <3>1, <3>2, <3>3, <3>4, <3>5, <1>a DEF QueueInv
    <3>7. \A i, j \in 1..Len(fifo'[u]) : fifo'[u][i] = fifo'[u][j] => i = j
      <4> SUFFICES ASSUME NEW i \in 1..Len(fifo'[u]), NEW j \in 1..Len(fifo'[u]),
                          fifo'[u][i] = fifo'[u][j]
                   PROVE  i = j
        BY Zenon
      <4>1. i + 1 = j + 1
        BY <3>2, <3>3, <1>a DEF QueueInv
      <4> QED BY <4>1, <3>2, <1>c
    <3> QED BY <3>1, <3>4, <3>6, <3>7, <1>a DEF QueueInv
  <2> QED BY Zenon, <2>1, <2>2
<1>7. ASSUME NEW u \in Units, Transfer(u) PROVE QueueInv'
  <2>1. PICK res \in Results :
          /\ result' = [result EXCEPT ![u] = res] /\ phase' = [phase EXCEPT ![node[u]] = res]
          /\ worker[u] = "transfer" /\ worker' = [worker EXCEPT ![u] = "complete"]
          /\ UNCHANGED <<fifo, node>>
    BY Zenon, <1>7 DEF Transfer, At, WorkerGo, hostq
  <2>2. /\ node[u] \in Requests /\ UnitOf(node[u]) = u /\ phase[node[u]] = "inflight"
        /\ \A i \in 1..Len(fifo[u]) : fifo[u][i] # node[u]
    BY Zenon, <2>1, <1>a, <1>b DEF QueueInv, Holding
  <2>3. \A q \in Requests : phase'[q] = IF q = node[u] THEN res ELSE phase[q]
    BY Zenon, <2>1, <1>b
  <2>4. \A v \in Units : \A i \in 1..Len(fifo[v]) : fifo[v][i] # node[u]
    BY <2>2, <1>a DEF QueueInv
  <2>5. \A v \in Units : v # u /\ worker[v] \in Holding => node[v] # node[u]
    BY Zenon, <2>2, <1>a DEF QueueInv
  <2>6. /\ worker'[u] = "complete" /\ result'[u] = res /\ phase'[node[u]] = res
        /\ \A v \in Units : v # u => worker'[v] = worker[v] /\ result'[v] = result[v]
    BY Zenon, <2>1, <2>2, <2>3, <1>b, <1>d DEF HostTypes
  <2> QED
    BY <2>1, <2>2, <2>3, <2>4, <2>5, <2>6, <1>a, <1>b, <1>c DEF QueueInv, Holding
<1>8. ASSUME NEW u \in Units, CheckStopping(u) \/ Wake(u) \/ WriteRecord(u) \/ AnnounceRecord(u)
      PROVE QueueInv'
  <2>1. /\ UNCHANGED <<fifo, node, result, phase>>
        /\ \/ worker[u] \in {"check", "sleep"} /\ worker'[u] \in {"gone", "sleep", "pop"}
           \/ worker[u] \in {"complete", "announce"} /\ worker'[u] \in {"announce", "free"}
        /\ \A v \in Units : v # u => worker'[v] = worker[v]
    BY Zenon, <1>8, <1>b DEF CheckStopping, Wake, WriteRecord, AnnounceRecord, At, WorkerGo, hostq
  <2> QED BY Zenon, <2>1, <1>a DEF QueueInv, Holding
<1>9. ASSUME NEW u \in Units, node_free(u) PROVE QueueInv'
  <2>1. /\ UNCHANGED <<fifo, phase>> /\ worker'[u] = "pop"
        /\ \A v \in Units : v # u => /\ worker'[v] = worker[v] /\ node'[v] = node[v]
                                     /\ result'[v] = result[v]
    BY Zenon, <1>9, <1>b, <1>d DEF node_free, WorkerGo, HostTypes
  <2> QED BY <2>1, <1>a DEF QueueInv, Holding
<1>10. ASSUME NEW c \in CPUs, EndRequest(c) PROVE QueueInv'
  <2>1. /\ phase' = [phase EXCEPT ![rec[c].req] = "free"] /\ cpu[c] = "end"
        /\ UNCHANGED <<fifo, worker, node, result>>
    BY Zenon, <1>10 DEF EndRequest, hostq, workers
  <2>2. phase[rec[c].req] \in Results
    BY Zenon, <2>1, <1>a, <1>b DEF EndInv
  <2>3. \A q \in Requests : q # rec[c].req => phase'[q] = phase[q]
    BY Zenon, <2>1, <1>b
  <2>4. \A u \in Units : \A i \in 1..Len(fifo[u]) : fifo[u][i] # rec[c].req
    BY Zenon, <2>2, <1>a DEF QueueInv, Results
  <2>5. \A u \in Units : worker[u] \in {"transfer", "complete", "announce"} =>
          node[u] # rec[c].req
    BY Zenon, <2>1, <2>2, <1>a DEF QueueInv, EndInv, Results
  <2> QED BY <2>1, <2>3, <2>4, <2>5, <1>a, <1>b, <1>c DEF QueueInv, Holding
<1>11. ASSUME NEW c \in CPUs, ReadTail(c) \/ ReadHead(c) \/ Resync(c) \/ ClaimSlot(c)
                             \/ ReadRecord(c)
      PROVE  UNCHANGED <<fifo, worker, node, result, phase>>
  BY Zenon, <1>11 DEF ReadTail, ReadHead, Resync, ClaimSlot, ReadRecord, hostq, workers
<1>12. ASSUME SyncBoot \/ GuestEnds \/ AskWorkers
       PROVE  UNCHANGED <<fifo, worker, node, result, phase>>
  BY Zenon, <1>12 DEF SyncBoot, GuestEnds, AskWorkers, hostq, workers
<1> QED
  BY Zenon, <1>1, <1>2, <1>3, <1>4, <1>5, <1>6, <1>7, <1>8, <1>9, <1>10, <1>11, <1>12
  DEF Next, WorkerStep, Drain
=============================================================================
