------------------------------- MODULE NetRing -------------------------------
(***************************************************************************)
(* The guest's network: two rings of records in an ordinary kernel object, *)
(* the guest driver on one side (drivers/net/conet_colinux.c), the driver  *)
(* ioctls DUMP, TAKE and PUT on the other (kernel/net.c), and the bridge   *)
(* to slirp that polls them (user/slirp/co_main.c, user/conet_ring.c).     *)
(*                                                                         *)
(* A ring is counted in four-byte words.  A record is a length word and    *)
(* the words of one frame; a frame is the number it was given when it was  *)
(* accepted, so every word of a frame says which frame and which word of   *)
(* it.  Slirp itself is external: any frame handed to it, and any turn of  *)
(* its sockets, may produce frames for the guest.                          *)
(***************************************************************************)
EXTENDS Naturals, Sequences

CONSTANTS TxSize,      \* CO_NET_TX_SIZE, in words
          RxSize,      \* CO_NET_RX_SIZE, in words
          Wrap,        \* the free-running indices are counted modulo Wrap (2^32 bytes)
          Lengths,     \* the frame lengths considered, in words
          DumpMax,     \* the most one DUMP returns (8192 bytes), in words
          BatchSize,   \* CO_CONET_PUT_BATCH, in words
          GonePolls,   \* RING_GONE_POLLS
          MaxSent,     \* bound: frames the guest transmits
          MaxReplies,  \* bound: frames slirp produces
          MaxGuests    \* bound: guests booted

VARIABLES
  tx, tx_head, tx_tail,  \* guest to host
  rx, rx_head, rx_tail,  \* host to guest
  guest,                 \* the guest: which one, what it does, whether eth0 is up
  xmit,                  \* co_net_xmit in progress
  drain,                 \* co_net_rx_drain in progress
  net_io_va,             \* TRUE when the driver knows the rings' address
  bridge,                \* ring_loop
  put,                   \* co_net_put in progress: it holds net_lock
  sent, input, crossed, replied, placed, got  \* history, see below

tx_ring == <<tx, tx_head, tx_tail>>
rx_ring == <<rx, rx_head, rx_tail>>
tx_history == <<sent, input, crossed>>
rx_history == <<replied, placed, got>>
vars == <<tx_ring, rx_ring, guest, xmit, drain, net_io_va, bridge, put, tx_history, rx_history>>

-----------------------------------------------------------------------------
(* Rings and records. *)

Sub(a, b) == (a + Wrap - b) % Wrap
Add(a, n) == (a + n) % Wrap

Least(a, b) == IF a < b THEN a ELSE b

Empty(size) == [i \in 0..(size - 1) |-> <<0, 0>>]

\* One record's footprint: the length word and the frame (co_net_record_bytes).
RecordWords(len) == 1 + len

\* The ring with frame id of len words written as a record at pos.
Written(ring, size, pos, id, len) ==
  [i \in 0..(size - 1) |->
     LET k == Sub(i, pos) % size IN
     CASE k = 0 -> <<0, len>> [] k \in 1..len -> <<id, k>> [] OTHER -> ring[i]]

\* The length word at pos; a word of a frame read as a length is no length a frame can have.
LengthAt(ring, size, pos) ==
  LET w == ring[pos % size] IN IF w[1] = 0 THEN w[2] ELSE Wrap

\* The frame of the record at pos, or Torn when its words are not one frame's.
Torn == 0
FrameAt(ring, size, pos) ==
  LET id == ring[(pos + 1) % size][1] IN
  IF \A k \in 1..LengthAt(ring, size, pos) : ring[(pos + k) % size] = <<id, k>> THEN id ELSE Torn

\* A record both ends accept: a frame's length, inside what was published.
GoodRecord(ring, size, pos, head) ==
  LET len == LengthAt(ring, size, pos) IN
  len \in Lengths /\ RecordWords(len) <= Sub(head, pos)

-----------------------------------------------------------------------------
Idle == [pc |-> "idle", head |-> 0, tail |-> 0, len |-> 0]
NotPutting == [on |-> FALSE, head |-> 0, tail |-> 0, pos |-> 0, n |-> 0]

Init ==
  /\ tx = Empty(TxSize) /\ tx_head = 0 /\ tx_tail = 0
  /\ rx = Empty(RxSize) /\ rx_head = 0 /\ rx_tail = 0
  /\ guest = [n |-> 0, state |-> "off", up |-> FALSE, base |-> 0]
  /\ xmit = Idle /\ drain = Idle
  /\ net_io_va = FALSE
  /\ bridge = [pc |-> "fetch", guest |-> 0, head |-> 0, tail |-> 0, pos |-> 0, done |-> 0,
               copy |-> Empty(TxSize), full |-> FALSE, batch |-> << >>, used |-> 0, out |-> 0,
               back |-> "walk", quiet |-> 0, seen |-> FALSE]
  /\ put = NotPutting
  /\ sent = 0 /\ input = 0 /\ crossed = FALSE
  /\ replied = 0 /\ placed = 0 /\ got = 0

Running == guest.state = "running"

-----------------------------------------------------------------------------
(* The guest. *)

\* KBOOT of a freshly loaded kernel: its rings are its zeroed .bss, and the driver is told
\* where they are.
Boot ==
  /\ guest.state = "off" /\ guest.n < MaxGuests
  /\ guest' = [n |-> guest.n + 1, state |-> "running", up |-> FALSE, base |-> sent]
  /\ tx' = Empty(TxSize) /\ tx_head' = 0 /\ tx_tail' = 0
  /\ rx' = Empty(RxSize) /\ rx_head' = 0 /\ rx_tail' = 0
  /\ net_io_va' = TRUE
  /\ got' = placed
  /\ UNCHANGED <<xmit, drain, bridge, put, tx_history, replied, placed>>

\* The guest stops wherever its processors happen to be.
GuestStops ==
  /\ Running
  /\ guest' = [guest EXCEPT !.state = "stopped", !.up = FALSE]
  /\ xmit' = Idle /\ drain' = Idle
  /\ UNCHANGED <<tx_ring, rx_ring, net_io_va, bridge, put, tx_history, rx_history>>

\* co_net_set_address(0), at the end of KBOOT or in KLOAD_END: net_lock makes it wait for
\* an ioctl that is walking the guest's tables.
Retire ==
  /\ guest.state = "stopped" /\ ~put.on
  /\ guest' = [guest EXCEPT !.state = "off"]
  /\ net_io_va' = FALSE
  /\ UNCHANGED <<tx_ring, rx_ring, xmit, drain, bridge, put, tx_history, rx_history>>

\* co_net_open and co_net_stop: kthread_stop waits for the receive thread to be between drains.
co_net_open ==
  /\ Running /\ ~guest.up
  /\ guest' = [guest EXCEPT !.up = TRUE]
  /\ UNCHANGED <<tx_ring, rx_ring, xmit, drain, net_io_va, bridge, put, tx_history, rx_history>>

co_net_stop ==
  /\ Running /\ guest.up /\ xmit.pc = "idle" /\ drain.pc = "idle"
  /\ guest' = [guest EXCEPT !.up = FALSE]
  /\ UNCHANGED <<tx_ring, rx_ring, xmit, drain, net_io_va, bridge, put, tx_history, rx_history>>

\* co_net_xmit: a frame that does not fit is dropped and leaves no trace in the ring.
XmitBegin(len) ==
  /\ Running /\ guest.up /\ xmit.pc = "idle" /\ sent < MaxSent
  /\ Sub(tx_head, tx_tail) + RecordWords(len) <= TxSize
  /\ xmit' = [Idle EXCEPT !.pc = "copy", !.head = tx_head, !.len = len]
  /\ UNCHANGED <<tx_ring, rx_ring, guest, drain, net_io_va, bridge, put, tx_history, rx_history>>

XmitCopy ==
  /\ xmit.pc = "copy"
  /\ tx' = Written(tx, TxSize, xmit.head, sent + 1, xmit.len)
  /\ xmit' = [xmit EXCEPT !.pc = "publish"]
  /\ UNCHANGED <<tx_head, tx_tail, rx_ring, guest, drain, net_io_va, bridge, put, tx_history,
                 rx_history>>

XmitPublish ==
  /\ xmit.pc = "publish"
  /\ tx_head' = Add(xmit.head, RecordWords(xmit.len))
  /\ sent' = sent + 1
  /\ xmit' = Idle
  /\ UNCHANGED <<tx, tx_tail, rx_ring, guest, drain, net_io_va, bridge, put, input,
                 crossed, rx_history>>

\* co_net_rx_drain: both indices are read once, the records one by one, and rx_tail is stored
\* at the end.  A drain that finds the ring empty changes nothing.
DrainBegin ==
  /\ Running /\ guest.up /\ drain.pc = "idle"
  /\ rx_head # rx_tail
  /\ drain' = [Idle EXCEPT !.pc = "read", !.head = rx_head, !.tail = rx_tail]
  /\ UNCHANGED <<tx_ring, rx_ring, guest, xmit, net_io_va, bridge, put, tx_history, rx_history>>

DrainRecord ==
  /\ drain.pc = "read" /\ drain.tail # drain.head
  /\ GoodRecord(rx, RxSize, drain.tail, drain.head)
  /\ drain' = [drain EXCEPT !.tail = Add(@, RecordWords(LengthAt(rx, RxSize, drain.tail)))]
  /\ got' = FrameAt(rx, RxSize, drain.tail)
  /\ UNCHANGED <<tx_ring, rx_ring, guest, xmit, net_io_va, bridge, put, tx_history, replied,
                 placed>>

\* "rx ring desync, resetting": RingsAgree shows the guest never takes this branch.
Desync == drain.pc = "read" /\ drain.tail # drain.head
            /\ ~GoodRecord(rx, RxSize, drain.tail, drain.head)

DrainStore ==
  /\ drain.pc = "read" /\ drain.tail = drain.head
  /\ rx_tail' = drain.tail
  /\ drain' = Idle
  /\ UNCHANGED <<tx_ring, rx, rx_head, guest, xmit, net_io_va, bridge, put, tx_history,
                 rx_history>>

-----------------------------------------------------------------------------
(* The bridge: one turn of ring_loop fetches the TX ring, walks it, takes   *)
(* what slirp consumed, lets slirp poll and flushes what slirp produced.    *)

Fetching == {"fetch", "dump"}

\* The fetch succeeded: there is a guest, and its frames are walked next.
Fetched(b) == [b EXCEPT !.pc = "walk", !.quiet = 0, !.seen = TRUE]

\* co_net_fetch, the first DUMP: the indices that frame the whole snapshot.
FetchIndices ==
  /\ bridge.pc = "fetch" /\ net_io_va
  /\ LET b == [bridge EXCEPT !.guest = guest.n, !.head = tx_head, !.tail = tx_tail, !.pos = tx_tail,
                             !.done = 0, !.copy = Empty(TxSize), !.full = FALSE] IN
     bridge' = IF Sub(tx_head, tx_tail) \in 1..TxSize THEN [b EXCEPT !.pc = "dump"] ELSE Fetched(b)
  /\ input' = IF bridge.guest = guest.n THEN input ELSE guest.base
  /\ UNCHANGED <<tx_ring, rx_ring, guest, xmit, drain, net_io_va, put, sent, crossed,
                 rx_history>>

\* A slip: a chunk may straddle the wrap, and what lies beyond it is not fetched.
FetchStraddles ==
  LET used == Sub(bridge.head, bridge.tail)
      off == Add(bridge.tail, bridge.done) % TxSize
      n == Least(used - bridge.done, DumpMax) IN
  /\ bridge.pc = "dump" /\ net_io_va
  /\ LET b == [bridge EXCEPT !.done = @ + n,
                  !.copy = [i \in DOMAIN tx |-> IF i \in off..(off + n - 1) THEN tx[i] ELSE @[i]]] IN
     bridge' = IF bridge.done + n = used THEN Fetched(b) ELSE b
  /\ UNCHANGED <<tx_ring, rx_ring, guest, xmit, drain, net_io_va, put, tx_history, rx_history>>

\* The later DUMPs: at most DumpMax words each, and never across the wrap.
FetchChunk ==
  LET used == Sub(bridge.head, bridge.tail)
      off == Add(bridge.tail, bridge.done) % TxSize
      n == Least(Least(used - bridge.done, DumpMax), TxSize - off) IN
  /\ bridge.pc = "dump" /\ net_io_va
  /\ LET b == [bridge EXCEPT !.done = @ + n,
                  !.copy = [i \in DOMAIN tx |-> IF i \in off..(off + n - 1) THEN tx[i] ELSE @[i]]] IN
     bridge' = IF bridge.done + n = used THEN Fetched(b) ELSE b
  /\ UNCHANGED <<tx_ring, rx_ring, guest, xmit, drain, net_io_va, put, tx_history, rx_history>>

\* NOT_FOUND: there is no guest yet, or it is gone.  Having seen one, the bridge leaves after
\* GonePolls polls.
FetchGone ==
  /\ bridge.pc \in Fetching /\ ~net_io_va
  /\ bridge' = [bridge EXCEPT !.full = FALSE, !.quiet = Least(@ + 1, GonePolls),
                              !.pc = IF bridge.seen /\ bridge.quiet + 1 >= GonePolls
                                     THEN "left" ELSE "fetch"]
  /\ UNCHANGED <<tx_ring, rx_ring, guest, xmit, drain, net_io_va, put, tx_history, rx_history>>

WalkGood ==
  /\ Sub(bridge.head, bridge.tail) <= TxSize
  /\ GoodRecord(bridge.copy, TxSize, bridge.pos, bridge.head)

\* co_net_walk hands one frame to ring_frame, and that to slirp_input.
WalkFrame ==
  /\ bridge.pc = "walk" /\ bridge.pos # bridge.head /\ WalkGood
  /\ input' = FrameAt(bridge.copy, TxSize, bridge.pos)
  /\ bridge' = [bridge EXCEPT !.pc = "slirp", !.back = "walk"]
  /\ UNCHANGED <<tx_ring, rx_ring, guest, xmit, drain, net_io_va, put, sent, crossed, rx_history>>

\* "the guest's tx ring is corrupt -- stopping rather than feeding slirp nonsense".
WalkCorrupt ==
  /\ bridge.pc = "walk" /\ bridge.pos # bridge.head /\ ~WalkGood
  /\ bridge' = [bridge EXCEPT !.pc = "corrupt"]
  /\ UNCHANGED <<tx_ring, rx_ring, guest, xmit, drain, net_io_va, put, tx_history, rx_history>>

\* slirp_input returns.  When the RX path filled meanwhile, ring_frame answers false and the
\* walk ends with this frame left in the ring.
FrameDone ==
  /\ bridge.pc = "slirp" /\ bridge.back = "walk"
  /\ bridge' = IF bridge.full THEN [bridge EXCEPT !.pc = "take"]
               ELSE [bridge EXCEPT !.pc = "walk",
                                   !.pos = Add(@, RecordWords(LengthAt(bridge.copy, TxSize, @)))]
  /\ UNCHANGED <<tx_ring, rx_ring, guest, xmit, drain, net_io_va, put, tx_history, rx_history>>

WalkEnd ==
  /\ bridge.pc = "walk" /\ bridge.pos = bridge.head
  /\ bridge' = [bridge EXCEPT !.pc = "take"]
  /\ UNCHANGED <<tx_ring, rx_ring, guest, xmit, drain, net_io_va, put, tx_history, rx_history>>

\* co_net_take lets the tail move forward, and at most to the head.
TakeAllowed(new_tail) == Sub(new_tail, tx_tail) <= Sub(tx_head, tx_tail)

\* A slip: the whole snapshot is taken, walked or not.
TakeWhole ==
  /\ bridge.pc = "take" /\ net_io_va /\ TakeAllowed(bridge.head)
  /\ tx_tail' = bridge.head /\ crossed' = (crossed \/ bridge.guest # guest.n)
  /\ bridge' = [bridge EXCEPT !.pc = "slirp", !.back = "poll"]
  /\ UNCHANGED <<tx, tx_head, rx_ring, guest, xmit, drain, net_io_va, put, sent, input,
                 rx_history>>

\* co_manager_conet_take with what the walk consumed; nothing is asked when nothing was.
co_net_take ==
  /\ bridge.pc = "take"
  /\ bridge.pos = bridge.tail \/ (net_io_va /\ TakeAllowed(bridge.pos))
  /\ IF bridge.pos = bridge.tail THEN UNCHANGED <<tx_tail, crossed>>
     ELSE tx_tail' = bridge.pos /\ crossed' = (crossed \/ bridge.guest # guest.n)
  /\ bridge' = [bridge EXCEPT !.pc = "slirp", !.back = "poll"]
  /\ UNCHANGED <<tx, tx_head, rx_ring, guest, xmit, drain, net_io_va, put, sent, input,
                 rx_history>>

\* "consume refused": the bridge exits.
TakeRefused ==
  /\ bridge.pc = "take" /\ bridge.pos # bridge.tail
  /\ ~(net_io_va /\ TakeAllowed(bridge.pos))
  /\ bridge' = [bridge EXCEPT !.pc = "refused"]
  /\ UNCHANGED <<tx_ring, rx_ring, guest, xmit, drain, net_io_va, put, tx_history, rx_history>>

Appended(b, len, id) ==
  [b EXCEPT !.batch = Append(@, [id |-> id, len |-> len]), !.used = @ + RecordWords(len), !.out = 0]

\* slirp_output_to_ring: the frame joins the batch, after a flush when it does not fit.
SlirpOutput(len) ==
  /\ bridge.pc = "slirp" /\ replied < MaxReplies
  /\ IF bridge.used + RecordWords(len) <= BatchSize
     THEN bridge' = Appended(bridge, len, replied + 1) /\ replied' = replied + 1
     ELSE bridge' = [bridge EXCEPT !.pc = "flush", !.out = len] /\ UNCHANGED replied
  /\ UNCHANGED <<tx_ring, rx_ring, guest, xmit, drain, net_io_va, put, tx_history, placed, got>>

\* A slip: a turn ends without a flush.
PollNoFlush ==
  /\ bridge.pc = "slirp" /\ bridge.back = "poll"
  /\ bridge' = [bridge EXCEPT !.pc = "fetch"]
  /\ UNCHANGED <<tx_ring, rx_ring, guest, xmit, drain, net_io_va, put, tx_history, rx_history>>

\* slirp_select_poll returns, and the turn ends with ring_flush.
PollDone ==
  /\ bridge.pc = "slirp" /\ bridge.back = "poll"
  /\ bridge' = [bridge EXCEPT !.pc = IF bridge.batch = << >> THEN "fetch" ELSE "flush"]
  /\ UNCHANGED <<tx_ring, rx_ring, guest, xmit, drain, net_io_va, put, tx_history, rx_history>>

\* What follows ring_flush, with the batch b it leaves behind: back to the loop, or the frame
\* that asked for room is queued, or dropped when there still is none.
Flushed(b) ==
  IF b.out = 0 THEN bridge' = [b EXCEPT !.pc = "fetch"] /\ UNCHANGED replied
  ELSE IF b.used + RecordWords(b.out) <= BatchSize
       THEN bridge' = [Appended(b, b.out, replied + 1) EXCEPT !.pc = "slirp"] /\ replied' = replied + 1
       ELSE bridge' = [b EXCEPT !.pc = "slirp", !.out = 0, !.full = TRUE] /\ UNCHANGED replied

\* co_net_put takes net_lock and finds no rings.
PutGone ==
  /\ bridge.pc = "flush" /\ ~net_io_va
  /\ Flushed([bridge EXCEPT !.full = TRUE])
  /\ UNCHANGED <<tx_ring, rx_ring, guest, xmit, drain, net_io_va, put, tx_history, placed, got>>

PutBegin ==
  /\ bridge.pc = "flush" /\ net_io_va
  /\ put' = [on |-> TRUE, head |-> rx_head, tail |-> rx_tail, pos |-> 0, n |-> 0]
  /\ bridge' = [bridge EXCEPT !.pc = "put"]
  /\ UNCHANGED <<tx_ring, rx_ring, guest, xmit, drain, net_io_va, tx_history, rx_history>>

PutFits ==
  /\ put.n < Len(bridge.batch)
  /\ Sub(put.head, put.tail) + RecordWords(bridge.batch[put.n + 1].len) <= RxSize

PutRecord ==
  /\ bridge.pc = "put" /\ PutFits
  /\ LET f == bridge.batch[put.n + 1] IN
     /\ rx' = Written(rx, RxSize, put.head, f.id, f.len)
     /\ put' = [put EXCEPT !.head = Add(@, RecordWords(f.len)), !.n = @ + 1,
                           !.pos = @ + RecordWords(f.len)]
  /\ UNCHANGED <<tx_ring, rx_head, rx_tail, guest, xmit, drain, net_io_va, bridge, tx_history,
                 rx_history>>

\* One publish for the whole batch; what did not fit stays at the front for the next flush.
PutPublish ==
  /\ bridge.pc = "put" /\ ~PutFits
  /\ rx_head' = put.head
  /\ placed' = IF put.n = 0 THEN placed ELSE bridge.batch[put.n].id
  /\ Flushed([bridge EXCEPT !.batch = SubSeq(@, put.n + 1, Len(@)), !.used = @ - put.pos,
                            !.full = @ \/ put.n < Len(bridge.batch)])
  /\ put' = NotPutting
  /\ UNCHANGED <<tx_ring, rx, rx_tail, guest, xmit, drain, net_io_va, tx_history, got>>

-----------------------------------------------------------------------------
Transmits == XmitCopy \/ XmitPublish
Receives == DrainBegin \/ DrainRecord \/ DrainStore

GuestNext ==
  \/ Boot \/ GuestStops \/ Retire \/ co_net_open \/ co_net_stop
  \/ \E len \in Lengths : XmitBegin(len)
  \/ Transmits \/ Receives

BridgeNext ==
  \/ FetchIndices \/ FetchChunk \/ FetchGone
  \/ WalkFrame \/ WalkCorrupt \/ FrameDone \/ WalkEnd
  \/ co_net_take \/ TakeRefused
  \/ \E len \in Lengths : SlirpOutput(len)
  \/ PollDone
  \/ PutGone \/ PutBegin \/ PutRecord \/ PutPublish

Next == GuestNext \/ BridgeNext

\* The bridge is a loop that never blocks for good; the guest's receive thread polls every
\* jiffy; a transmit that has begun is finished by its processor.
Fairness ==
  /\ WF_vars(BridgeNext)
  /\ WF_vars(Transmits)
  /\ WF_vars(Receives)

Spec == Init /\ [][Next]_vars /\ Fairness

-----------------------------------------------------------------------------
BridgeEnds == {"left", "corrupt", "refused"}

TypeOK ==
  /\ {tx_head, tx_tail, rx_head, rx_tail} \subseteq 0..(Wrap - 1)
  /\ Sub(tx_head, tx_tail) <= TxSize /\ Sub(rx_head, rx_tail) <= RxSize
  /\ guest.n \in 0..MaxGuests /\ guest.state \in {"off", "running", "stopped"}
  /\ bridge.pc \in Fetching \cup {"walk", "take", "slirp", "flush", "put"} \cup BridgeEnds
  /\ bridge.used <= BatchSize /\ bridge.quiet <= GonePolls
  /\ put.on <=> bridge.pc = "put"

\* The snapshot the bridge works on is this guest's, and no snapshot of an earlier guest was
\* ever taken out of this one's ring.
Current == bridge.guest = guest.n /\ ~crossed

\* Frames reach slirp in the order the guest sent them, whole and without a gap, whatever the
\* guest transmits while the bridge dumps, walks and takes: each frame handed over is the next
\* one, or the one before it once more.
TxInOrder ==
  [][Current /\ bridge.pc = "walk" /\ bridge'.pc = "slirp" => input' \in {input, input + 1}]_vars

\* No frame leaves the TX ring unseen: when the ring is empty slirp has had everything sent.
TxComplete ==
  Running /\ Current /\ tx_head = tx_tail => input = sent

\* The guest takes frames off the RX ring whole, in slirp's order and each one once, although
\* a batch is still being written behind the head it read.
RxInOrder ==
  [][drain.pc = "read" /\ drain'.tail # drain.tail /\ drain'.pc = "read" => got' = got + 1]_vars

\* An RX ring found empty between drains lost nothing that was placed in it.
RxComplete ==
  Running /\ drain.pc = "idle" /\ rx_head = rx_tail => got = placed

\* Neither end ever finds the other's ring out of step: the guest never resets its RX ring,
\* and the bridge never stops over a corrupt TX ring, unless the snapshot outlived its guest.
RingsAgree ==
  /\ ~Desync
  /\ bridge.pc \in {"corrupt", "refused"} => ~Current \/ ~net_io_va

\* Whatever the guest has sent reaches slirp, while the guest runs with its device up.
TxReachesSlirp ==
  Running /\ input < sent ~>
    input = sent \/ crossed \/ ~Running \/ ~guest.up \/ bridge.pc \in BridgeEnds

\* Whatever slirp has produced reaches the guest, however few frames there are in a batch.
RxReachesGuest ==
  Running /\ got < replied ~>
    got = replied \/ ~Running \/ ~guest.up \/ bridge.pc \in BridgeEnds
=============================================================================
