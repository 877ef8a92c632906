------------------------------ MODULE MCDevices ------------------------------
(***************************************************************************)
(* A running guest's dealings with its other processors and its devices,   *)
(* for TLC: the posted vectors of VcpuIpi, the network rings of NetRing,   *)
(* the terminal of ConsoleRing and the GPU queue of GpuQueue.  The four    *)
(* share no state; focus, chosen at the start, says which of them a        *)
(* behaviour is about, and the others stay as they began.                  *)
(***************************************************************************)
EXTENDS VcpuIpi

CONSTANTS TxSize, RxSize, Wrap, Lengths, DumpMax, BatchSize, GonePolls, MaxSent, MaxReplies,
  MaxGuests,
  OutSize, InSize, CountWrap, Writers, Nobody, MaxCount, MaxOut, MaxIn,
  Num, IdxWrap, Rings, Plain, ParkMax, SigMax, MaxRequests, MaxRestarts

\* Rings are powers of two inside the range of their indices, and the largest frame fits
\* an empty batch.
ASSUME SizesAssumption ==
  /\ {TxSize, RxSize, Wrap, OutSize, InSize, CountWrap, Num, IdxWrap} \subseteq Nat \ {0}
  /\ {MaxCount, MaxOut, MaxIn, ParkMax, SigMax, MaxRequests, MaxRestarts} \subseteq Nat
  /\ Wrap % TxSize = 0 /\ Wrap % RxSize = 0 /\ TxSize < Wrap /\ RxSize < Wrap
  /\ Lengths \subseteq 1..(BatchSize - 1)
  /\ CountWrap % OutSize = 0 /\ CountWrap % InSize = 0
  /\ OutSize < CountWrap /\ InSize < CountWrap /\ Nobody \notin Writers
  /\ IdxWrap % Num = 0 /\ Num < IdxWrap /\ Plain \notin Rings

VARIABLES
  focus,
  tx, tx_head, tx_tail, rx, rx_head, rx_tail, guest, xmit, drain, net_io_va, bridge, put, sent,
  input, crossed, replied, placed, got,
  out, out_head, out_tail, in, in_head, in_tail, hvc_co_out_lock, writer, reader, pump, printed,
  shown, typed, read,
  avail, avail_idx, used, used_idx, last_used, inflight, kind, work, vq, loop, parked, sig, fences,
  retired, hurried, dropped, done, restarts, exact

Net == INSTANCE NetRing
Console == INSTANCE ConsoleRing
Gpu == INSTANCE GpuQueue

net == <<tx, tx_head, tx_tail, rx, rx_head, rx_tail, guest, xmit, drain, net_io_va, bridge, put,
         sent, input, crossed, replied, placed, got>>
console == <<out, out_head, out_tail, in, in_head, in_tail, hvc_co_out_lock, writer, reader, pump,
             printed, shown, typed, read>>
gpu == <<avail, avail_idx, used, used_idx, last_used, inflight, kind, work, vq, loop, parked, sig,
         fences, retired, hurried, dropped, done, restarts, exact>>

DevicesInit ==
  /\ focus \in {"ipi", "net", "console", "gpu"}
  /\ Init /\ Net!Init /\ Console!Init /\ Gpu!Init

InIpi == focus = "ipi" /\ UNCHANGED <<focus, net, console, gpu>>
InNet == focus = "net" /\ UNCHANGED <<focus, vars, console, gpu>>
InConsole == focus = "console" /\ UNCHANGED <<focus, vars, net, gpu>>
InGpu == focus = "gpu" /\ UNCHANGED <<focus, vars, net, console>>

DevicesNext ==
  \/ InIpi /\ Next
  \/ InNet /\ Net!Next
  \/ InConsole /\ Console!Next
  \/ InGpu /\ Gpu!Next

all == <<focus, vars, net, console, gpu>>

\* The fairness of the component a behaviour is about, and of no other.
DevicesFairness ==
  /\ \A v \in Vcpus :
       /\ WF_all(InIpi /\ Runs(v))
       /\ SF_all(InIpi /\ Unlock(v))
       /\ SF_all(InIpi /\ Leaves(v))
  /\ WF_all(InNet /\ Net!BridgeNext)
  /\ WF_all(InNet /\ Net!Transmits)
  /\ WF_all(InNet /\ Net!Receives)
  /\ WF_all(InConsole /\ Console!Pump)
  /\ WF_all(InConsole /\ Console!Get)
  /\ WF_all(InConsole /\ Console!Finishes)
  /\ WF_all(InGpu /\ Gpu!DaemonNext)
  /\ WF_all(InGpu /\ Gpu!GuestNext)
  /\ \A k \in Rings : WF_all(InGpu /\ Gpu!Retires(k))

DevicesSpec == DevicesInit /\ [][DevicesNext]_all

DevicesLive == DevicesSpec /\ DevicesFairness

\* The state of each component has its type.
TypesOK == TypeOK /\ Net!TypeOK /\ Console!TypeOK /\ Gpu!TypeOK

\* NetRing: a ring found empty lost nothing that was put in it, and neither end ever finds the
\* other's ring out of step (TxComplete, RxComplete, RingsAgree there).
FramesComplete == Net!TxComplete /\ Net!RxComplete /\ Net!RingsAgree

\* NetRing: in both directions frames are handed over whole, in order and without a gap, while
\* the other end writes into the same ring (TxInOrder, RxInOrder there).
FramesInOrder == Net!TxInOrder /\ Net!RxInOrder

\* NetRing: what the guest sends reaches slirp and what slirp produces reaches the guest
\* (TxReachesSlirp, RxReachesGuest there).
FramesArrive == Net!TxReachesSlirp /\ Net!RxReachesGuest

\* ConsoleRing: the client is given every byte the ring took, and the guest every key typed,
\* once and in order (OutputExact, InputExact there).
BytesExact == Console!OutputExact /\ Console!InputExact

\* ConsoleRing: whatever is printed is shown and whatever is typed is read (OutputShown,
\* InputRead there).
BytesArrive == Console!OutputShown /\ Console!InputRead

\* GpuQueue: every outstanding chain is in exactly one place (see there).
RequestsAccounted == Gpu!RequestsAccounted

\* GpuQueue: no fenced request completes before its fence, and a retired fence's signal is not
\* lost on its way to the request parked for it (FenceContract, SignalOnItsWay there).
FencesKept == Gpu!FenceContract /\ Gpu!SignalOnItsWay

\* GpuQueue: everything the guest queued completes (see there).
RequestsComplete == Gpu!RequestsComplete
=============================================================================
