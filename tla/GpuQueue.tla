----------------------------- MODULE GpuQueue -----------------------------
(***************************************************************************)
(* The control queue of the GPU transport: the guest's virtio driver puts  *)
(* chains on a virtqueue in its own memory; the cogpu daemon, a Windows    *)
(* process, polls that memory, serves the chains, and publishes them in    *)
(* the used ring; the guest reaps them from its cooperative drain points.  *)
(*                                                                         *)
(* A request of a Venus context that carries a fence is answered but       *)
(* PARKED: its used element appears only once the renderer's own thread    *)
(* says the fence has retired.  Those signals cross to the daemon's main   *)
(* thread in a small locked ring.  The daemon may be restarted while the   *)
(* guest keeps going.                                                      *)
(*                                                                         *)
(* A request is its number, in the order the guest queued it; that number  *)
(* is also its fence id, which the guest draws from one rising counter.    *)
(* A request is "plain" or belongs to a fence ring of the renderer.        *)
(*                                                                         *)
(* Left out: kick, used_pending, reaped, the heartbeats and                *)
(* co_vgpu_inflight, which both sides write and neither side decides on,   *)
(* and the wake ioctl, which only shortens the wait for the next drain.    *)
(***************************************************************************)
EXTENDS Naturals, Sequences, FiniteSets

CONSTANTS Num,          \* vr->num: descriptors, one per chain here
          IdxWrap,      \* ring indices are taken modulo this (2^16 in the code)
          Rings,        \* the (context, ring) pairs fences are ordered on
          Plain,        \* the kind of a request that completes inline
          ParkMax,      \* entries of g_parked
          SigMax,       \* entries of g_fence_sig
          MaxRequests,  \* bound: requests the guest queues
          MaxRestarts   \* bound: times the daemon is restarted

Heads == 0 .. Num - 1
Requests == 1 .. MaxRequests
Kinds == Rings \cup {Plain}

VARIABLES
  avail,        \* the avail ring: slot -> descriptor head
  avail_idx,    \* avail->idx
  used,         \* the used ring: slot -> descriptor head
  used_idx,     \* used->idx, what the guest trusts
  last_used,    \* the guest's position in the used ring
  inflight,     \* head -> the request whose chain starts there, 0 if free
  kind,         \* request -> Plain or its fence ring, for the requests queued
  work,         \* the virtio-gpu work item is scheduled
  vq,           \* the daemon's cogpu_vring: joined, last_avail, used_idx
  loop,         \* the daemon's main thread: its step and the chain in its hands
  parked,       \* g_parked: the requests whose used element is withheld
  sig,          \* g_fence_sig, oldest first
  fences,       \* fences the renderer has accepted and not retired
  retired,      \* history: fences retired, or never accepted by the renderer
  hurried,      \* history: fenced requests completed inline, the table full
  dropped,      \* history: fences whose signal found g_fence_sig full
  done,         \* history: requests the guest has seen complete
  restarts,     \* bound: restarts so far
  exact         \* history: every join found exactly the outstanding requests

guestVars == <<avail, avail_idx, last_used, inflight, kind, work, done>>
daemonVars == <<used, used_idx, vq, loop, parked, hurried, restarts, exact>>
fenceVars == <<sig, fences, retired, dropped>>
vars == <<guestVars, daemonVars, fenceVars>>

(* Indices are 16-bit words; a distance between two of them is taken in    *)
(* the same width.                                                         *)
Inc(i) == (i + 1) % IdxWrap

Behind(ahead, behind) == (ahead + IdxWrap - behind) % IdxWrap

(* The ring positions from one index up to another.                        *)
Between(from, to) == {(from + i) % IdxWrap : i \in 0 .. (Behind(to, from) - 1)}

Published == {used[p % Num] : p \in Between(last_used, used_idx)}

Offered(from) == {avail[p % Num] : p \in Between(from, avail_idx)}

Busy == {h \in Heads : inflight[h] # 0}

NoChain == [head |-> 0, req |-> 0]

Top == [pc |-> "top", chain |-> NoChain, back |-> "top", upto |-> 0]

Init ==
  /\ avail = [s \in Heads |-> 0] /\ avail_idx = 0
  /\ used = [s \in Heads |-> 0] /\ used_idx = 0
  /\ last_used = 0
  /\ inflight = [h \in Heads |-> 0]
  /\ kind = <<>>
  /\ work = FALSE
  /\ vq = [joined |-> FALSE, last_avail |-> 0, used_idx |-> 0]
  /\ loop = Top
  /\ parked = {}
  /\ sig = <<>>
  /\ fences = {} /\ retired = {} /\ hurried = {} /\ dropped = {} /\ done = {}
  /\ restarts = 0 /\ exact = TRUE

(***************************************************************************)
(* The guest.                                                              *)
(***************************************************************************)

(* The virtio core writes a chain and publishes avail->idx; the transport's *)
(* notify is the barrier that orders the two for the daemon's poll.        *)
co_vgpu_notify(h, k) ==
  /\ Len(kind) < MaxRequests
  /\ inflight[h] = 0
  /\ inflight' = [inflight EXCEPT ![h] = Len(kind) + 1]
  /\ kind' = Append(kind, k)
  /\ avail' = [avail EXCEPT ![avail_idx % Num] = h]
  /\ avail_idx' = Inc(avail_idx)
  /\ UNCHANGED <<last_used, work, done>> /\ UNCHANGED daemonVars /\ UNCHANGED fenceVars

(* A drain point pokes the queue: the stock interrupt handler schedules    *)
(* the work item when the used ring has moved.                             *)
co_vgpu_drain ==
  /\ last_used # used_idx
  /\ work' = TRUE
  /\ UNCHANGED <<avail, avail_idx, last_used, inflight, kind, done>>
  /\ UNCHANGED daemonVars /\ UNCHANGED fenceVars

(* The work item takes one used element: the request on that head is       *)
(* complete and the head is free again.                                    *)
WorkReap ==
  LET h == used[last_used % Num] IN
  /\ work /\ last_used # used_idx
  /\ inflight[h] # 0
  /\ done' = done \cup {inflight[h]}
  /\ inflight' = [inflight EXCEPT ![h] = 0]
  /\ last_used' = Inc(last_used)
  /\ UNCHANGED <<avail, avail_idx, kind, work>> /\ UNCHANGED daemonVars /\ UNCHANGED fenceVars

(* The work item ends when the ring is empty.  A head that names no chain  *)
(* also ends it: the virtio core declares the queue broken and reaps no    *)
(* more.                                                                   *)
WorkEnd ==
  /\ work
  /\ last_used = used_idx \/ inflight[used[last_used % Num]] = 0
  /\ work' = FALSE
  /\ UNCHANGED <<avail, avail_idx, last_used, inflight, kind, done>>
  /\ UNCHANGED daemonVars /\ UNCHANGED fenceVars

(***************************************************************************)
(* The daemon's main thread.  One pass: join, pop and serve until the ring *)
(* is empty, then publish what retired on the renderer's threads.          *)
(***************************************************************************)

(* The queue is picked up where the guest's used index stands.             *)
Join ==
  /\ loop.pc = "top" /\ ~vq.joined
  /\ vq' = [joined |-> TRUE, last_avail |-> used_idx, used_idx |-> used_idx]
  /\ exact' = (exact /\ Offered(used_idx) = Busy \ Published)
  /\ loop' = [loop EXCEPT !.pc = "pop"]
  /\ UNCHANGED <<used, used_idx, parked, hurried, restarts>>
  /\ UNCHANGED guestVars /\ UNCHANGED fenceVars

NextPass ==
  /\ loop.pc = "top" /\ vq.joined
  /\ loop' = [loop EXCEPT !.pc = "pop"]
  /\ UNCHANGED <<used, used_idx, vq, parked, hurried, restarts, exact>>
  /\ UNCHANGED guestVars /\ UNCHANGED fenceVars

(* The chain cogpu_vring_pop would return: the head at last_avail.         *)
Head1 == avail[vq.last_avail % Num]

(* A slip: a queue with every descriptor in flight is taken for nonsense.  *)
PoppableShort ==
  /\ avail_idx # vq.last_avail
  /\ Behind(avail_idx, vq.last_avail) < Num

Poppable ==
  /\ avail_idx # vq.last_avail
  /\ Behind(avail_idx, vq.last_avail) <= Num

Fenced(r) == r # 0 /\ kind[r] # Plain

Popped(pc) ==
  /\ loop' = [loop EXCEPT !.pc = pc, !.chain = [head |-> Head1, req |-> inflight[Head1]],
                          !.back = "pop"]
  /\ vq' = [vq EXCEPT !.last_avail = Inc(@)]
  /\ UNCHANGED <<used, used_idx, parked, hurried, restarts, exact>> /\ UNCHANGED guestVars

(* serve() answers a request that needs no fence: it is published at once. *)
ServePlain ==
  /\ loop.pc = "pop" /\ Poppable
  /\ ~Fenced(inflight[Head1])
  /\ Popped("push")
  /\ UNCHANGED fenceVars

(* serve() creates the renderer's fence; from now on a renderer thread may *)
(* signal it, before the main thread has parked the chain.                 *)
ServeFenced ==
  LET r == inflight[Head1] IN
  /\ loop.pc = "pop" /\ Poppable
  /\ Fenced(r)
  /\ Popped("park")
  /\ fences' = fences \cup {r}
  /\ retired' = retired \ {r}
  /\ UNCHANGED <<sig, dropped>>

(* The renderer refuses the fence, or the answer is an error: nothing will *)
(* ever signal, so the request completes inline.                           *)
ServeRefused ==
  LET r == inflight[Head1] IN
  /\ loop.pc = "pop" /\ Poppable
  /\ Fenced(r)
  /\ Popped("push")
  /\ retired' = retired \cup {r}
  /\ UNCHANGED <<sig, dropped, fences>>

(* A slip: a chain that finds the table full is let go.                    *)
ParkDrops ==
  /\ loop.pc = "park"
  /\ parked' = IF Cardinality(parked) < ParkMax THEN parked \cup {loop.chain} ELSE parked
  /\ loop' = [loop EXCEPT !.pc = "pop"]
  /\ UNCHANGED <<used, used_idx, vq, hurried, restarts, exact>>
  /\ UNCHANGED guestVars /\ UNCHANGED fenceVars

(* The chain goes into the park table; a full table completes it inline.   *)
cogpu_park ==
  /\ loop.pc = "park"
  /\ \/ /\ Cardinality(parked) < ParkMax
        /\ parked' = parked \cup {loop.chain}
        /\ loop' = [loop EXCEPT !.pc = "pop"]
        /\ UNCHANGED hurried
     \/ /\ Cardinality(parked) >= ParkMax
        /\ hurried' = hurried \cup {loop.chain.req}
        /\ loop' = [loop EXCEPT !.pc = "push"]
        /\ UNCHANGED parked
  /\ UNCHANGED <<used, used_idx, vq, restarts, exact>>
  /\ UNCHANGED guestVars /\ UNCHANGED fenceVars

(* cogpu_vring_push: the element first, the index that makes the guest     *)
(* trust it afterwards.                                                    *)
PushElement ==
  /\ loop.pc = "push"
  /\ used' = [used EXCEPT ![vq.used_idx % Num] = loop.chain.head]
  /\ loop' = [loop EXCEPT !.pc = "index"]
  /\ UNCHANGED <<used_idx, vq, parked, hurried, restarts, exact>>
  /\ UNCHANGED guestVars /\ UNCHANGED fenceVars

PushIndex ==
  /\ loop.pc = "index"
  /\ vq' = [vq EXCEPT !.used_idx = Inc(@)]
  /\ used_idx' = Inc(vq.used_idx)
  /\ loop' = [loop EXCEPT !.pc = loop.back, !.chain = NoChain]
  /\ UNCHANGED <<used, parked, hurried, restarts, exact>>
  /\ UNCHANGED guestVars /\ UNCHANGED fenceVars

(* Nothing more to pop; an empty signal ring ends the pass too.            *)
PopEnds ==
  /\ loop.pc = "pop" /\ ~Poppable
  /\ loop' = IF sig = <<>> THEN Top ELSE [loop EXCEPT !.pc = "signals"]
  /\ UNCHANGED <<used, used_idx, vq, parked, hurried, restarts, exact>>
  /\ UNCHANGED guestVars /\ UNCHANGED fenceVars

(* The signal ring is drained with g_fence_lock held throughout.           *)
TakeSignal ==
  /\ loop.pc = "signals" /\ sig # <<>>
  /\ loop' = [loop EXCEPT !.pc = "release", !.upto = Head(sig)]
  /\ sig' = Tail(sig)
  /\ UNCHANGED <<used, used_idx, vq, parked, hurried, restarts, exact>>
  /\ UNCHANGED guestVars /\ UNCHANGED <<fences, retired, dropped>>

SignalsEnd ==
  /\ loop.pc = "signals" /\ sig = <<>>
  /\ loop' = Top
  /\ UNCHANGED <<used, used_idx, vq, parked, hurried, restarts, exact>>
  /\ UNCHANGED guestVars /\ UNCHANGED fenceVars

(* Two slips: a signal releases other rings too, or everything but its own. *)
ReleasedAnyRing(id) == {c \in parked : c.req <= id}

(* One signal stands for everything parked on its ring up to its id.       *)
Released(id) == {c \in parked : kind[c.req] = kind[id] /\ c.req <= id}

Release ==
  /\ loop.pc = "release"
  /\ \E c \in Released(loop.upto) :
       /\ parked' = parked \ {c}
       /\ loop' = [loop EXCEPT !.pc = "push", !.chain = c, !.back = "release"]
  /\ UNCHANGED <<used, used_idx, vq, hurried, restarts, exact>>
  /\ UNCHANGED guestVars /\ UNCHANGED fenceVars

ReleaseEnds ==
  /\ loop.pc = "release" /\ Released(loop.upto) = {}
  /\ loop' = [loop EXCEPT !.pc = "signals", !.upto = 0]
  /\ UNCHANGED <<used, used_idx, vq, parked, hurried, restarts, exact>>
  /\ UNCHANGED guestVars /\ UNCHANGED fenceVars

(* The daemon is restarted: its tables and its renderer are gone, the      *)
(* rings in guest memory are not.                                          *)
Restart ==
  /\ restarts < MaxRestarts
  /\ restarts' = restarts + 1
  /\ vq' = [joined |-> FALSE, last_avail |-> 0, used_idx |-> 0]
  /\ loop' = Top
  /\ parked' = {} /\ sig' = <<>> /\ fences' = {}
  /\ UNCHANGED <<used, used_idx, hurried, exact, retired, dropped>>
  /\ UNCHANGED guestVars

(***************************************************************************)
(* The renderer's threads.                                                 *)
(***************************************************************************)
FenceLocked ==
  \/ loop.pc \in {"signals", "release"}
  \/ loop.pc \in {"push", "index"} /\ loop.back = "release"

(* Fences of one ring retire in order; a full signal ring drops the signal. *)
cogpu_ctx_fence_signal(r) ==
  /\ r \in fences
  /\ \A o \in fences : kind[o] = kind[r] => r <= o
  /\ ~FenceLocked
  /\ fences' = fences \ {r}
  /\ retired' = retired \cup {r}
  /\ \/ /\ Len(sig) < SigMax
        /\ sig' = Append(sig, r) /\ UNCHANGED dropped
     \/ /\ Len(sig) >= SigMax
        /\ dropped' = dropped \cup {r} /\ UNCHANGED sig
  /\ UNCHANGED guestVars /\ UNCHANGED daemonVars

(* The next fence of ring k retires.                                       *)
Retires(k) == \E r \in Requests : r \in fences /\ kind[r] = k /\ cogpu_ctx_fence_signal(r)

GuestNext == co_vgpu_drain \/ WorkReap \/ WorkEnd

DaemonNext ==
  \/ Join \/ NextPass \/ ServePlain \/ ServeFenced \/ ServeRefused \/ cogpu_park
  \/ PushElement \/ PushIndex \/ PopEnds \/ TakeSignal \/ SignalsEnd
  \/ Release \/ ReleaseEnds

Next ==
  \/ \E h \in Heads, k \in Kinds : co_vgpu_notify(h, k)
  \/ GuestNext
  \/ DaemonNext
  \/ Restart
  \/ \E k \in Rings : Retires(k)

(* The daemon polls on a core of its own, the guest drains on every tick   *)
(* and its work items run, and the renderer finishes what it accepted.     *)
Fairness ==
  /\ WF_vars(DaemonNext)
  /\ WF_vars(GuestNext)
  /\ \A k \in Rings : WF_vars(Retires(k))

Spec == Init /\ [][Next]_vars /\ Fairness
-----------------------------------------------------------------------------
Chains == [head : Heads, req : 0 .. MaxRequests]

(* TypeOK: the queue's state is of these types.                            *)
TypeOK ==
  /\ avail \in [Heads -> Heads] /\ used \in [Heads -> Heads]
  /\ {avail_idx, used_idx, last_used} \subseteq 0 .. IdxWrap - 1
  /\ inflight \in [Heads -> 0 .. MaxRequests]
  /\ kind \in Seq(Kinds) /\ Len(kind) <= MaxRequests
  /\ work \in BOOLEAN /\ exact \in BOOLEAN
  /\ vq \in [joined : BOOLEAN, last_avail : 0 .. IdxWrap - 1, used_idx : 0 .. IdxWrap - 1]
  /\ loop \in [pc : {"top", "pop", "park", "push", "index", "signals", "release"},
               chain : Chains, back : {"top", "pop", "release"}, upto : 0 .. MaxRequests]
  /\ parked \subseteq Chains
  /\ sig \in Seq(Requests) /\ Len(sig) <= SigMax
  /\ {fences, retired, hurried, dropped, done} \subseteq SUBSET Requests
  /\ restarts \in 0 .. MaxRestarts

InHand == IF loop.pc \in {"park", "push", "index"} THEN {loop.chain.head} ELSE {}

Withheld == {c.head : c \in parked}

(* While every join has found exactly the outstanding requests, a chain the *)
(* guest has not got back is in exactly one place: still offered in the    *)
(* avail ring, in the daemon's hands, parked, or published; and nothing    *)
(* else is in those places.  None is lost and none is answered twice,      *)
(* whatever order fences retire in and wherever the daemon was killed.     *)
RequestsAccounted ==
  exact /\ vq.joined =>
    /\ Offered(vq.last_avail) \cup InHand \cup Withheld \cup Published = Busy
    /\ Behind(avail_idx, vq.last_avail) + Cardinality(InHand) + Cardinality(parked)
         + Behind(used_idx, last_used) = Cardinality(Busy)

(* The virtio fence contract: the guest never sees a fenced request in the *)
(* used ring before its own fence has retired, unless the park table was   *)
(* full when it was served.                                                *)
FenceContract ==
  exact => \A r \in done \cup {inflight[h] : h \in Published} :
    Fenced(r) => r \in retired \cup hurried

(* A parked request whose fence has retired has a signal on its way: in    *)
(* the ring or in the main thread's hands, unless the ring was full when   *)
(* the signal came.  A signal that arrives before its chain is parked is   *)
(* not lost.                                                               *)
SignalOnItsWay ==
  exact => \A c \in parked : c.req \in retired \ dropped =>
    \E id \in {sig[i] : i \in 1 .. Len(sig)} \cup {loop.upto} :
      id # 0 /\ kind[id] = kind[c.req] /\ c.req <= id

(* Everything the guest queued completes, as long as no signal was dropped *)
(* and no join found the wrong requests.                                   *)
RequestsComplete == (Busy # {}) ~> (Busy = {} \/ dropped # {} \/ ~exact)

(* What the daemon says of joining a running queue: the gap between used   *)
(* and avail is the guest's outstanding work.                              *)
JoinFindsOutstanding == exact
=============================================================================
