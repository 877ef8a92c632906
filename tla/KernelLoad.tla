------------------------------ MODULE KernelLoad ------------------------------
(***************************************************************************)
(* The guest's memory: who allocates it, who walks it, who frees it.       *)
(*                                                                         *)
(* kernel/kload.c keeps one guest's memory in globals (the address space,  *)
(* the block array, the p2m/m2p tables).  KLOAD_BEGIN, KRAM, KBOOT and     *)
(* KLOAD_END arrive from the boot daemon in that order; KREAD and the      *)
(* console and network bridges walk the guest's page tables from other     *)
(* processes; KMAP and KMAP_RANGE (kernel/manager.c) map the blocks into   *)
(* the GPU daemon and defer the release of the pages while they do.        *)
(*                                                                         *)
(* Memory is named by the load that allocated it: load g owns at most four *)
(* pieces, <<g, "space">>, <<g, "tables">>, <<g, "image">>, <<g, "ram">>.  *)
(* live is the set of pieces the host has handed out and not got back.     *)
(***************************************************************************)
EXTENDS Naturals, FiniteSets

CONSTANTS Loader,      \* the boot daemon
          Enders,      \* other processes that send KLOAD_END and nothing else
          Handles,     \* manager handles that map guest RAM
          Bridges,     \* console pump, network bridge: one lock and address each
          MaxLoads,    \* bound: KLOAD_BEGINs in a behaviour
          None

Senders == {Loader} \cup Enders
Loads == 1..MaxLoads
Blocks == {"image", "ram"}
Pieces == Loads \X ({"space", "tables"} \cup Blocks)

ASSUME SendersAssumption == Loader \notin Enders /\ None \notin Senders
ASSUME LoadsAssumption == MaxLoads \in Nat
ASSUME HandlesAssumption == IsFiniteSet(Handles)

VARIABLES
  load,        \* KLOAD_BEGINs so far: names the memory of the latest
  space,       \* kload_space: the load it belongs to, 0 for NULL
  blocks,      \* kload_block[0 .. kload_block_count - 1]
  p2m,         \* kload_p2m and kload_m2p: the load they belong to, 0 for NULL
  user_ram,    \* kload_user_ram_va: is the RAM a view of the daemon's section?
  ram_ready, pending_free, user_maps,
  live,
  kread,       \* the load whose tables a KREAD walks holding kload_lock, or 0
  address,     \* per bridge, is its address published?
  walking,     \* per bridge, the load whose tables it walks holding its lock, or 0
  sender,      \* per sender, where it is
  run,         \* the run gate: the load the monitor loop runs in, or 0
  handle,      \* per handle, where its ioctl is
  reserved,    \* kmap_reserved
  slices,      \* kmap_slice: the pieces mapped into the process
  unlinked     \* slices taken off the list and not yet unmapped

memory == <<space, blocks, p2m, user_ram, ram_ready, pending_free, user_maps, live>>
guards == <<kread, address, walking>>
maps == <<handle, reserved, slices, unlinked>>
vars == <<load, memory, guards, sender, run, maps>>

TypeOK ==
  /\ load \in 0..MaxLoads
  /\ space \in 0..MaxLoads /\ p2m \in 0..MaxLoads /\ run \in 0..MaxLoads
  /\ blocks \subseteq Loads \X Blocks /\ live \subseteq Pieces
  /\ user_ram \in BOOLEAN /\ ram_ready \in BOOLEAN /\ pending_free \in BOOLEAN
  /\ user_maps \in 0..Cardinality(Handles)
  /\ kread \in 0..MaxLoads
  /\ address \in [Bridges -> BOOLEAN] /\ walking \in [Bridges -> 0..MaxLoads]
  /\ sender \in [Senders -> {"idle", "wait", "alloc", "grow", "create", "map",
       "destroy", "release", "loaded", "kram", "ready", "built", "boot", "running",
       "retire", "stopped", "end", "free"}]
  /\ handle \in [Handles -> {"idle", "asked", "first", "one", "all", "unmap", "drop",
       "put"}]
  /\ reserved \in [Handles -> BOOLEAN]
  /\ slices \in [Handles -> SUBSET Pieces] /\ unlinked \in [Handles -> SUBSET Pieces]

Init ==
  /\ load = 0 /\ space = 0 /\ blocks = {} /\ p2m = 0 /\ live = {}
  /\ user_ram = FALSE /\ ram_ready = FALSE /\ pending_free = FALSE /\ user_maps = 0
  /\ kread = 0 /\ run = 0
  /\ address = [b \in Bridges |-> FALSE] /\ walking = [b \in Bridges |-> 0]
  /\ sender = [s \in Senders |-> "idle"]
  /\ handle = [h \in Handles |-> "idle"] /\ reserved = [h \in Handles |-> FALSE]
  /\ slices = [h \in Handles |-> {}] /\ unlinked = [h \in Handles |-> {}]

Move(s, to) == sender' = [sender EXCEPT ![s] = to]
Step(h, to) == handle' = [handle EXCEPT ![h] = to]

(***************************************************************************)
(* Release and teardown                                                    *)
(***************************************************************************)

\* kload_release_pages: everything the globals name goes back, and they are reset.
\* The space was destroyed before; gone is what the caller frees beside the pages.
release_pages(gone) ==
  /\ live' = live \ (gone \cup blocks \cup {<<p2m, "tables">>})
  /\ blocks' = {} /\ p2m' = 0
  /\ ram_ready' = FALSE /\ user_ram' = FALSE

\* No walk is inside any lock that co_kload_free takes.
LocksFree == kread = 0 /\ \A b \in Bridges : walking[b] = 0

\* Slip: the bridges are not retired (what KLOAD_BEGIN's free once did).
FreeUnderWalks ==
  IF space = 0 /\ blocks = {} /\ p2m = 0
  THEN /\ kread = 0
       /\ ram_ready' = FALSE
       /\ UNCHANGED <<space, blocks, p2m, user_ram, pending_free, user_maps, live,
                      address>>
  ELSE /\ kread = 0
       /\ space' = 0
       /\ IF user_maps # 0
          THEN /\ pending_free' = TRUE
               /\ ram_ready' = FALSE
               /\ live' = live \ {<<space, "space">>}
               /\ UNCHANGED <<blocks, p2m, user_ram, user_maps>>
          ELSE /\ release_pages({<<space, "space">>})
               /\ UNCHANGED <<pending_free, user_maps>>
       /\ UNCHANGED address

\* co_kload_free: one hold of kload_lock, and of each bridge's lock inside it.
\* The pages stay while a user mapping is outstanding.
co_kload_free ==
  IF space = 0 /\ blocks = {} /\ p2m = 0
  THEN /\ kread = 0
       /\ ram_ready' = FALSE
       /\ UNCHANGED <<space, blocks, p2m, user_ram, pending_free, user_maps, live,
                      address>>
  ELSE /\ LocksFree
       /\ address' = [b \in Bridges |-> FALSE]
       /\ space' = 0
       /\ IF user_maps # 0
          THEN /\ pending_free' = TRUE
               /\ ram_ready' = FALSE
               /\ live' = live \ {<<space, "space">>}
               /\ UNCHANGED <<blocks, p2m, user_ram, user_maps>>
          ELSE /\ release_pages({<<space, "space">>})
               /\ UNCHANGED <<pending_free, user_maps>>

(***************************************************************************)
(* KLOAD_BEGIN                                                             *)
(***************************************************************************)

BeginFree ==
  /\ sender[Loader] = "idle" /\ load < MaxLoads
  /\ co_kload_free
  /\ load' = load + 1
  /\ Move(Loader, "wait")
  /\ UNCHANGED <<kread, walking, run, maps>>

\* Slip: the new load does not wait for the old one's pages.
NoWait ==
  /\ sender[Loader] = "wait"
  /\ kread = 0
  /\ Move(Loader, "alloc")
  /\ UNCHANGED <<load, memory, guards, run, maps>>

\* kload_wait_for_deferred_free: go on once nothing is pending, or give up at 10 s.
WaitForDeferredFree ==
  /\ sender[Loader] = "wait"
  /\ kread = 0
  /\ Move(Loader, IF pending_free THEN "idle" ELSE "alloc")
  /\ UNCHANGED <<load, memory, guards, run, maps>>

\* The offered section is noted, the ranges are checked, p2m and m2p are allocated.
\* A bad range or a failed allocation returns with the offer still noted.
BeginAlloc ==
  /\ sender[Loader] = "alloc"
  /\ \E offered \in BOOLEAN : user_ram' = (user_ram \/ offered)
  /\ \/ /\ p2m' = load
        /\ live' = live \cup {<<load, "tables">>}
        /\ Move(Loader, "grow")
     \/ /\ Move(Loader, "idle")
        /\ UNCHANGED <<p2m, live>>
  /\ UNCHANGED <<load, space, blocks, ram_ready, pending_free, user_maps, guards, run, maps>>

\* kload_grow_to: all of part is backed, or some, or none of it, before pool runs out.
Grow(part) ==
  \/ blocks' = blocks \cup {<<load, part>>} /\ live' = live \cup {<<load, part>>}
  \/ UNCHANGED <<blocks, live>>

BeginGrow ==
  /\ sender[Loader] = "grow"
  /\ Grow("image")
  /\ \E to \in {"create", "release"} :
       /\ to = "create" => <<load, "image">> \in blocks'
       /\ Move(Loader, to)
  /\ UNCHANGED <<load, space, p2m, user_ram, ram_ready, pending_free, user_maps,
                 guards, run, maps>>

BeginCreate ==
  /\ sender[Loader] = "create"
  /\ \/ /\ space' = load
        /\ live' = live \cup {<<load, "space">>}
        /\ Move(Loader, "map")
     \/ /\ Move(Loader, "release")
        /\ UNCHANGED <<space, live>>
  /\ UNCHANGED <<load, blocks, p2m, user_ram, ram_ready, pending_free, user_maps,
                 guards, run, maps>>

\* kload_map_translation_pages; failing, the space is unpublished before it is destroyed.
BeginMap ==
  /\ sender[Loader] = "map"
  /\ \/ Move(Loader, "loaded") /\ UNCHANGED space
     \/ Move(Loader, "destroy") /\ space' = 0
  /\ UNCHANGED <<load, blocks, p2m, user_ram, ram_ready, pending_free, user_maps,
                 live, guards, run, maps>>

\* The failure paths of KLOAD_BEGIN take no lock.
BeginDestroy ==
  /\ sender[Loader] = "destroy"
  /\ live' = live \ {<<load, "space">>}
  /\ Move(Loader, "release")
  /\ UNCHANGED <<load, space, blocks, p2m, user_ram, ram_ready, pending_free,
                 user_maps, guards, run, maps>>

BeginRelease ==
  /\ sender[Loader] = "release"
  /\ release_pages({})
  /\ Move(Loader, "idle")
  /\ UNCHANGED <<load, space, pending_free, user_maps, guards, run, maps>>

(***************************************************************************)
(* KRAM, KBOOT, KLOAD_END                                                  *)
(***************************************************************************)

\* co_kload_build_ram, in three parts: not ready, grow and map, ready.
KramStart ==
  /\ sender[Loader] = "loaded"
  /\ kread = 0
  /\ ram_ready' = FALSE
  /\ Move(Loader, "kram")
  /\ UNCHANGED <<load, space, blocks, p2m, user_ram, pending_free, user_maps, live,
                 guards, run, maps>>

\* Pool may run out early: the guest gets less.  A direct-map failure ends the load.
KramGrow ==
  /\ sender[Loader] = "kram"
  /\ IF space = 0 \/ blocks = {}
     THEN Move(Loader, "stopped") /\ UNCHANGED <<blocks, live>>
     ELSE /\ Grow("ram")
          /\ \E to \in {"ready", "stopped"} : Move(Loader, to)
  /\ UNCHANGED <<load, space, p2m, user_ram, ram_ready, pending_free, user_maps,
                 guards, run, maps>>

KramReady ==
  /\ sender[Loader] = "ready"
  /\ kread = 0
  /\ ram_ready' = TRUE
  /\ Move(Loader, "built")
  /\ UNCHANGED <<load, space, blocks, p2m, user_ram, pending_free, user_maps, live,
                 guards, run, maps>>

\* co_console_set_address, co_net_set_address: under the lock a walk holds.
SetAddresses(to) ==
  /\ \A b \in Bridges : walking[b] = 0
  /\ address' = [b \in Bridges |-> to]

KbootPublish ==
  /\ sender[Loader] = "built"
  /\ SetAddresses(TRUE)
  /\ Move(Loader, "boot")
  /\ UNCHANGED <<load, memory, kread, walking, run, maps>>

\* co_arch_boot_loaded: refused while a test owns the gate or with no space to enter.
KbootBegin ==
  /\ sender[Loader] = "boot"
  /\ \/ /\ space # 0
        /\ run' = space
        /\ Move(Loader, "running")
     \/ /\ Move(Loader, "stopped")
        /\ UNCHANGED run
  /\ UNCHANGED <<load, memory, guards, maps>>

\* The loop has ended; only a guest that terminated has its addresses retired here.
KbootEnd ==
  /\ sender[Loader] = "running"
  /\ run' = 0
  /\ \E to \in {"retire", "stopped"} : Move(Loader, to)
  /\ UNCHANGED <<load, memory, guards, maps>>

KbootRetire ==
  /\ sender[Loader] = "retire"
  /\ SetAddresses(FALSE)
  /\ Move(Loader, "stopped")
  /\ UNCHANGED <<load, memory, kread, walking, run, maps>>

\* The boot daemon ends what it loaded, on every path out; another process at any time.
EndsFrom(s) == IF s = Loader THEN {"loaded", "built", "stopped"} ELSE {"idle"}

\* co_arch_boot_running is read once, before anything else.
EndCheck(s) ==
  /\ sender[s] \in EndsFrom(s)
  /\ Move(s, IF run # 0 THEN "idle" ELSE "end")
  /\ UNCHANGED <<load, memory, guards, run, maps>>

EndRetire(s) ==
  /\ sender[s] = "end"
  /\ SetAddresses(FALSE)
  /\ Move(s, "free")
  /\ UNCHANGED <<load, memory, kread, walking, run, maps>>

EndFree(s) ==
  /\ sender[s] = "free"
  /\ co_kload_free
  /\ Move(s, "idle")
  /\ UNCHANGED <<load, kread, walking, run, maps>>

\* The boot daemon dies between two ioctls; its memory waits for the next KLOAD_BEGIN.
LoaderDies ==
  /\ sender[Loader] \in {"loaded", "built", "stopped"}
  /\ Move(Loader, "idle")
  /\ UNCHANGED <<load, memory, guards, run, maps>>

(***************************************************************************)
(* Walks of the guest's tables from other processes                        *)
(***************************************************************************)

\* co_console_pump, co_net_take, co_net_put, co_net_dump: the address is tested and
\* the tables are walked under the bridge's lock.
BridgeEnter(b) ==
  /\ walking[b] = 0 /\ address[b] /\ space # 0
  /\ walking' = [walking EXCEPT ![b] = space]
  /\ UNCHANGED <<load, memory, kread, address, sender, run, maps>>

BridgeLeave(b) ==
  /\ walking[b] # 0
  /\ walking' = [walking EXCEPT ![b] = 0]
  /\ UNCHANGED <<load, memory, kread, address, sender, run, maps>>

\* co_kload_read_locked: the space is tested and walked under kload_lock.
KreadEnter ==
  /\ kread = 0 /\ space # 0
  /\ kread' = space
  /\ UNCHANGED <<load, memory, address, walking, sender, run, maps>>

KreadLeave ==
  /\ kread # 0
  /\ kread' = 0
  /\ UNCHANGED <<load, memory, address, walking, sender, run, maps>>

(***************************************************************************)
(* KMAP, KMAP_RANGE, KMAP_UNMAP_RANGE, KUNMAP and IRP_MJ_CLEANUP           *)
(***************************************************************************)

\* co_kload_user_backed, asked before any lock is taken.
KmapAsk(h) ==
  /\ handle[h] = "idle" /\ ~user_ram
  /\ Step(h, "asked")
  /\ UNCHANGED <<load, memory, guards, sender, run, reserved, slices, unlinked>>

\* Slip: the reference is taken whether or not the RAM is finished.
TryGetUnready(h, to) ==
  /\ kread = 0
  /\ IF ~pending_free /\ blocks # {}
     THEN /\ user_maps' = user_maps + 1
          /\ reserved' = [reserved EXCEPT ![h] = TRUE]
          /\ Step(h, to)
     ELSE /\ Step(h, "idle")
          /\ UNCHANGED <<user_maps, reserved>>

\* Slip: the handle forgets that it holds a reference.
TryGetForgets(h, to) ==
  /\ kread = 0
  /\ IF ram_ready /\ ~pending_free /\ blocks # {}
     THEN user_maps' = user_maps + 1 /\ Step(h, to) /\ UNCHANGED reserved
     ELSE Step(h, "idle") /\ UNCHANGED <<user_maps, reserved>>

\* co_kload_user_map_try_get: readiness and the reference are one locked step.
user_map_try_get(h, to) ==
  /\ kread = 0
  /\ IF ram_ready /\ ~pending_free /\ blocks # {}
     THEN /\ user_maps' = user_maps + 1
          /\ reserved' = [reserved EXCEPT ![h] = TRUE]
          /\ Step(h, to)
     ELSE /\ Step(h, "idle")
          /\ UNCHANGED <<user_maps, reserved>>

\* KMAP_RANGE reserves once per handle; KMAP refuses a handle that already maps.
KmapReserve(h) ==
  /\ handle[h] = "asked"
  /\ \/ ~reserved[h] /\ \E to \in {"first", "all"} : user_map_try_get(h, to)
     \/ reserved[h] /\ \E to \in {"one", "idle"} : Step(h, to)
        /\ UNCHANGED <<user_maps, reserved>>
  /\ UNCHANGED <<load, space, blocks, p2m, user_ram, ram_ready, pending_free, live,
                 guards, sender, run, slices, unlinked>>

\* Slip: a first request that fails keeps its reference and forgets it.
RangeKeepsReference(h) ==
  /\ handle[h] \in {"first", "one"}
  /\ kread = 0
  /\ \/ \E p \in blocks : slices' = [slices EXCEPT ![h] = @ \cup {p}] /\ UNCHANGED reserved
     \/ reserved' = [reserved EXCEPT ![h] = handle[h] = "one"] /\ UNCHANGED slices
  /\ Step(h, "idle")
  /\ UNCHANGED <<load, memory, guards, sender, run, unlinked>>

\* co_manager_kmap_range: the block of the address is found and mapped, or a first
\* request that fails lets go of its reservation.
KmapRange(h) ==
  /\ handle[h] \in {"first", "one"}
  /\ kread = 0
  /\ \/ \E p \in blocks :
          /\ slices' = [slices EXCEPT ![h] = @ \cup {p}]
          /\ Step(h, "idle")
          /\ UNCHANGED reserved
     \/ /\ Step(h, IF handle[h] = "first" THEN "put" ELSE "idle")
        /\ reserved' = [reserved EXCEPT ![h] = handle[h] = "one"]
        /\ UNCHANGED slices
  /\ UNCHANGED <<load, memory, guards, sender, run, unlinked>>

\* co_manager_kmap: every block, or on failure the ones mapped so far come off.
KmapAll(h) ==
  /\ handle[h] = "all"
  /\ kread = 0
  /\ \/ /\ slices' = [slices EXCEPT ![h] = blocks]
        /\ Step(h, "idle")
        /\ UNCHANGED <<reserved, unlinked>>
     \/ /\ \E some \in SUBSET blocks : unlinked' = [unlinked EXCEPT ![h] = some]
        /\ reserved' = [reserved EXCEPT ![h] = FALSE]
        /\ Step(h, "drop")
        /\ UNCHANGED slices
  /\ UNCHANGED <<load, memory, guards, sender, run>>

\* co_manager_kmap_unmap_range: the reservation stays, even with the last slice gone.
KmapEvict(h) ==
  /\ handle[h] = "idle"
  /\ \E p \in slices[h] :
       /\ slices' = [slices EXCEPT ![h] = @ \ {p}]
       /\ unlinked' = [unlinked EXCEPT ![h] = {p}]
  /\ Step(h, "unmap")
  /\ UNCHANGED <<load, memory, guards, sender, run, reserved>>

\* co_manager_kmap_release: from KUNMAP, and from IRP_MJ_CLEANUP when the process goes.
KmapRelease(h) ==
  /\ handle[h] = "idle" /\ reserved[h]
  /\ unlinked' = [unlinked EXCEPT ![h] = slices[h]]
  /\ slices' = [slices EXCEPT ![h] = {}]
  /\ reserved' = [reserved EXCEPT ![h] = FALSE]
  /\ Step(h, "drop")
  /\ UNCHANGED <<load, memory, guards, sender, run>>

\* co_manager_kmap_unmap_list, after the handle's lock is let go.
KmapUnmap(h) ==
  /\ handle[h] \in {"unmap", "drop"}
  /\ unlinked' = [unlinked EXCEPT ![h] = {}]
  /\ Step(h, IF handle[h] = "drop" THEN "put" ELSE "idle")
  /\ UNCHANGED <<load, memory, guards, sender, run, reserved, slices>>

\* co_kload_user_map_put: the last one out completes a deferred teardown.
KmapPut(h) ==
  /\ handle[h] = "put"
  /\ kread = 0
  /\ user_maps' = IF user_maps > 0 THEN user_maps - 1 ELSE 0
  /\ IF user_maps' = 0 /\ pending_free
     THEN release_pages({}) /\ pending_free' = FALSE
     ELSE UNCHANGED <<blocks, p2m, user_ram, ram_ready, pending_free, live>>
  /\ Step(h, "idle")
  /\ UNCHANGED <<load, space, guards, sender, run, reserved, slices, unlinked>>

Begin == \/ BeginFree \/ WaitForDeferredFree \/ BeginAlloc \/ BeginGrow \/ BeginCreate
         \/ BeginMap \/ BeginDestroy \/ BeginRelease

Boot == \/ KramStart \/ KramGrow \/ KramReady
        \/ KbootPublish \/ KbootBegin \/ KbootEnd \/ KbootRetire

End(s) == EndCheck(s) \/ EndRetire(s) \/ EndFree(s)

Walk == \/ KreadEnter \/ KreadLeave
        \/ \E b \in Bridges : BridgeEnter(b) \/ BridgeLeave(b)

MapSteps(h) == KmapReserve(h) \/ KmapRange(h) \/ KmapAll(h) \/ KmapUnmap(h) \/ KmapPut(h)

Map(h) == KmapAsk(h) \/ MapSteps(h) \/ KmapEvict(h) \/ KmapRelease(h)

Next == \/ Begin \/ Boot \/ LoaderDies
        \/ \E s \in Senders : End(s)
        \/ Walk
        \/ \E h \in Handles : Map(h)

\* An ioctl that has started goes on, a walk ends, and the process that maps guest RAM
\* lets go of it some day: it calls KUNMAP or it exits.
Fairness ==
  /\ WF_vars(KreadLeave)
  /\ \A b \in Bridges : WF_vars(BridgeLeave(b))
  /\ \A h \in Handles : SF_vars(MapSteps(h)) /\ SF_vars(KmapRelease(h))

Spec == Init /\ [][Next]_vars /\ Fairness

(***************************************************************************)
(* Properties                                                              *)
(***************************************************************************)

\* What the globals name, and a space KLOAD_BEGIN has unpublished and not destroyed.
Named ==
  blocks \cup (IF p2m = 0 THEN {} ELSE {<<p2m, "tables">>})
         \cup (IF space = 0 THEN {} ELSE {<<space, "space">>})
         \cup (IF sender[Loader] = "destroy" THEN {<<load, "space">>} ELSE {})

\* No page is released while a process has it mapped, listed or on its way off the
\* list, whatever teardown, eviction and handle close do in between.
MappedPagesLive == \A h \in Handles : slices[h] \cup unlinked[h] \subseteq live

\* A bridge that walks a guest's tables finds the space and the image blocks that hold
\* them still allocated, across KLOAD_END, a dead daemon and the next KLOAD_BEGIN.
WalkersLive ==
  \A b \in Bridges : walking[b] # 0 =>
    {<<walking[b], "space">>, <<walking[b], "image">>} \subseteq live

\* The monitor loop's memory stays for as long as it runs.
RunKeepsMemory == run # 0 => {<<run, "space">>, <<run, "image">>} \subseteq live

\* No page goes back while a process maps it, a bridge walks the tables it holds or the
\* monitor loop runs in it.
PagesOutliveUsers == MappedPagesLive /\ WalkersLive /\ RunKeepsMemory

\* Memory is held exactly while a global names it: no refused, failed or abandoned load
\* strands a piece, and no global names a piece that went back.
NothingStranded == live = Named

\* The memory of the current load as the processes that map it see it.
MemoryState ==
  IF pending_free THEN "retired"
  ELSE IF blocks = {} THEN "none"
  ELSE IF ram_ready THEN "finished" ELSE "filling"

Lessees == {h \in Handles : slices[h] \cup unlinked[h] # {}}

Memory == INSTANCE GuestMemory WITH Users <- Handles, state <- MemoryState,
                                    lessees <- Lessees

\* kload.c keeps the promise of GuestMemory: nothing unfinished is mapped, nothing
\* mapped is freed, and a release that had to wait is a release of the same memory.
MemoryImplemented == Memory!Spec

\* A deferred release is not forgotten.
DeferredFreeCompletes == pending_free ~> ~pending_free
=============================================================================
