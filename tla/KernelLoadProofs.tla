--------------------------- MODULE KernelLoadProofs ---------------------------
(***************************************************************************)
(* Proofs about KernelLoad, for any number of loads, bridges and handles.  *)
(*                                                                         *)
(* The first half holds whoever sends KLOAD_END: no mapped page goes back, *)
(* and KernelLoad implements GuestMemory.  The second half is about a boot *)
(* daemon that is the only one to send it: nothing is stranded, and no     *)
(* walk and no run loses its memory.                                       *)
(***************************************************************************)
EXTENDS KernelLoad, FiniteSetTheorems, TLAPS

(***************************************************************************)
(* The invariant                                                           *)
(***************************************************************************)

\* The handles that hold a reference, or are about to put it back.
Holders == {h \in Handles : reserved[h] \/ handle[h] \in {"drop", "put"}}

\* What a handle has mapped, according to where its ioctl is.
HandleShape ==
  \A h \in Handles :
    /\ slices[h] # {} => reserved[h]
    /\ unlinked[h] # {} => handle[h] \in {"unmap", "drop"}
    /\ handle[h] \in {"first", "one", "all", "unmap"} => reserved[h]
    /\ handle[h] \in {"drop", "put"} => ~reserved[h]
    /\ handle[h] \in {"first", "all"} => slices[h] = {}

\* What is mapped is a block of the current load, and blocks are allocated.
Mapped ==
  /\ \A h \in Handles : slices[h] \cup unlinked[h] \subseteq blocks
  /\ blocks \subseteq live

\* A reference keeps finished or retired memory; a retired one is kept by a reference.
Held ==
  /\ user_maps = Cardinality(Holders)
  /\ Holders # {} => blocks # {} /\ (ram_ready \/ pending_free)
  /\ pending_free => Holders # {} /\ ~ram_ready

Filling == {"alloc", "grow", "create", "map", "destroy", "release", "loaded", "kram", "ready"}

\* While a load is being filled nobody has its memory mapped.
Loading ==
  /\ sender[Loader] # "idle" => load # 0
  /\ sender[Loader] = "wait" => ~ram_ready
  /\ sender[Loader] \in Filling => Holders = {} /\ ~ram_ready /\ ~pending_free

IInv == TypeOK /\ HandleShape /\ Mapped /\ Held /\ Loading

USE SendersAssumption, LoadsAssumption

\* The parts of TypeOK.
MemoryTypes ==
  /\ space \in 0..MaxLoads /\ p2m \in 0..MaxLoads
  /\ blocks \subseteq Loads \X Blocks /\ live \subseteq Pieces
  /\ user_maps \in 0..Cardinality(Handles)

FlagTypes == user_ram \in BOOLEAN /\ ram_ready \in BOOLEAN /\ pending_free \in BOOLEAN

RunTypes ==
  /\ load \in 0..MaxLoads /\ run \in 0..MaxLoads /\ kread \in 0..MaxLoads
  /\ address \in [Bridges -> BOOLEAN] /\ walking \in [Bridges -> 0..MaxLoads]

SenderTypes ==
  sender \in [Senders -> {"idle", "wait", "alloc", "grow", "create", "map", "destroy", "release",
    "loaded", "kram", "ready", "built", "boot", "running", "retire", "stopped", "end", "free"}]

HandleTypes ==
  /\ handle \in [Handles -> {"idle", "asked", "first", "one", "all", "unmap", "drop", "put"}]
  /\ reserved \in [Handles -> BOOLEAN]
  /\ slices \in [Handles -> SUBSET Pieces] /\ unlinked \in [Handles -> SUBSET Pieces]

\* The parts make the whole.
LEMMA Types == TypeOK <=> MemoryTypes /\ FlagTypes /\ RunTypes /\ SenderTypes /\ HandleTypes
  BY Zenon DEF TypeOK, MemoryTypes, FlagTypes, RunTypes, SenderTypes, HandleTypes

\* The holders are finitely many, and counted as such.
LEMMA HoldersCount ==
  /\ IsFiniteSet(Holders) /\ Cardinality(Holders) \in Nat
  /\ Cardinality(Holders) = 0 <=> Holders = {}
  /\ Cardinality(Holders) <= Cardinality(Handles) /\ Cardinality(Handles) \in Nat
<1>1. Holders \in SUBSET Handles  BY Zenon DEF Holders
<1>2. IsFiniteSet(Holders) /\ Cardinality(Holders) <= Cardinality(Handles)
  BY Zenon, <1>1, FS_Subset, HandlesAssumption
<1> QED  BY Zenon, <1>2, FS_EmptySet, FS_CardinalityType, HandlesAssumption

\* The initial state satisfies the invariant.
LEMMA InitIInv == Init => IInv
<1> SUFFICES ASSUME Init PROVE IInv  BY Zenon
<1>1. Holders = {}  BY Zenon DEF Holders, Init
<1>2. Cardinality(Handles) \in Nat /\ Cardinality({}) = 0
  BY Zenon, FS_CardinalityType, FS_EmptySet, HandlesAssumption
<1>3. TypeOK
  <2>1. MemoryTypes  BY <1>2 DEF Init, MemoryTypes
  <2>2. FlagTypes /\ SenderTypes  BY Zenon DEF Init, FlagTypes, SenderTypes
  <2>3. RunTypes /\ HandleTypes  BY DEF Init, RunTypes, HandleTypes
  <2> QED  BY Zenon, <2>1, <2>2, <2>3, Types
<1>4. HandleShape /\ Mapped  BY Zenon DEF Init, HandleShape, Mapped
<1>5. Held /\ Loading  BY Zenon, <1>1, <1>2 DEF Init, Held, Loading, Senders, Filling
<1> QED  BY Zenon, <1>3, <1>4, <1>5 DEF IInv

(***************************************************************************)
(* Steps of the senders: they leave the handles alone                      *)
(***************************************************************************)

\* With nobody at a handle the holders are the same.
LEMMA SameHolders == ASSUME UNCHANGED maps PROVE Holders' = Holders
  BY Zenon DEF maps, Holders

\* A space is no block.
LEMMA SpaceIsNoBlock ==
  ASSUME blocks \subseteq Loads \X Blocks, NEW g
  PROVE  <<g, "space">> \notin blocks /\ <<g, "tables">> \notin blocks
  BY Zenon DEF Blocks

\* Teardown keeps what is mapped, and counts as before.
LEMMA FreeKeeps ==
  ASSUME IInv, co_kload_free, UNCHANGED maps
  PROVE  /\ MemoryTypes' /\ FlagTypes' /\ HandleShape' /\ Mapped' /\ Held'
         /\ Holders' = Holders /\ ~ram_ready' /\ (Holders = {} => pending_free' = pending_free)
<1> USE DEF IInv
<1>1. Holders' = Holders  BY Zenon, SameHolders
<1>2. user_maps = 0 <=> Holders = {}  BY Zenon, HoldersCount DEF Held
<1>3. HandleShape'  BY Zenon DEF HandleShape, maps
<1>7. FlagTypes'
  <2>1. FlagTypes  BY Zenon, Types
  <2> QED  BY <2>1, Zenon DEF co_kload_free, release_pages, FlagTypes
<1>8. MemoryTypes  BY Zenon, Types
<1>4. CASE space = 0 /\ blocks = {} /\ p2m = 0
  <2>1. Mapped'  BY Zenon, <1>4 DEF co_kload_free, Mapped, maps
  <2>2. Held'  BY Zenon, <1>4, <1>1 DEF co_kload_free, Held
  <2> QED  BY Zenon, <1>1, <1>3, <1>4, <1>7, <1>8, <2>1, <2>2 DEF co_kload_free, MemoryTypes
<1>5. CASE ~(space = 0 /\ blocks = {} /\ p2m = 0) /\ user_maps # 0
  <2>1. Mapped'
    BY <1>5, <1>8, SpaceIsNoBlock, ZenonT(60) DEF co_kload_free, Mapped, maps, MemoryTypes
  <2>2. Held'  BY Zenon, <1>1, <1>2, <1>5 DEF co_kload_free, Held
  <2>3. MemoryTypes'  BY <1>5, <1>8 DEF co_kload_free, MemoryTypes
  <2> QED  BY Zenon, <1>1, <1>2, <1>3, <1>5, <1>7, <2>1, <2>2, <2>3 DEF co_kload_free
<1>6. CASE ~(space = 0 /\ blocks = {} /\ p2m = 0) /\ user_maps = 0
  <2>1. \A h \in Handles : slices[h] \cup unlinked[h] = {}
    BY Zenon, <1>2, <1>6 DEF Holders, HandleShape
  <2>2. Mapped'  BY Zenon, <1>6, <2>1 DEF co_kload_free, release_pages, Mapped, maps
  <2>3. Held'  BY Zenon, <1>1, <1>2, <1>6 DEF co_kload_free, release_pages, Held
  <2>4. MemoryTypes'  BY <1>6, <1>8 DEF co_kload_free, release_pages, MemoryTypes
  <2> QED  BY Zenon, <1>1, <1>3, <1>6, <1>7, <2>2, <2>3, <2>4 DEF co_kload_free, release_pages
<1> QED  BY Zenon, <1>4, <1>5, <1>6

\* KLOAD_BEGIN keeps the invariant.
LEMMA BeginKeeps == ASSUME IInv, Begin PROVE IInv'
<1>0. Loader \in Senders  BY Zenon DEF Senders
<1>1. UNCHANGED maps
  BY Zenon DEF Begin, BeginFree, WaitForDeferredFree, BeginAlloc, BeginGrow, BeginCreate, BeginMap,
         BeginDestroy, BeginRelease
<1>2. Holders' = Holders  BY Zenon, <1>1, SameHolders
<1>3. CASE BeginFree
  <2>1. MemoryTypes' /\ FlagTypes' /\ HandleShape' /\ Mapped' /\ Held' /\ ~ram_ready'
    BY Zenon, <1>1, <1>3, FreeKeeps DEF BeginFree
  <2>2. TypeOK'
    <3>1. RunTypes'
      <4>1. address' \in [Bridges -> BOOLEAN]
        BY <1>3, Types, Zenon DEF IInv, RunTypes, BeginFree, co_kload_free
      <4> QED  BY <1>3, <4>1, Types DEF IInv, RunTypes, BeginFree
    <3>2. SenderTypes'
      BY Zenon, <1>0, <1>3, Types DEF IInv, SenderTypes, BeginFree, Move
    <3>3. HandleTypes'  BY Zenon, <1>1, Types DEF IInv, HandleTypes, maps
    <3> QED  BY Zenon, <2>1, <3>1, <3>2, <3>3
      DEF TypeOK, MemoryTypes, FlagTypes, RunTypes, SenderTypes, HandleTypes
  <2>3. Loading'
    <3>1. load' # 0  BY <1>3, Types DEF IInv, RunTypes, BeginFree
    <3>2. sender'[Loader] = "wait"  BY Zenon, <1>0, <1>3, Types
                                    DEF IInv, SenderTypes, BeginFree, Move
    <3> QED  BY Zenon, <2>1, <3>1, <3>2 DEF Loading, Filling
  <2> QED  BY Zenon, <2>1, <2>2, <2>3 DEF IInv
<1>4. CASE WaitForDeferredFree
  <2>1. ~pending_free => Holders = {}  BY Zenon, <1>4 DEF IInv, Held, Loading, WaitForDeferredFree
  <2>2. TypeOK' /\ HandleShape' /\ Mapped'
    BY Zenon, <1>0, <1>4
    DEF IInv, TypeOK, HandleShape, Mapped, WaitForDeferredFree, memory, guards, maps,
       Move
  <2>3. Held'  BY Zenon, <1>2, <1>4 DEF IInv, Held, WaitForDeferredFree, memory
  <2>4. Loading'
    BY Zenon, <1>0, <1>2, <1>4, <2>1
    DEF IInv, TypeOK, Loading, WaitForDeferredFree, memory, Move, Filling
  <2> QED  BY Zenon, <2>2, <2>3, <2>4 DEF IInv
<1>5. CASE BeginAlloc \/ BeginGrow \/ BeginCreate \/ BeginMap
  <2>1. load \in Loads
    BY <1>5 DEF IInv, TypeOK, Loading, Loads, BeginAlloc, BeginGrow, BeginCreate, BeginMap
  <2>2. TypeOK'
    BY <1>0, <1>5, <2>1 DEF IInv, TypeOK, BeginAlloc, BeginGrow, BeginCreate, BeginMap, Grow, Move,
       guards, maps, Pieces, Blocks, Loads
  <2>3. HandleShape'  BY <1>1, SMTT(40) DEF IInv, HandleShape, maps
  <2>4. Mapped'
    BY Zenon, <1>1, <1>5 DEF IInv, Mapped, BeginAlloc, BeginGrow, BeginCreate, BeginMap, Grow, maps
  <2>5. Held'
    BY <1>2, <1>5 DEF IInv, Held, Loading, Filling, BeginAlloc, BeginGrow, BeginCreate, BeginMap
  <2>6. Loading'
    BY <1>0, <1>2, <1>5, SMTT(60)
       DEF IInv, TypeOK, Loading, Filling, BeginAlloc, BeginGrow, BeginCreate,
       BeginMap, Move
  <2> QED  BY Zenon, <2>2, <2>3, <2>4, <2>5, <2>6 DEF IInv
<1>6. CASE BeginDestroy \/ BeginRelease
  <2>1. Holders = {} /\ \A h \in Handles : slices[h] \cup unlinked[h] = {}
    BY Zenon, <1>6 DEF IInv, Loading, Filling, Holders, HandleShape, BeginDestroy, BeginRelease
  <2>2. TypeOK'
    <3>1. MemoryTypes' /\ RunTypes'
      BY <1>6, Types
      DEF IInv, MemoryTypes, RunTypes, BeginDestroy, BeginRelease, release_pages, guards
    <3>2. FlagTypes'  BY <1>6, Types, Zenon
          DEF IInv, FlagTypes, BeginDestroy, BeginRelease, release_pages
    <3>3. SenderTypes'
      BY Zenon, <1>0, <1>6, Types DEF IInv, SenderTypes, BeginDestroy, BeginRelease, Move
    <3>4. HandleTypes'  BY Zenon, <1>1, Types DEF IInv, HandleTypes, maps
    <3> QED  BY Zenon, <3>1, <3>2, <3>3, <3>4
      DEF TypeOK, MemoryTypes, FlagTypes, RunTypes, SenderTypes, HandleTypes
  <2>3. HandleShape'  BY Zenon, <1>1 DEF IInv, HandleShape, maps
  <2>4. Mapped'
    BY <1>1, <1>6, <2>1, SpaceIsNoBlock, Zenon
    DEF IInv, TypeOK, Mapped, BeginDestroy, BeginRelease, release_pages, maps
  <2>5. Held'
    BY <1>2, <1>6, <2>1 DEF IInv, Held, Loading, Filling, BeginDestroy, BeginRelease, release_pages
  <2>6. Loading'
    BY SMTT(60), <1>0, <1>2, <1>6, <2>1
    DEF IInv, TypeOK, Loading, Filling, BeginDestroy, BeginRelease,
       release_pages, Move
  <2> QED  BY Zenon, <2>2, <2>3, <2>4, <2>5, <2>6 DEF IInv
<1> QED  BY Zenon, <1>3, <1>4, <1>5, <1>6 DEF Begin

\* KRAM and KBOOT keep the invariant.
LEMMA BootKeeps == ASSUME IInv, Boot PROVE IInv'
<1>0. Loader \in Senders  BY Zenon DEF Senders
<1> USE DEF KramStart, KramGrow, KramReady, KbootPublish, KbootBegin, KbootEnd, KbootRetire
<1>1. UNCHANGED maps  BY Zenon DEF Boot
<1>2. Holders' = Holders  BY Zenon, <1>1, SameHolders
<1>3. TypeOK'
  <2>1. load # 0  BY Zenon DEF IInv, Loading, Boot
  <2>2. load \in Loads  BY <2>1 DEF IInv, TypeOK, Loads
  <2>3. MemoryTypes'
    <3>1. CASE KramGrow
      BY <2>2, <3>1, Types DEF IInv, MemoryTypes, Grow, Pieces, Blocks
    <3>2. CASE ~KramGrow
      <4>1. UNCHANGED <<space, blocks, p2m, user_maps, live>>  BY <3>2, Zenon DEF Boot, memory
      <4> QED  BY Zenon, <4>1, Types DEF IInv, MemoryTypes
    <3> QED  BY Zenon, <3>1, <3>2
  <2>4. FlagTypes'  BY Types, Zenon DEF IInv, FlagTypes, Boot, memory
  <2>5. RunTypes'
    <3>1. address' \in [Bridges -> BOOLEAN]
      BY Types, Zenon DEF IInv, RunTypes, Boot, SetAddresses, guards
    <3>2. UNCHANGED <<load, kread, walking>> /\ run' \in {run, space, 0}
      BY Zenon DEF Boot, guards
    <3> QED  BY <3>1, <3>2, Types DEF IInv, RunTypes, MemoryTypes
  <2>6. SenderTypes'  BY <1>0, Types, ZenonT(60) DEF IInv, SenderTypes, Boot, Move
  <2>7. HandleTypes'  BY Zenon, <1>1, Types DEF IInv, HandleTypes, maps
  <2> QED  BY Zenon, <2>3, <2>4, <2>5, <2>6, <2>7
    DEF TypeOK, MemoryTypes, FlagTypes, RunTypes, SenderTypes, HandleTypes
<1>4. HandleShape'  BY Zenon, <1>1 DEF IInv, HandleShape, maps
<1>5. Mapped'  BY <1>1, Zenon DEF IInv, Mapped, Boot, Grow, maps, memory
<1>6. Held'
  <2>1. CASE KramStart \/ KramGrow \/ KramReady
    BY <1>2, <2>1 DEF IInv, Held, Loading, Filling
  <2>2. CASE KbootPublish \/ KbootBegin \/ KbootEnd \/ KbootRetire
    <3>1. UNCHANGED memory  BY <2>2, Zenon
    <3> QED  BY Zenon, <1>2, <3>1 DEF IInv, Held, memory
  <2> QED  BY <2>1, <2>2, Zenon DEF Boot
<1>7. Loading'
  <2>1. CASE KramStart \/ KramGrow \/ KramReady
    BY <1>0, <1>2, <2>1 DEF IInv, TypeOK, Loading, Filling, Move
  <2>2. CASE KbootPublish \/ KbootBegin \/ KbootEnd \/ KbootRetire
    BY <1>0, <1>2, <2>2, ZenonT(60) DEF IInv, TypeOK, Loading, Filling, Move
  <2> QED  BY <2>1, <2>2, Zenon DEF Boot
<1> QED  BY Zenon, <1>3, <1>4, <1>5, <1>6, <1>7 DEF IInv

\* A KLOAD_END of anybody, and the boot daemon's death, keep the invariant.
LEMMA EndKeeps ==
  ASSUME IInv, LoaderDies \/ \E s \in Senders : End(s)
  PROVE  IInv'
<1>0. Loader \in Senders  BY Zenon DEF Senders
<1>1. CASE LoaderDies
  <2>1. Holders' = Holders  BY Zenon, <1>1, SameHolders DEF LoaderDies
  <2> QED
    BY Zenon, <1>0, <1>1, <2>1
    DEF IInv, TypeOK, HandleShape, Mapped, Held, Loading, Filling, LoaderDies,
       Move, memory, guards, maps
<1>2. ASSUME NEW s \in Senders, EndCheck(s) \/ EndRetire(s)
      PROVE  IInv'
  <2>1. Holders' = Holders  BY <1>2, SameHolders, Zenon DEF EndCheck, EndRetire
  <2>2. UNCHANGED <<load, memory, kread, walking, run, maps>>
    BY <1>2, Zenon DEF EndCheck, EndRetire, guards
  <2>3. address' \in [Bridges -> BOOLEAN]
    BY <1>2, Types, Zenon DEF IInv, RunTypes, EndCheck, EndRetire, SetAddresses, guards
  <2>4. SenderTypes' /\ (sender'[Loader] = sender[Loader]
                         \/ sender'[Loader] \in {"idle", "end", "free"})
    BY <1>0, <1>2, Types, Zenon DEF IInv, SenderTypes, EndCheck, EndRetire, Move
  <2>5. sender[Loader] # "idle" \/ sender'[Loader] = "idle"
    BY <1>0, <1>2, Types, Zenon DEF IInv, SenderTypes, EndCheck, EndRetire, EndsFrom, Move
  <2>6. TypeOK'
    <3>1. MemoryTypes' /\ FlagTypes'  BY Zenon, <2>2, Types DEF IInv, MemoryTypes, FlagTypes, memory
    <3>2. RunTypes' /\ HandleTypes'  BY Zenon, <2>2, <2>3, Types
                                     DEF IInv, RunTypes, HandleTypes, maps
    <3> QED  BY Zenon, <2>4, <3>1, <3>2
      DEF TypeOK, MemoryTypes, FlagTypes, RunTypes, SenderTypes, HandleTypes
  <2>7. HandleShape' /\ Mapped'  BY Zenon, <2>2 DEF IInv, HandleShape, Mapped, memory, maps
  <2>8. Held'  BY Zenon, <2>1, <2>2 DEF IInv, Held, memory
  <2>9. Loading'  BY Zenon, <2>1, <2>2, <2>4, <2>5 DEF IInv, Loading, Filling, memory
  <2> QED  BY Zenon, <2>6, <2>7, <2>8, <2>9 DEF IInv
<1>3. ASSUME NEW s \in Senders, EndFree(s)
      PROVE  IInv'
  <2>1. UNCHANGED maps  BY Zenon, <1>3 DEF EndFree
  <2>2. /\ MemoryTypes' /\ FlagTypes' /\ HandleShape' /\ Mapped' /\ Held'
        /\ Holders' = Holders /\ ~ram_ready' /\ (Holders = {} => pending_free' = pending_free)
    BY Zenon, <1>3, <2>1, FreeKeeps DEF EndFree
  <2>3. TypeOK'
    <3>1. RunTypes'  BY <1>3, Types, Zenon DEF IInv, RunTypes, EndFree, co_kload_free
    <3>2. SenderTypes'  BY Zenon, <1>3, Types DEF IInv, SenderTypes, EndFree, Move
    <3>3. HandleTypes'  BY Zenon, <2>1, Types DEF IInv, HandleTypes, maps
    <3> QED  BY Zenon, <2>2, <3>1, <3>2, <3>3
      DEF TypeOK, MemoryTypes, FlagTypes, RunTypes, SenderTypes, HandleTypes
  <2>4. Loading'
    BY <1>0, <1>3, <2>2 DEF IInv, TypeOK, Loading, Filling, EndFree, Move
  <2> QED  BY Zenon, <2>2, <2>3, <2>4 DEF IInv
<1> QED  BY Zenon, <1>1, <1>2, <1>3 DEF End

\* Walks of the tables keep the invariant.
LEMMA WalkKeeps == ASSUME IInv, Walk PROVE IInv'
<1>1. UNCHANGED <<load, memory, address, sender, run, maps>>
  BY Zenon DEF Walk, KreadEnter, KreadLeave, BridgeEnter, BridgeLeave
<1>2. Holders' = Holders  BY Zenon, <1>1, SameHolders
<1>3. kread' \in 0..MaxLoads /\ walking' \in [Bridges -> 0..MaxLoads]
  BY DEF IInv, TypeOK, Walk, KreadEnter, KreadLeave, BridgeEnter, BridgeLeave
<1> QED
  BY Zenon, <1>1, <1>2, <1>3 DEF IInv, TypeOK, HandleShape, Mapped, Held, Loading, memory, maps

(***************************************************************************)
(* Steps of the handles                                                    *)
(***************************************************************************)

\* A block is a piece of memory.
LEMMA BlocksArePieces == Loads \X Blocks \subseteq Pieces
  BY Zenon DEF Pieces, Blocks

\* What the steps of a handle leave alone.
HandleAlone == <<load, memory, guards, sender, run>>

\* Every step of a handle but taking the first reference and putting it back.
LEMMA HandleKeeps ==
  ASSUME IInv, NEW h \in Handles,
         \/ KmapAsk(h) \/ KmapRange(h) \/ KmapAll(h) \/ KmapEvict(h) \/ KmapRelease(h)
         \/ KmapUnmap(h) \/ (KmapReserve(h) /\ UNCHANGED <<user_maps, reserved>>)
  PROVE  IInv' /\ UNCHANGED HandleAlone
<1> USE DEF KmapAsk, KmapRange, KmapAll, KmapEvict, KmapRelease, KmapUnmap, KmapReserve, Step
<1>1. UNCHANGED HandleAlone  BY Zenon DEF HandleAlone, memory
<1>2. blocks \subseteq Pieces  BY BlocksArePieces, SMTT(40) DEF IInv, TypeOK
<1>3. TypeOK'
  <2>1. handle' \in [Handles -> {"idle", "asked", "first", "one", "all", "unmap", "drop", "put"}]
    BY SMTT(40) DEF IInv, TypeOK, user_map_try_get
  <2>2. reserved' \in [Handles -> BOOLEAN]  BY ZenonT(40) DEF IInv, TypeOK
  <2>3. slices' \in [Handles -> SUBSET Pieces] /\ unlinked' \in [Handles -> SUBSET Pieces]
    BY <1>2 DEF IInv, TypeOK
  <2>4. HandleTypes'  BY <2>1, <2>2, <2>3, SMTT(40) DEF HandleTypes
  <2>5. MemoryTypes' /\ RunTypes' /\ SenderTypes'
    BY Zenon, <1>1, Types DEF IInv, MemoryTypes, RunTypes, SenderTypes, HandleAlone, memory, guards
  <2>6. FlagTypes'  BY <1>1, Types, SMTT(40) DEF IInv, FlagTypes, HandleAlone, memory
  <2> QED  BY <2>4, <2>5, <2>6, SMTT(60)
    DEF TypeOK, MemoryTypes, FlagTypes, RunTypes, SenderTypes, HandleTypes
<1>4. HandleShape'
  <2> USE DEF IInv, TypeOK, HandleShape
  <2>1. CASE KmapAsk(h)  BY <2>1, SMTT(60)
  <2>2. CASE KmapRange(h)
    <3>1. CASE handle'[h] = "put"
      <4>1. /\ handle[h] = "first" /\ slices[h] = {} /\ unlinked[h] = {} /\ UNCHANGED unlinked
            /\ slices' = slices /\ reserved' = [reserved EXCEPT ![h] = FALSE]
            /\ handle' = [handle EXCEPT ![h] = "put"]
        BY <2>2, <3>1, ZenonT(40)
      <4> QED  BY <4>1, SMTT(40)
    <3>2. CASE handle'[h] # "put"
      <4>1. /\ reserved[h] /\ unlinked[h] = {} /\ UNCHANGED unlinked
            /\ reserved' = reserved /\ handle' = [handle EXCEPT ![h] = "idle"]
            /\ \A g \in Handles \ {h} : slices'[g] = slices[g]
        BY ZenonT(60), <2>2, <3>2
      <4> QED  BY ZenonT(60), <4>1
    <3> QED  BY <3>1, <3>2, SMTT(60)
  <2>3. CASE KmapAll(h)  BY <2>3, SMTT(40)
  <2>4. CASE KmapEvict(h)  BY <2>4, SMTT(40)
  <2>5. CASE KmapRelease(h)  BY <2>5, SMTT(60)
  <2>6. CASE KmapUnmap(h)  BY <2>6, SMTT(60)
  <2>7. CASE KmapReserve(h) /\ UNCHANGED <<user_maps, reserved>>  BY <2>7, SMTT(60)
        DEF user_map_try_get
  <2> QED  BY <2>1, <2>2, <2>3, <2>4, <2>5, <2>6, <2>7, ZenonT(60)
<1>5. Mapped'
  <2>1. \A g \in Handles : slices'[g] \cup unlinked'[g] \subseteq blocks
    BY SMTT(60) DEF IInv, TypeOK, Mapped
  <2> QED  BY <1>1, <2>1, SMTT(60) DEF IInv, Mapped, HandleAlone, memory
<1>6. Holders' = Holders  BY SMTT(40) DEF IInv, TypeOK, HandleShape, Holders, user_map_try_get
<1>7. Held' /\ Loading'  BY Zenon, <1>1, <1>6 DEF IInv, Held, Loading, HandleAlone, memory
<1> QED  BY <1>1, <1>3, <1>4, <1>5, <1>7, SMTT(40) DEF IInv

\* Taking the first reference: the memory is finished and nobody retires it in the step.
LEMMA ReserveKeeps ==
  ASSUME IInv, NEW h \in Handles, KmapReserve(h), ~UNCHANGED <<user_maps, reserved>>
  PROVE  IInv' /\ UNCHANGED <<load, space, blocks, p2m, user_ram, ram_ready, pending_free, live,
                              guards, sender, run, slices, unlinked>>
<1> USE DEF KmapReserve, user_map_try_get, Step
<1>1. UNCHANGED <<load, space, blocks, p2m, user_ram, ram_ready, pending_free, live, guards,
                  sender, run, slices, unlinked>>
  BY Zenon
<1>2. /\ handle[h] = "asked" /\ ~reserved[h] /\ ram_ready /\ ~pending_free /\ blocks # {}
      /\ user_maps' = user_maps + 1 /\ reserved' = [reserved EXCEPT ![h] = TRUE]
      /\ \E to \in {"first", "all"} : handle' = [handle EXCEPT ![h] = to]
  BY Zenon
<1>3. Holders' = Holders \cup {h} /\ h \notin Holders
  BY <1>2, SMTT(40) DEF IInv, TypeOK, Holders
<1>4. Cardinality(Holders') = Cardinality(Holders) + 1
  BY <1>3, HoldersCount, FS_AddElement, Zenon
<1>5. Cardinality(Holders') <= Cardinality(Handles) /\ Cardinality(Handles) \in Nat
  <2>1. Holders' \in SUBSET Handles  BY Zenon DEF Holders
  <2> QED  BY Zenon, <2>1, FS_Subset, FS_CardinalityType, HandlesAssumption
<1>6. Held'  BY SMTT(60), <1>1, <1>2, <1>3, <1>4 DEF IInv, Held
<1>7. TypeOK'
  BY <1>1, <1>2, <1>4, <1>5, HoldersCount DEF IInv, TypeOK, Held, guards
<1>8. HandleShape'  BY ZenonT(60), <1>1, <1>2 DEF IInv, TypeOK, HandleShape
<1>9. Mapped'  BY Zenon, <1>1 DEF IInv, Mapped
<1>10. Loading'  BY Zenon, <1>1, <1>2 DEF IInv, Loading, Filling
<1> QED  BY Zenon, <1>1, <1>6, <1>7, <1>8, <1>9, <1>10 DEF IInv

\* Putting it back: the last one out completes a deferred teardown, of memory nobody maps.
LEMMA PutKeeps ==
  ASSUME IInv, NEW h \in Handles, KmapPut(h)
  PROVE  IInv'
<1> USE DEF KmapPut, Step
<1>1. /\ handle[h] = "put" /\ handle' = [handle EXCEPT ![h] = "idle"]
      /\ UNCHANGED <<load, space, guards, sender, run, reserved, slices, unlinked>>
  BY Zenon
<1>2. Holders' = Holders \ {h} /\ h \in Holders
  BY <1>1 DEF IInv, TypeOK, HandleShape, Holders
<1>3. Cardinality(Holders') = Cardinality(Holders) - 1
  BY <1>2, HoldersCount, FS_RemoveElement, Zenon
<1>4. user_maps' = Cardinality(Holders') /\ user_maps' \in 0..Cardinality(Handles)
  BY <1>2, <1>3, HoldersCount DEF IInv, Held
<1>5. user_maps' = 0 <=> Holders' = {}
  BY <1>2, <1>4, HoldersCount, FS_RemoveElement, FS_EmptySet, Zenon
<1>6. TypeOK'  BY <1>1, <1>4, Zenon DEF IInv, TypeOK, release_pages, guards
<1>7. HandleShape'  BY ZenonT(60), <1>1 DEF IInv, TypeOK, HandleShape
<1>8. CASE user_maps' = 0 /\ pending_free
  <2>1. \A g \in Handles : slices[g] \cup unlinked[g] = {}
    <3>1. \A g \in Handles : g # h => ~reserved[g] /\ handle[g] \notin {"drop", "put"}
      BY Zenon, <1>2, <1>5, <1>8 DEF Holders
    <3>2. handle[h] = "put"  BY Zenon, <1>1
    <3> QED  BY Zenon, <3>1, <3>2 DEF IInv, HandleShape
  <2>2. Mapped'  BY <1>1, <1>8, <2>1, Zenon DEF Mapped, release_pages
  <2>3. Held'  BY <1>4, <1>5, <1>8, Zenon DEF Held, release_pages
  <2>4. Loading'  BY <1>1, <1>8, Zenon DEF IInv, Loading, Filling, Held, release_pages
  <2> QED  BY Zenon, <1>6, <1>7, <2>2, <2>3, <2>4 DEF IInv
<1>9. CASE ~(user_maps' = 0 /\ pending_free)
  <2>1. UNCHANGED <<blocks, p2m, user_ram, ram_ready, pending_free, live>>  BY Zenon, <1>9
  <2>2. Mapped'  BY Zenon, <1>1, <2>1 DEF IInv, Mapped
  <2>3. Held'  BY Zenon, <1>2, <1>4, <1>5, <1>9, <2>1 DEF IInv, Held
  <2>4. Loading'  BY Zenon, <1>1, <1>2, <2>1 DEF IInv, Loading
  <2> QED  BY Zenon, <1>6, <1>7, <2>2, <2>3, <2>4 DEF IInv
<1> QED  BY Zenon, <1>8, <1>9

\* Every step keeps the invariant.
LEMMA StepIInv == IInv /\ [Next]_vars => IInv'
<1> SUFFICES ASSUME IInv, [Next]_vars PROVE IInv'  BY Zenon
<1>1. ASSUME NEW h \in Handles, Map(h) PROVE IInv'
  BY <1>1, HandleKeeps, ReserveKeeps, PutKeeps, SMTT(40) DEF Map, MapSteps
<1>2. CASE UNCHANGED vars
  <2>1. Holders' = Holders  BY Zenon, <1>2, SameHolders DEF vars
  <2> QED
    BY Zenon, <1>2, <2>1
    DEF IInv, TypeOK, HandleShape, Mapped, Held, Loading, vars, memory, guards, maps
<1> QED  BY Zenon, <1>1, <1>2, BeginKeeps, BootKeeps, EndKeeps, WalkKeeps DEF Next

\* The invariant holds in every behaviour.
THEOREM Invariance == Spec => []IInv
<1> QED  BY InitIInv, StepIInv, PTL DEF Spec

\* No page goes back to the host while a process has it mapped, whoever sends KLOAD_END.
THEOREM MappedPagesStay == Spec => []MappedPagesLive
<1>1. IInv => MappedPagesLive  BY Zenon DEF IInv, Mapped, MappedPagesLive
<1> QED  BY <1>1, Invariance, PTL

(***************************************************************************)
(* KernelLoad implements GuestMemory                                       *)
(***************************************************************************)

\* Whoever has something mapped holds a reference.
LEMMA LesseesHold == ASSUME IInv PROVE Lessees \subseteq Holders
  BY Zenon DEF IInv, HandleShape, Lessees, Holders

\* Teardown retires finished memory, or frees memory nobody maps, or changes nothing.
LEMMA FreeRefines ==
  ASSUME IInv, co_kload_free, UNCHANGED maps
  PROVE  [Memory!Retire \/ Memory!Free]_<<MemoryState, Lessees>>
<1>1. Lessees' = Lessees  BY Zenon DEF Lessees, maps
<1>2. user_maps = 0 <=> Holders = {}  BY Zenon, HoldersCount DEF IInv, Held
<1>3. CASE space = 0 /\ blocks = {} /\ p2m = 0
  BY Zenon, <1>1, <1>3 DEF co_kload_free, MemoryState, IInv, Held
<1>4. CASE ~(space = 0 /\ blocks = {} /\ p2m = 0) /\ user_maps # 0
  <2>1. MemoryState \in {"finished", "retired"} /\ MemoryState' = "retired"
    BY Zenon, <1>2, <1>4 DEF co_kload_free, MemoryState, IInv, Held
  <2> QED  BY Zenon, <1>1, <2>1 DEF Memory!Retire
<1>5. CASE ~(space = 0 /\ blocks = {} /\ p2m = 0) /\ user_maps = 0
  <2>1. Lessees = {}  BY Zenon, <1>2, <1>5, LesseesHold
  <2>2. MemoryState' = "none"
    BY <1>2, <1>5 DEF co_kload_free, release_pages, MemoryState, IInv, Held
  <2> QED  BY Zenon, <1>1, <2>1, <2>2 DEF Memory!Free
<1> QED  BY Zenon, <1>3, <1>4, <1>5

\* KLOAD_BEGIN fills memory that nobody has, or frees what it filled.
LEMMA BeginRefines ==
  ASSUME IInv, Begin
  PROVE  [Memory!Next]_<<MemoryState, Lessees>>
<1> USE DEF Memory!Next, Memory!Fill, Memory!Free
<1>0. UNCHANGED maps
  BY Zenon DEF Begin, BeginFree, WaitForDeferredFree, BeginAlloc, BeginGrow, BeginCreate, BeginMap,
         BeginDestroy, BeginRelease
<1>1. Lessees' = Lessees  BY Zenon, <1>0 DEF Lessees, maps
<1>2. CASE BeginFree  BY Zenon, <1>0, <1>2, FreeRefines DEF BeginFree
<1>3. CASE WaitForDeferredFree \/ BeginAlloc \/ BeginCreate \/ BeginMap \/ BeginDestroy
  <2>1. UNCHANGED <<blocks, ram_ready, pending_free>>
    BY Zenon, <1>3 DEF WaitForDeferredFree, BeginAlloc, BeginCreate, BeginMap, BeginDestroy, memory
  <2> QED  BY Zenon, <1>1, <2>1 DEF MemoryState
<1>4. CASE BeginGrow
  <2>1. ~ram_ready /\ ~pending_free  BY Zenon, <1>4 DEF IInv, Loading, Filling, BeginGrow
  <2>2. MemoryState \in {"none", "filling"} /\ MemoryState' \in {MemoryState, "filling"}
    BY Zenon, <1>4, <2>1 DEF BeginGrow, Grow, MemoryState
  <2> QED  BY Zenon, <1>1, <2>2
<1>5. CASE BeginRelease
  <2>1. Holders = {} /\ ~pending_free  BY Zenon, <1>5 DEF IInv, Loading, Filling, BeginRelease
  <2>2. Lessees = {}  BY Zenon, <2>1, LesseesHold
  <2>3. MemoryState' = "none"  BY <1>5, <2>1, SMTT(40) DEF BeginRelease, release_pages, MemoryState
  <2> QED  BY Zenon, <1>1, <2>2, <2>3
<1> QED  BY Zenon, <1>2, <1>3, <1>4, <1>5 DEF Begin

\* KRAM goes on filling and finishes; KBOOT does nothing to the memory.
LEMMA BootRefines ==
  ASSUME IInv, Boot
  PROVE  [Memory!Next]_<<MemoryState, Lessees>>
<1> USE DEF Memory!Next, Memory!Finish
<1> USE DEF KramStart, KramGrow, KramReady, KbootPublish, KbootBegin, KbootEnd, KbootRetire
<1>1. Lessees' = Lessees  BY Zenon DEF Boot, Lessees, maps
<1>2. CASE KramStart \/ KramGrow \/ KramReady
  <2>1. ~ram_ready /\ ~pending_free /\ ~pending_free'  BY <1>2 DEF IInv, Loading, Filling
  <2>2. CASE KramStart  BY Zenon, <1>1, <2>1, <2>2 DEF MemoryState
  <2>3. CASE KramGrow
    <3>1. MemoryState' = MemoryState  BY Zenon, <2>1, <2>3 DEF MemoryState, Grow
    <3> QED  BY Zenon, <1>1, <3>1
  <2>4. CASE KramReady
    <3>1. \/ MemoryState' = MemoryState
          \/ MemoryState = "filling" /\ MemoryState' = "finished"
      BY Zenon, <2>1, <2>4 DEF MemoryState
    <3> QED  BY Zenon, <1>1, <3>1
  <2> QED  BY <1>2, <2>2, <2>3, <2>4, Zenon
<1>3. CASE KbootPublish \/ KbootBegin \/ KbootEnd \/ KbootRetire
  <2>1. UNCHANGED memory  BY <1>3, Zenon
  <2> QED  BY Zenon, <1>1, <2>1 DEF MemoryState, memory
<1> QED  BY <1>2, <1>3, Zenon DEF Boot

\* A handle that maps holds finished or retired memory; the last to let go frees it.
LEMMA MapRefines ==
  ASSUME IInv, NEW h \in Handles, Map(h)
  PROVE  [Memory!Next]_<<MemoryState, Lessees>>
<1> USE DEF Memory!Next, Memory!Lease, Memory!Return, Memory!Free
<1>1. CASE KmapPut(h)
  <2>1. Lessees' = Lessees  BY Zenon, <1>1 DEF KmapPut, Lessees
  <2>2. CASE user_maps' = 0 /\ pending_free
    <3>1. h \in Holders /\ user_maps = 1
      BY <1>1, <2>2, HoldersCount DEF KmapPut, Holders, IInv, Held
    <3>2. Holders \ {h} = {}
      <4>1. Cardinality(Holders) = 1  BY Zenon, <3>1 DEF IInv, Held
      <4>2. IsFiniteSet(Holders \ {h}) /\ Cardinality(Holders \ {h}) = 0
        BY <3>1, <4>1, HoldersCount, FS_RemoveElement, SMTT(40)
      <4> QED  BY Zenon, <4>2, FS_EmptySet
    <3>3. h \notin Lessees  BY Zenon, <1>1 DEF KmapPut, IInv, HandleShape, Lessees
    <3>4. Lessees = {}  BY <3>2, <3>3, LesseesHold, SMTT(40)
    <3>5. MemoryState = "retired" /\ MemoryState' = "none"
      BY <1>1, <2>2, ZenonT(40) DEF KmapPut, release_pages, MemoryState
    <3> QED  BY <2>1, <3>4, <3>5, SMTT(60)
  <2>3. CASE ~(user_maps' = 0 /\ pending_free)
    BY Zenon, <1>1, <2>1, <2>3 DEF KmapPut, MemoryState
  <2> QED  BY <2>2, <2>3, SMTT(40)
<1>2. CASE ~KmapPut(h)
  <2> USE DEF KmapAsk, KmapReserve, KmapRange, KmapAll, KmapEvict, KmapRelease, KmapUnmap
  <2>1. MemoryState' = MemoryState
    BY <1>2, SMTT(60) DEF Map, MapSteps, MemoryState, memory, user_map_try_get
  <2>2. \A g \in Handles \ {h} : g \in Lessees' <=> g \in Lessees
    BY <1>2, SMTT(40) DEF Map, MapSteps, Lessees, IInv, TypeOK, user_map_try_get
  <2>3. Lessees' \in {Lessees, Lessees \cup {h}, Lessees \ {h}}
    BY <2>2, SMTT(60) DEF Lessees
  <2>4. h \in Lessees' /\ h \notin Lessees => MemoryState \in {"finished", "retired"}
    <3>1. h \in Lessees' /\ h \notin Lessees => KmapRange(h) \/ KmapAll(h)
      BY <1>2, SMTT(40) DEF Map, MapSteps, Lessees, IInv, TypeOK, HandleShape, user_map_try_get
    <3>2. KmapRange(h) \/ KmapAll(h) => h \in Holders
      BY Zenon DEF IInv, HandleShape, Holders
    <3> QED  BY <3>1, <3>2, SMTT(60) DEF IInv, Held, MemoryState
  <2> QED  BY <2>1, <2>3, <2>4, SMTT(60)
<1> QED  BY Zenon, <1>1, <1>2

\* KernelLoad keeps the promise of GuestMemory, whoever sends KLOAD_END: nothing unfinished
\* is mapped and nothing mapped is freed.
THEOREM MemoryIsImplemented == Spec => MemoryImplemented
<1>1. Init => Memory!Init  BY Zenon DEF Init, Memory!Init, MemoryState, Lessees
<1>2. IInv /\ [Next]_vars => [Memory!Next]_<<MemoryState, Lessees>>
  <2> SUFFICES ASSUME IInv, [Next]_vars PROVE [Memory!Next]_<<MemoryState, Lessees>>  BY Zenon
  <2>1. ASSUME NEW s \in Senders, End(s) PROVE [Memory!Next]_<<MemoryState, Lessees>>
    <3>1. CASE EndFree(s)  BY Zenon, <3>1, FreeRefines DEF EndFree, Memory!Next
    <3>2. CASE EndCheck(s) \/ EndRetire(s)
      <4>1. UNCHANGED <<memory, maps>>  BY <3>2, ZenonT(40) DEF EndCheck, EndRetire
      <4> QED  BY Zenon, <4>1 DEF memory, maps, MemoryState, Lessees
    <3> QED  BY Zenon, <2>1, <3>1, <3>2 DEF End
  <2>2. CASE LoaderDies \/ Walk \/ UNCHANGED vars
    <3>1. UNCHANGED <<memory, maps>>
      BY Zenon, <2>2 DEF LoaderDies, Walk, KreadEnter, KreadLeave, BridgeEnter, BridgeLeave, vars
    <3> QED  BY Zenon, <3>1 DEF memory, maps, MemoryState, Lessees
  <2> QED  BY Zenon, <2>1, <2>2, BeginRefines, BootRefines, MapRefines DEF Next
<1> QED  BY <1>1, <1>2, Invariance, PTL DEF Spec, MemoryImplemented, Memory!Spec, Memory!vars

(***************************************************************************)
(* A boot daemon that is the only sender of KLOAD_END                      *)
(***************************************************************************)

Building == {"wait", "alloc", "grow", "create", "map", "destroy", "release"}

\* During KLOAD_BEGIN no bridge has an address or a walk under way.
Quiet ==
  sender[Loader] \in Building => \A b \in Bridges : ~address[b] /\ walking[b] = 0

\* When there is a space, and that it comes with an image.
SpaceShape ==
  /\ sender[Loader] \in Building \ {"map"} => space = 0
  /\ sender[Loader] = "map" => space = load
  /\ sender[Loader] \in {"loaded", "kram", "ready", "built"} => space # 0
  /\ space # 0 => <<space, "image">> \in blocks
  /\ pending_free => space = 0

\* KLOAD_BEGIN starts from nothing.
Fresh ==
  /\ sender[Loader] = "wait" => pending_free \/ (p2m = 0 /\ blocks = {})
  /\ sender[Loader] = "alloc" => p2m = 0 /\ blocks = {}
  /\ sender[Loader] = "create" => <<load, "image">> \in blocks

\* Whoever walks or runs does so in the space that is there.
InSpace ==
  /\ \A b \in Bridges : (address[b] => space # 0) /\ (walking[b] # 0 => walking[b] = space)
  /\ run # 0 => sender[Loader] = "running" /\ run = space

SoleInv == Quiet /\ SpaceShape /\ Fresh /\ InSpace /\ NothingStranded

\* The initial state satisfies it.
LEMMA InitSole == Init => SoleInv
  BY SMTT(60) DEF Init, SoleInv, Quiet, SpaceShape, Fresh, InSpace, NothingStranded, Named,
                  Building, Senders

\* Teardown leaves no walk, no address, no space and nothing stranded.
LEMMA FreeSole ==
  ASSUME IInv, SoleInv, co_kload_free, sender[Loader] # "destroy"
  PROVE  /\ space' = 0 /\ \A b \in Bridges : ~address'[b] /\ walking[b] = 0
         /\ pending_free' \/ (p2m' = 0 /\ blocks' = {})
         /\ sender'[Loader] # "destroy" => NothingStranded'
<1> USE DEF IInv, SoleInv
<1>1. CASE space = 0 /\ blocks = {} /\ p2m = 0
  BY Zenon, <1>1 DEF co_kload_free, InSpace, NothingStranded, Named
<1>2. CASE ~(space = 0 /\ blocks = {} /\ p2m = 0)
  <2>1. space' = 0 /\ \A b \in Bridges : ~address'[b] /\ walking[b] = 0
    BY Zenon, <1>2 DEF co_kload_free, LocksFree
  <2>2. pending_free' \/ (p2m' = 0 /\ blocks' = {})
    BY Zenon, <1>2 DEF co_kload_free, release_pages
  <2>3. ASSUME sender'[Loader] # "destroy" PROVE NothingStranded'
    <3>1. <<space, "space">> \notin blocks  BY SpaceIsNoBlock, Types, Zenon DEF MemoryTypes
    <3>2. CASE user_maps # 0
      <4>1. live' = live \ {<<space, "space">>} /\ UNCHANGED <<blocks, p2m>>
        BY Zenon, <1>2, <3>2 DEF co_kload_free
      <4> QED  BY <2>1, <2>3, <3>1, <4>1 DEF NothingStranded, Named
    <3>3. CASE user_maps = 0
      <4>1. /\ live' = live \ ({<<space, "space">>} \cup blocks \cup {<<p2m, "tables">>})
            /\ blocks' = {} /\ p2m' = 0
        BY Zenon, <1>2, <3>3 DEF co_kload_free, release_pages
      <4> QED  BY Zenon, <2>1, <2>3, <4>1 DEF NothingStranded, Named
    <3> QED  BY Zenon, <3>2, <3>3
  <2> QED  BY Zenon, <2>1, <2>2, <2>3
<1> QED  BY <1>1, <1>2, SMTT(40)

\* KLOAD_BEGIN keeps it.
LEMMA BeginSole == ASSUME IInv, SoleInv, Begin PROVE SoleInv'
<1>0. Loader \in Senders  BY SMTT(40) DEF Senders
<1>1. CASE BeginFree
  <2>1. sender'[Loader] = "wait" /\ sender[Loader] = "idle" /\ UNCHANGED <<walking, run>>
    BY <1>0, <1>1, Types, SMTT(60) DEF IInv, SenderTypes, BeginFree, Move
  <2>2. /\ space' = 0 /\ \A b \in Bridges : ~address'[b] /\ walking[b] = 0
        /\ pending_free' \/ (p2m' = 0 /\ blocks' = {})
        /\ NothingStranded'
    BY <1>1, <2>1, FreeSole, SMTT(60) DEF BeginFree
  <2> QED
    BY Zenon, <2>1, <2>2 DEF SoleInv, Quiet, SpaceShape, Fresh, InSpace, Building
<1>2. CASE ~BeginFree
  <2> USE DEF WaitForDeferredFree, BeginAlloc, BeginGrow, BeginCreate, BeginMap, BeginDestroy,
              BeginRelease
  <2>1. UNCHANGED <<load, address, walking, run, pending_free>>
    BY <1>2, SMTT(40) DEF Begin, guards, memory
  <2>a. sender[Loader] \in Building
    BY <1>2, ZenonT(60) DEF Begin, Building
  <2>2. \A b \in Bridges : ~address[b] /\ walking[b] = 0
    BY Zenon, <2>a DEF SoleInv, Quiet
  <2>3. Quiet' /\ run = 0
    <3>1. sender[Loader] # "running"
      BY SMTT(60), <2>a DEF Building
    <3> QED BY Zenon, <2>1, <2>2, <3>1 DEF Quiet, SoleInv, InSpace
  <2>4. load # 0  BY <1>2, SMTT(40) DEF Begin, IInv, Loading
  <2>5. CASE WaitForDeferredFree
    <3>1. UNCHANGED memory /\ sender[Loader] = "wait"
          /\ sender'[Loader] = IF pending_free THEN "idle" ELSE "alloc"
      BY <1>0, <2>5, Types, SMTT(60) DEF IInv, SenderTypes, Move
    <3> QED
      BY <2>1, <2>2, <2>3, <3>1, Zenon
         DEF SoleInv, SpaceShape, Fresh, InSpace, NothingStranded, Named,
         Building, memory
  <2>6. CASE BeginAlloc
    <3>1. sender[Loader] = "alloc" /\ space = 0 /\ p2m = 0 /\ blocks = {} /\ space' = 0
          /\ blocks' = {} /\ live = {}
      BY Zenon, <2>6 DEF SoleInv, SpaceShape, Fresh, NothingStranded, Named, Building
    <3>2. \/ sender'[Loader] = "grow" /\ p2m' = load /\ live' = {<<load, "tables">>}
          \/ sender'[Loader] = "idle" /\ p2m' = 0 /\ live' = {}
      BY <1>0, <2>6, <3>1, Types, SMTT(60) DEF IInv, SenderTypes, Move
    <3> QED
      BY <2>1, <2>2, <2>3, <2>4, <3>1, <3>2, SMTT(40) DEF SoleInv, SpaceShape, Fresh, InSpace,
         NothingStranded, Named, Building
  <2>7. CASE BeginGrow
    <3>1. sender[Loader] = "grow" /\ space = 0 /\ UNCHANGED <<space, p2m>>
      BY Zenon, <2>7 DEF SoleInv, SpaceShape, Building
    <3>2. /\ sender'[Loader] \in {"create", "release"}
          /\ sender'[Loader] = "create" => <<load, "image">> \in blocks'
      BY <1>0, <2>7, Types, SMTT(40) DEF IInv, SenderTypes, Move
    <3>3. NothingStranded'
      BY <2>7, <3>1, <3>2, SMTT(60) DEF SoleInv, NothingStranded, Named, Grow
    <3> QED
      BY <2>1, <2>2, <2>3, <3>1, <3>2, <3>3, SMTT(40)
         DEF SoleInv, SpaceShape, Fresh, InSpace, Building
  <2>8. CASE BeginCreate
    <3>1. sender[Loader] = "create" /\ space = 0 /\ <<load, "image">> \in blocks
          /\ UNCHANGED <<blocks, p2m>> /\ ~pending_free
      BY Zenon, <2>8 DEF SoleInv, SpaceShape, Fresh, Building, IInv, Loading, Filling
    <3>2. \/ sender'[Loader] = "map" /\ space' = load /\ live' = live \cup {<<load, "space">>}
          \/ sender'[Loader] = "release" /\ space' = 0 /\ live' = live
      BY <1>0, <2>8, <3>1, Types, SMTT(40) DEF IInv, SenderTypes, Move
    <3>3. NothingStranded'
      BY <2>4, <3>1, <3>2, SMTT(60) DEF SoleInv, NothingStranded, Named
    <3> QED
      BY <2>1, <2>2, <2>3, <3>1, <3>2, <3>3, SMTT(40)
         DEF SoleInv, SpaceShape, Fresh, InSpace, Building
  <2>9. CASE BeginMap
    <3>1. sender[Loader] = "map" /\ space = load /\ UNCHANGED <<blocks, p2m, live>>
      BY Zenon, <2>9 DEF SoleInv, SpaceShape
    <3>2. \/ sender'[Loader] = "loaded" /\ space' = load
          \/ sender'[Loader] = "destroy" /\ space' = 0
      BY <1>0, <2>9, <3>1, Types, SMTT(60) DEF IInv, SenderTypes, Move
    <3>3. NothingStranded'
      BY <2>1, <2>4, <3>1, <3>2, SMTT(60) DEF SoleInv, NothingStranded, Named
    <3> QED
      BY <2>1, <2>2, <2>3, <2>4, <3>1, <3>2, <3>3, SMTT(60)
      DEF SoleInv, SpaceShape, Fresh, InSpace, Building
  <2>10. CASE BeginDestroy
    <3>1. sender[Loader] = "destroy" /\ space = 0 /\ UNCHANGED <<space, blocks, p2m>>
          /\ live' = live \ {<<load, "space">>}
      BY Zenon, <2>10 DEF SoleInv, SpaceShape, Building
    <3>2. sender'[Loader] = "release"  BY Zenon, <1>0, <2>10, Types DEF IInv, SenderTypes, Move
    <3>3. NothingStranded'
      <4>1. <<load, "space">> \notin blocks  BY SpaceIsNoBlock, Types, Zenon DEF IInv, MemoryTypes
      <4> QED  BY <3>1, <3>2, <4>1 DEF SoleInv, NothingStranded, Named
    <3> QED
      BY <2>1, <2>2, <2>3, <3>1, <3>2, <3>3, SMTT(40)
         DEF SoleInv, SpaceShape, Fresh, InSpace, Building
  <2>11. CASE BeginRelease
    <3>1. sender[Loader] = "release" /\ space = 0 /\ UNCHANGED space
          /\ blocks' = {} /\ p2m' = 0 /\ live' = live \ (blocks \cup {<<p2m, "tables">>})
      BY Zenon, <2>11 DEF SoleInv, SpaceShape, Building, release_pages
    <3>2. sender'[Loader] = "idle"  BY Zenon, <1>0, <2>11, Types DEF IInv, SenderTypes, Move
    <3>3. NothingStranded'
      BY Zenon, <3>1, <3>2 DEF SoleInv, NothingStranded, Named
    <3> QED
      BY Zenon, <2>1, <2>2, <2>3, <3>1, <3>2, <3>3 DEF SoleInv, SpaceShape, Fresh, InSpace, Building
  <2> QED  BY <1>2, <2>5, <2>6, <2>7, <2>8, <2>9, <2>10, <2>11, SMTT(60) DEF Begin
<1> QED  BY Zenon, <1>1, <1>2

\* KRAM and KBOOT keep it.
LEMMA BootSole == ASSUME IInv, SoleInv, Boot PROVE SoleInv'
<1>0. Loader \in Senders  BY Zenon DEF Senders
<1> USE DEF KramStart, KramGrow, KramReady, KbootPublish, KbootBegin, KbootEnd, KbootRetire
<1>1. UNCHANGED <<load, space, p2m, pending_free, walking>>  BY Zenon DEF Boot, memory, guards
<1>2. /\ sender[Loader] \in {"loaded", "kram", "ready", "built", "boot", "running", "retire"}
      /\ sender'[Loader] \in {"kram", "ready", "built", "boot", "running", "retire", "stopped"}
      /\ sender'[Loader] \in {"kram", "ready", "built"} =>
           sender[Loader] \in {"loaded", "kram", "ready"}
  BY <1>0, Types, Zenon DEF Boot, IInv, SenderTypes, Move
<1>3. blocks \subseteq blocks'
  BY ZenonT(40) DEF Boot, Grow, memory
<1>4. Quiet' /\ Fresh'  BY Zenon, <1>2 DEF Quiet, Fresh, Building
<1>5. SpaceShape'  BY Zenon, <1>1, <1>2, <1>3 DEF SoleInv, SpaceShape, Building
<1>6. InSpace'
  <2>1. \A b \in Bridges : address'[b] => space # 0
    <3>1. CASE KbootPublish  BY Zenon, <3>1 DEF SoleInv, SpaceShape
    <3>2. CASE ~KbootPublish
      <4>1. \A b \in Bridges : address'[b] => address[b]
        BY Zenon, <3>2 DEF Boot, SetAddresses, guards
      <4> QED  BY <4>1, SMTT(40) DEF SoleInv, InSpace
    <3> QED  BY <3>1, <3>2, ZenonT(40)
  <2>2. run' # 0 => sender'[Loader] = "running" /\ run' = space
    <3>1. CASE KbootBegin
      BY <1>0, <3>1, Types, ZenonT(40) DEF IInv, SenderTypes, Move, SoleInv, InSpace
    <3>2. CASE KbootEnd  BY <3>2, ZenonT(40)
    <3>3. CASE ~KbootBegin /\ ~KbootEnd
      BY <3>3, ZenonT(40) DEF Boot, SoleInv, InSpace
    <3> QED  BY <3>1, <3>2, <3>3, ZenonT(40)
  <2> QED  BY Zenon, <1>1, <2>1, <2>2 DEF SoleInv, InSpace
<1>7. NothingStranded'
  <2>1. \/ blocks' = blocks /\ live' = live
        \/ blocks' = blocks \cup {<<load, "ram">>} /\ live' = live \cup {<<load, "ram">>}
    BY Zenon DEF Boot, Grow, memory
  <2> QED  BY <1>1, <1>2, <2>1, SMTT(40) DEF SoleInv, NothingStranded, Named
<1> QED  BY <1>4, <1>5, <1>6, <1>7, SMTT(40) DEF SoleInv

\* Its own KLOAD_END, or its death, keeps it.
LEMMA EndSole ==
  ASSUME IInv, SoleInv, LoaderDies \/ End(Loader)
  PROVE  SoleInv'
<1>0. Loader \in Senders  BY Zenon DEF Senders
<1>1. CASE EndFree(Loader)
  <2>1. sender[Loader] = "free" /\ sender'[Loader] = "idle" /\ UNCHANGED <<walking, run>>
    BY <1>0, <1>1, Types, SMTT(40) DEF IInv, SenderTypes, EndFree, Move
  <2>2. /\ space' = 0 /\ \A b \in Bridges : ~address'[b] /\ walking[b] = 0
        /\ NothingStranded'
    BY <1>1, <2>1, FreeSole, Zenon DEF EndFree
  <2>3. run = 0  BY Zenon, <2>1 DEF SoleInv, InSpace
  <2> QED
    BY <2>1, <2>2, <2>3, Zenon DEF SoleInv, Quiet, SpaceShape, Fresh, InSpace, Building
<1>2. CASE LoaderDies \/ EndCheck(Loader) \/ EndRetire(Loader)
  <2>1. UNCHANGED <<load, memory, walking, run>>
    BY <1>2, Zenon DEF LoaderDies, EndCheck, EndRetire, guards
  <2>2. /\ sender[Loader] \in {"loaded", "built", "stopped", "end"}
        /\ sender'[Loader] \in {"idle", "end", "free"}
    BY <1>0, <1>2, Types, ZenonT(40)
       DEF IInv, SenderTypes, LoaderDies, EndCheck, EndRetire, EndsFrom, Move
  <2>3. \A b \in Bridges : address'[b] => address[b]
    BY Zenon, <1>2 DEF LoaderDies, EndCheck, EndRetire, SetAddresses, guards
  <2>4. Quiet' /\ Fresh' /\ SpaceShape'
    BY <2>1, <2>2, ZenonT(40) DEF SoleInv, Quiet, Fresh, SpaceShape, Building, memory
  <2>5. InSpace'  BY <2>1, <2>2, <2>3, ZenonT(40) DEF SoleInv, InSpace, memory
  <2>6. NothingStranded'  BY <2>1, <2>2, Zenon DEF SoleInv, NothingStranded, Named, memory
  <2> QED  BY <2>4, <2>5, <2>6, SMTT(40) DEF SoleInv
<1> QED  BY Zenon, <1>1, <1>2 DEF End

\* Walks keep it.
LEMMA WalkSole == ASSUME IInv, SoleInv, Walk PROVE SoleInv'
<1>1. UNCHANGED <<load, memory, address, sender, run>>
  BY ZenonT(40) DEF Walk, KreadEnter, KreadLeave, BridgeEnter, BridgeLeave
<1>2. \A b \in Bridges : \/ walking'[b] = walking[b] \/ walking'[b] = 0
                         \/ walking'[b] = space /\ address[b]
  BY Types, SMTT(60) DEF Walk, KreadEnter, KreadLeave, BridgeEnter, BridgeLeave, IInv, RunTypes
<1>3. Quiet' /\ InSpace'  BY <1>1, <1>2, SMTT(60) DEF SoleInv, Quiet, InSpace, memory
<1>4. SpaceShape' /\ Fresh'  BY <1>1, SMTT(40) DEF SoleInv, SpaceShape, Fresh, memory
<1>5. NothingStranded'  BY Zenon, <1>1 DEF SoleInv, NothingStranded, Named, memory
<1> QED  BY <1>3, <1>4, <1>5, SMTT(40) DEF SoleInv

\* The handles keep it: a deferred release is one of pages whose space is gone.
LEMMA MapSole == ASSUME IInv, SoleInv, NEW h \in Handles, Map(h) PROVE SoleInv'
<1>1. CASE ~KmapPut(h) \/ ~(user_maps' = 0 /\ pending_free)
  <2>1. UNCHANGED <<load, space, blocks, p2m, pending_free, live, guards, sender, run>>
    BY <1>1, ZenonT(40)
       DEF Map, MapSteps, KmapAsk, KmapReserve, KmapRange, KmapAll, KmapEvict, KmapRelease,
       KmapUnmap, KmapPut, memory, guards
  <2>2. Quiet' /\ InSpace'  BY <2>1, ZenonT(40) DEF SoleInv, Quiet, InSpace, guards
  <2>3. SpaceShape' /\ Fresh'  BY <2>1, SMTT(40) DEF SoleInv, SpaceShape, Fresh
  <2>4. NothingStranded'  BY <2>1, SMTT(40) DEF SoleInv, NothingStranded, Named
  <2> QED  BY <2>2, <2>3, <2>4, SMTT(40) DEF SoleInv
<1>2. CASE KmapPut(h) /\ user_maps' = 0 /\ pending_free
  <2>1. /\ live' = live \ (blocks \cup {<<p2m, "tables">>}) /\ blocks' = {} /\ p2m' = 0
        /\ ~pending_free' /\ UNCHANGED <<load, space, guards, sender, run>>
    BY <1>2, ZenonT(40) DEF KmapPut, release_pages
  <2>2. space = 0 /\ sender[Loader] \notin Filling
    BY Zenon, <1>2 DEF SoleInv, SpaceShape, IInv, Loading
  <2>3. Quiet' /\ InSpace'  BY <2>1, Zenon DEF SoleInv, Quiet, InSpace, guards
  <2>4. SpaceShape' /\ Fresh'  BY <2>1, <2>2, SMTT(40) DEF SoleInv, SpaceShape, Fresh, Filling
  <2>5. NothingStranded'
    BY Zenon, <2>1, <2>2 DEF SoleInv, NothingStranded, Named, Filling
  <2> QED  BY Zenon, <2>3, <2>4, <2>5 DEF SoleInv
<1> QED  BY Zenon, <1>1, <1>2

\* With no other sender of KLOAD_END the stronger invariant holds too.
LEMMA SoleInvariance == ASSUME Enders = {} PROVE Spec => []SoleInv
<1>1. IInv /\ SoleInv /\ [Next]_vars => SoleInv'
  <2> SUFFICES ASSUME IInv, SoleInv, [Next]_vars PROVE SoleInv'  BY Zenon
  <2>1. Senders = {Loader}  BY SMTT(40) DEF Senders
  <2>2. CASE UNCHANGED vars
    BY Zenon, <2>2
    DEF SoleInv, Quiet, SpaceShape, Fresh, InSpace, NothingStranded, Named, vars, memory,
       guards
  <2> QED  BY Zenon, <2>1, <2>2, BeginSole, BootSole, EndSole, WalkSole, MapSole DEF Next
<1> QED  BY <1>1, InitSole, Invariance, PTL DEF Spec

\* Memory is held exactly while a global names it, when the boot daemon alone ends a load.
THEOREM NothingIsStranded == ASSUME Enders = {} PROVE Spec => []NothingStranded
<1>1. SoleInv => NothingStranded  BY Zenon DEF SoleInv
<1> QED  BY <1>1, SoleInvariance, PTL

\* No page goes back while a process maps it, a bridge walks it or the loop runs in it, when
\* the boot daemon alone ends a load.
THEOREM PagesStay == ASSUME Enders = {} PROVE Spec => []PagesOutliveUsers
<1>1. IInv /\ SoleInv => PagesOutliveUsers
  <2> SUFFICES ASSUME IInv, SoleInv PROVE PagesOutliveUsers  BY Zenon
  <2>1. MappedPagesLive  BY SMTT(40) DEF IInv, Mapped, MappedPagesLive
  <2>2. space # 0 => {<<space, "space">>, <<space, "image">>} \subseteq live
    BY Zenon DEF IInv, Mapped, SoleInv, SpaceShape, NothingStranded, Named
  <2>3. WalkersLive /\ RunKeepsMemory
    BY Zenon, <2>2 DEF SoleInv, InSpace, WalkersLive, RunKeepsMemory
  <2> QED  BY Zenon, <2>1, <2>3 DEF PagesOutliveUsers
<1> QED  BY <1>1, Invariance, SoleInvariance, PTL
=============================================================================
