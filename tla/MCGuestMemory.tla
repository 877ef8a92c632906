---------------------------- MODULE MCGuestMemory ----------------------------
(***************************************************************************)
(* Guest memory for TLC: the lifetimes of KernelLoad, the translations of  *)
(* PseudoPhys and the page tables of GuestSpace.  The three share no state *)
(* here; focus, chosen at the start, says which of them a behaviour is     *)
(* about, and the other two stay as they began.                            *)
(***************************************************************************)
EXTENDS KernelLoad

CONSTANTS TableEnd, RamEnd, Arena, Chunk, MaxBlocks, HashMult, Pool, WindowFrames, MaxPseudoLoads,
  Fan, Image, Tables, Ram, P2M, DirectSlot, KernelSlot, MetaVa, StackVa, PassageVas, Secondaries,
  MaxSpaceLoads

\* A one-page and a two-page buffer.
TwoBuffers == << <<101>>, <<102, 103>> >>

\* Guest pages scattered over machine frames; host addresses in two top-level slots.
Scattered == [n \in 0..(Ram - 1) |-> Ram - n]
Metadata == <<2, 0, 0, 0>>
BootStack == <<2, 0, 0, 1>>
HostPages == {<<2, 0, 0, 2>>, <<3, 0, 0, 0>>, <<3, 0, 1, 0>>}

VARIABLES
  focus,
  loads, pseudo_p2m, m2p, backed, block, last_hit, target, attempt, window_next, at, window,
  begun, phase, entry, table_top, root, owned, cr3, asked, passage, mapped

Pseudo == INSTANCE PseudoPhys WITH p2m <- pseudo_p2m
Paging == INSTANCE GuestSpace

pseudo == <<loads, pseudo_p2m, m2p, backed, block, last_hit, target, attempt, window_next,
            at, window>>
paging == <<begun, phase, entry, table_top, root, owned, cr3, asked, passage, mapped>>

MemoryInit ==
  /\ focus \in {"lifetimes", "translations", "tables"}
  /\ Init /\ Pseudo!Init /\ Paging!Init

MemoryNext ==
  /\ UNCHANGED focus
  /\ \/ focus = "lifetimes" /\ Next /\ UNCHANGED <<pseudo, paging>>
     \/ focus = "translations" /\ Pseudo!Next /\ UNCHANGED <<vars, paging>>
     \/ focus = "tables" /\ Paging!Next /\ UNCHANGED <<vars, pseudo>>

MemorySpec ==
  /\ MemoryInit
  /\ [][MemoryNext]_<<focus, vars, pseudo, paging>>
  /\ Fairness

\* The state of each component has its type.
TypesOK == TypeOK /\ Pseudo!TypeOK /\ Paging!TypeOK

\* PseudoPhys: every way to translate a page agrees (see there).
TranslationExact == Pseudo!TranslationExact

\* PseudoPhys: what the guest reaches in the arena is locked (see there).
ReachableIsLocked == Pseudo!ReachableIsLocked

\* GuestSpace: through splits, failed maps, the graft and the destructor a lookup finds exactly
\* what was mapped, the destructor finds exactly the tables the space counted, the guest's own
\* root has everything the loader mapped, and every table is in the guest's direct map.
TablesExact ==
  Paging!LookupExact /\ Paging!OwnedExact /\ Paging!GraftComplete /\ Paging!TablesInDirectMap
=============================================================================
