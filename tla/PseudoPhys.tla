------------------------------ MODULE PseudoPhys ------------------------------
(***************************************************************************)
(* Pseudo-physical memory: kernel/kload.c's translation tables.            *)
(*                                                                         *)
(* The guest's page numbers run from zero; p2m gives the machine frame of  *)
(* each.  RAM is backed from zero upward in blocks of pool pages.  m2p, an *)
(* open-addressed hash of the backed pages, gives the way back, and the    *)
(* block index gives the host's pointer.  Above the RAM ceiling lies an    *)
(* arena in which host memory appears as windows (KWINDOW, KWINDOW_AT),    *)
(* placed by either of two allocators that do not speak to each other.     *)
(*                                                                         *)
(* Pages are the unit: no byte offsets.  Window w is one buffer of a       *)
(* manager handle; its frames are the handle's locked pages.               *)
(***************************************************************************)
EXTENDS Integers, Sequences, FiniteSets, FiniteSetsExt, Functions

CONSTANTS TableEnd,     \* pages of image and reserved tables, backed by KLOAD_BEGIN
          RamEnd,       \* the RAM ceiling KRAM grows to; the arena starts here
          Arena,        \* CO_KLOAD_WINDOW_ARENA_BYTES, in pages
          Chunk,        \* CO_KLOAD_CHUNK_BYTES, in pages
          MaxBlocks,    \* CO_KLOAD_MAX_BLOCKS
          HashMult,     \* the hash multiplier modulo the table size
          Pool,         \* machine frames the host's pool can hand out
          WindowFrames, \* per window, the sequence of machine frames of its buffer
          MaxPseudoLoads \* bound: loads in a behaviour

Windows == DOMAIN WindowFrames
Capacity == RamEnd + Arena
Pages == 0..(Capacity - 1)

\* kload_translation_alloc: a power of two at least one and a half times the capacity.
Wanted == Capacity + (Capacity + 1) \div 2
Slots == Min({n \in {2^k : k \in 0..10} : n >= Wanted})

VARIABLES
  loads,        \* loads begun
  p2m,          \* page -> machine frame, 0 for none; << >> before translation_alloc
  m2p,          \* slot -> page + 1, 0 for empty
  backed,       \* kload_backed_pages
  block,        \* kload_block: where each starts and the frames it holds
  last_hit,     \* kload_last_hit, from zero
  target,       \* kload_grow_to's end while it runs, or 0
  attempt,      \* pages it asks the pool for next, 0 to start from what it wants
  window_next,  \* kload_window_next
  at,           \* per window, its first page
  window        \* per window, where it is between lock and unlock

tables == <<p2m, m2p, backed, block, window_next>>
vars == <<loads, tables, last_hit, target, attempt, at, window>>

Loaded == p2m # << >>

TypeOK ==
  /\ loads \in 0..MaxPseudoLoads
  /\ Loaded => p2m \in [Pages -> {0} \cup Pool \cup UNION {Range(WindowFrames[w]) : w \in Windows}]
  /\ Loaded => m2p \in [0..(Slots - 1) -> 0..Capacity]
  /\ backed \in 0..RamEnd
  /\ Len(block) <= MaxBlocks
  /\ last_hit \in 0..MaxBlocks
  /\ target \in {0, TableEnd, RamEnd} /\ attempt \in 0..Chunk
  /\ window_next \in 0..Capacity
  /\ at \in [Windows -> 0..Capacity]
  /\ window \in [Windows -> {"none", "locked", "mapped", "tracked", "unlinked", "cleared"}]

Init ==
  /\ loads = 0
  /\ p2m = << >> /\ m2p = << >> /\ backed = 0 /\ block = << >>
  /\ last_hit = 0 /\ target = 0 /\ attempt = 0 /\ window_next = 0
  /\ at = [w \in Windows |-> 0]
  /\ window = [w \in Windows |-> "none"]

(***************************************************************************)
(* The lookups                                                             *)
(***************************************************************************)

\* kload_m2p_hash, and the slot d probes further on; the mask is the allocated size.
Slot(mfn, d) == (mfn * HashMult + d) % Cardinality(DOMAIN m2p)

NotFound == -1

\* kload_machine_to_pseudo_pfn: probe to the page of mfn or to an empty slot.
machine_to_pseudo(mfn) ==
  LET stored(d) == m2p[Slot(mfn, d)]
      hit(d) == stored(d) # 0 /\ stored(d) - 1 < backed /\ p2m[stored(d) - 1] = mfn
      ends == {d \in DOMAIN m2p : stored(d) = 0 \/ hit(d)}
  IN  IF Loaded /\ ends # {} /\ hit(Min(ends)) THEN stored(Min(ends)) - 1 ELSE NotFound

\* kload_pseudo_to_machine_pfn: above backed RAM a zero entry is no page.
pseudo_to_machine(ppfn) ==
  IF ~Loaded \/ ppfn >= Capacity \/ (ppfn >= backed /\ p2m[ppfn] = 0)
  THEN NotFound
  ELSE p2m[ppfn]

Covers(i, pfn) == pfn >= block[i].first /\ pfn < block[i].first + Len(block[i].frames)

\* The binary search of co_kload_pseudo_frame_va and co_kload_block_for_pa, from one:
\* the block that covers pfn among lo..hi, or zero.
BlockSearch(pfn) ==
  LET N == Len(block)
      search[lo \in 1..(N + 1), hi \in 0..N] ==
        IF lo > hi THEN 0
        ELSE LET mid == lo + (hi - lo) \div 2
             IN  IF pfn < block[mid].first THEN search[lo, mid - 1]
                 ELSE IF ~Covers(mid, pfn) THEN search[mid + 1, hi]
                 ELSE mid
  IN  search[1, N]

\* co_kload_pseudo_frame_va: the block last hit is tried before the search.
BlockOf(pfn) ==
  IF pfn >= backed THEN 0
  ELSE IF last_hit < Len(block) /\ Covers(last_hit + 1, pfn) THEN last_hit + 1
  ELSE BlockSearch(pfn)

\* The machine frame behind the host pointer it returns.
FrameAt(pfn) ==
  IF BlockOf(pfn) = 0 THEN NotFound
  ELSE block[BlockOf(pfn)].frames[pfn - block[BlockOf(pfn)].first + 1]

\* A lookup leaves its block behind for the next one.
LookUp ==
  /\ \E pfn \in Pages :
       /\ BlockOf(pfn) # 0
       /\ last_hit' = BlockOf(pfn) - 1
  /\ UNCHANGED <<loads, tables, target, attempt, at, window>>

(***************************************************************************)
(* KLOAD_BEGIN, growth and release                                         *)
(***************************************************************************)

\* kload_translation_alloc, and the first kload_grow_to.
Begin ==
  /\ ~Loaded /\ loads < MaxPseudoLoads
  /\ loads' = loads + 1
  /\ p2m' = [n \in Pages |-> 0]
  /\ m2p' = [n \in 0..(Slots - 1) |-> 0]
  /\ window_next' = Capacity
  /\ target' = TableEnd
  /\ UNCHANGED <<backed, block, last_hit, attempt, at, window>>

\* co_kload_build_ram, once the image is backed.
BuildRam ==
  /\ Loaded /\ target = 0 /\ backed >= TableEnd
  /\ target' = RamEnd
  /\ UNCHANGED <<loads, tables, last_hit, attempt, at, window>>

\* kload_grow_to asks for what is missing, at most a chunk.
Want == IF attempt # 0 THEN attempt ELSE Min({target - backed, Chunk})

FreeFrames == Pool \ UNION {Range(block[i].frames) : i \in DOMAIN block}

\* A slip, for the check of TranslationExact: the first slot is taken, free or not.
InsertedOver(frames) ==
  LET table[n \in 0..Len(frames)] ==
        IF n = 0 THEN m2p ELSE [table[n - 1] EXCEPT ![Slot(frames[n], 0)] = backed + n]
  IN  table[Len(frames)]

\* The insertion loop of kload_block_alloc, for the n-th page of the block.
Inserted(frames) ==
  LET FreeSlot(m, mfn) == Slot(mfn, Min({d \in DOMAIN m2p : m[Slot(mfn, d)] = 0}))
      table[n \in 0..Len(frames)] ==
        IF n = 0 THEN m2p
        ELSE [table[n - 1] EXCEPT ![FreeSlot(table[n - 1], frames[n])] = backed + n]
  IN  table[Len(frames)]

\* kload_block_alloc succeeds: the pool's frames join p2m, m2p and the block array.
BlockAlloc ==
  /\ target # 0 /\ backed < target
  /\ Len(block) < MaxBlocks /\ Want <= Capacity - backed
  /\ \E frames \in Injection(1..Want, FreeFrames) :
       /\ p2m' = [n \in Pages |-> IF n \in backed..(backed + Want - 1)
                                  THEN frames[n - backed + 1] ELSE p2m[n]]
       /\ m2p' = Inserted(frames)
       /\ block' = Append(block, [first |-> backed, frames |-> frames])
  /\ backed' = backed + Want
  /\ attempt' = 0
  /\ UNCHANGED <<loads, last_hit, target, window_next, at, window>>

\* It fails: half as much is asked for, until a single page is refused.
BlockRefused ==
  /\ target # 0 /\ backed < target
  /\ IF Want = 1 THEN target' = 0 /\ attempt' = 0
                 ELSE attempt' = Want \div 2 /\ UNCHANGED target
  /\ UNCHANGED <<loads, tables, last_hit, at, window>>

Grown ==
  /\ target # 0 /\ backed >= target
  /\ target' = 0
  /\ UNCHANGED <<loads, tables, last_hit, attempt, at, window>>

\* kload_release_pages.  The windows' buffers stay locked: their handles own them.
Release ==
  /\ Loaded /\ target = 0
  /\ p2m' = << >> /\ m2p' = << >> /\ backed' = 0 /\ block' = << >>
  /\ last_hit' = 0 /\ window_next' = 0
  /\ UNCHANGED <<loads, target, attempt, at, window>>

(***************************************************************************)
(* Host windows                                                            *)
(***************************************************************************)

Count(w) == Len(WindowFrames[w])
Span(first, n) == first..(first + n - 1)
Move(w, to) == window' = [window EXCEPT ![w] = to]
Others == <<loads, m2p, backed, block, last_hit, target, attempt>>

\* co_os_user_lock_pages.
WindowLock(w) ==
  /\ window[w] = "none"
  /\ Move(w, "locked")
  /\ UNCHANGED <<Others, p2m, window_next, at>>

\* The frames of w appear at first.
Publish(w, first) ==
  /\ p2m' = [n \in Pages |-> IF n \in Span(first, Count(w))
                             THEN WindowFrames[w][n - first + 1] ELSE p2m[n]]
  /\ at' = [at EXCEPT ![w] = first]
  /\ Move(w, "mapped")

\* co_kload_window_map: the next pages down from the top, occupied or not.
WindowMap(w) ==
  /\ window[w] = "locked"
  /\ Loaded /\ window_next >= Count(w) /\ window_next - Count(w) >= RamEnd
  /\ Publish(w, window_next - Count(w))
  /\ window_next' = window_next - Count(w)
  /\ UNCHANGED Others

\* co_kload_window_map_at: the page the guest chose, if every page there is vacant.
WindowMapAt(w) ==
  /\ window[w] = "locked" /\ Loaded
  /\ \E first \in RamEnd..(Capacity - 1) :
       /\ Count(w) <= Capacity - first
       /\ \A n \in Span(first, Count(w)) : p2m[n] = 0
       /\ Publish(w, first)
  /\ UNCHANGED <<Others, window_next>>

\* Refused by either: the buffer is unlocked.
WindowRefused(w) ==
  /\ window[w] = "locked"
  /\ Move(w, "none")
  /\ UNCHANGED <<Others, p2m, window_next, at>>

\* A slip, for the check of ReachableIsLocked: out of memory, it only unlocks.
TrackForgets(w) ==
  /\ window[w] = "mapped"
  /\ \E to \in {"tracked", "cleared"} : Move(w, to)
  /\ UNCHANGED <<Others, p2m, window_next, at>>

\* co_manager_window_track; out of memory, it undoes the window on the spot.
WindowTrack(w) ==
  /\ window[w] = "mapped"
  /\ \E to \in {"tracked", "unlinked"} : Move(w, to)
  /\ UNCHANGED <<Others, p2m, window_next, at>>

\* co_manager_window_release and co_manager_window_release_all take it off the list.
WindowUnlink(w) ==
  /\ window[w] = "tracked"
  /\ Move(w, "unlinked")
  /\ UNCHANGED <<Others, p2m, window_next, at>>

\* co_kload_window_unmap: whatever stands there is cleared; the newest gives its
\* address space back.
WindowUnmap(w) ==
  /\ window[w] = "unlinked"
  /\ IF Loaded
     THEN /\ p2m' = [n \in Pages |-> IF n \in Span(at[w], Count(w)) THEN 0 ELSE p2m[n]]
          /\ window_next' = IF at[w] = window_next THEN window_next + Count(w)
                                                   ELSE window_next
     ELSE UNCHANGED <<p2m, window_next>>
  /\ Move(w, "cleared")
  /\ UNCHANGED <<Others, at>>

WindowUnlock(w) ==
  /\ window[w] = "cleared"
  /\ Move(w, "none")
  /\ at' = [at EXCEPT ![w] = 0]
  /\ UNCHANGED <<Others, p2m, window_next>>

Next ==
  \/ LookUp \/ Begin \/ BuildRam \/ BlockAlloc \/ BlockRefused \/ Grown \/ Release
  \/ \E w \in Windows :
       \/ WindowLock(w) \/ WindowMap(w) \/ WindowMapAt(w) \/ WindowRefused(w)
       \/ WindowTrack(w) \/ WindowUnlink(w) \/ WindowUnmap(w) \/ WindowUnlock(w)

Spec == Init /\ [][Next]_vars

(***************************************************************************)
(* Properties                                                              *)
(***************************************************************************)

AllFrames == Pool \cup UNION {Range(WindowFrames[w]) : w \in Windows}

\* The frame of a backed page, by the definition the lookups must agree with.
Backing(n) == CHOOSE f \in Pool :
  \E i \in DOMAIN block : \E k \in DOMAIN block[i].frames :
    block[i].first + k - 1 = n /\ block[i].frames[k] = f

\* Every way to translate agrees: p2m, the reverse hash and the block index name one
\* frame for one backed page, whatever was grown, windowed or looked up before; a frame
\* that is not RAM, a window's above all, never translates back to a page.
TranslationExact ==
  Loaded =>
    /\ \A n \in 0..(backed - 1) : pseudo_to_machine(n) = Backing(n) /\ FrameAt(n) = Backing(n)
    /\ \A f \in AllFrames :
         machine_to_pseudo(f) =
           IF \E n \in 0..(backed - 1) : Backing(n) = f
           THEN CHOOSE n \in 0..(backed - 1) : Backing(n) = f
           ELSE NotFound

\* Buffers whose pages are locked.
Held == {w \in Windows : window[w] # "none"}

\* Whatever page of the arena the guest reaches is host memory still locked for it:
\* the entries go before the pages are unlocked, also when windows overlap and when a
\* window outlives the load it was made for.
ReachableIsLocked ==
  Loaded => \A n \in RamEnd..(Capacity - 1) :
    p2m[n] # 0 => \E w \in Held : p2m[n] \in Range(WindowFrames[w])
=============================================================================
