------------------------------ MODULE GuestSpace ------------------------------
(***************************************************************************)
(* The guest's page tables: arch/x86_64/space.c, and the parts of          *)
(* kernel/kload.c and switch.c's boot_prepare that build with it.          *)
(*                                                                         *)
(* A table is a frame of guest memory holding Fan entries; an entry is a   *)
(* machine frame, or zero when not present.  Tables come from a range of   *)
(* guest pages reserved by KLOAD_BEGIN, handed out from the top down, and  *)
(* are given back all at once with the load.  An address is the sequence   *)
(* of its indexes, outermost first.  Large leaves are left out: nothing    *)
(* calls co_arch_guest_map_large.                                          *)
(***************************************************************************)
EXTENDS Integers, Sequences, FiniteSets, FiniteSetsExt, Functions

CONSTANTS Fan,         \* entries of a table
          Image,       \* pages of the kernel's image; 0..2 are its static tables
          Tables,      \* pages reserved for tables, right above the image
          Ram,         \* pages of guest memory
          P2M,         \* page -> machine frame (kload_p2m)
          DirectSlot, KernelSlot,  \* top-level indexes of the two kernel regions
          MetaVa, StackVa,         \* where the translation tables and the boot stack go
          PassageVas,  \* host addresses the pool may give passage pages
          Secondaries, \* how many processors besides the boot processor
          MaxSpaceLoads \* bound: loads in a behaviour

\* CO_SPACE_LEVELS, and co_space_index of each level.
Levels == 4
Index == 0..(Fan - 1)
Addresses == [1..Levels -> Index]

Within(page) == <<page \div (Fan * Fan), (page \div Fan) % Fan, page % Fan>>

\* CO_ARCH_DIRECT_MAP + page, and the address page is linked at.
DirectVa(page) == <<DirectSlot>> \o Within(page)
KernelVa(page) == <<KernelSlot>> \o Within(page)

\* co_kload_adopt_kernel_tables' table_va: init_top_pgt, level2_fixmap_pgt, level1_fixmap_pgt.
TopPgt == 0
FixmapPgt == 1
FixmapPt == 2

Machine(page) == P2M[page]
Frames == {Machine(n) : n \in 0..(Ram - 1)}

\* Host pages outside guest memory: the translation tables', the stack's, a passage's.
HostFrame(va) == 1000 + 100 * va[2] + 10 * va[3] + va[4]
FreshTable == [i \in Index |-> 0]

VARIABLES
  begun,     \* loads begun
  phase,     \* how far the load has come
  entry,     \* the contents of guest memory read as tables: entry[frame][index]
  table_top, \* kload_table_top
  root,      \* kload_space's PML4 frame, 0 without a space
  owned,     \* its count of tables
  cr3,       \* the root the guest runs on
  asked,     \* secondaries boot_prepare has asked a passage page for
  passage,   \* ap_passage: per secondary, the address of its page, or << >>
  mapped     \* what co_arch_guest_map was asked for: address -> frame

vars == <<begun, phase, asked, entry, table_top, root, owned, cr3, passage, mapped>>

TypeOK ==
  /\ begun \in 0..MaxSpaceLoads
  /\ phase \in {"none", "begun", "built", "secondaries", "prepared", "running", "failed"}
  /\ DOMAIN entry \in {Frames, {}}
  /\ table_top \in Image..(Image + Tables)
  /\ root \in Frames \cup {0} /\ cr3 \in Frames \cup {0}
  /\ owned \in 0..Tables
  /\ asked \in 0..Secondaries
  /\ passage \in [1..Secondaries -> PassageVas \cup {<< >>}]
  /\ DOMAIN mapped \subseteq Addresses

(***************************************************************************)
(* Tables, walks and maps, on the memory m = [entry, top, owned]           *)
(***************************************************************************)

\* co_kload_table_frame: the next reserved page down, cleared; 0 when there is none.
NewFrame(m) == IF m.top < Image + 1 THEN 0 ELSE Machine(m.top - 1)

TableFrame(m) ==
  [m EXCEPT !.top = @ - 1, !.entry[NewFrame(m)] = FreshTable, !.owned = @ + 1]

\* co_arch_guest_lookup_root: the frame va leads to from the table at top, 0 if none.
lookup_root(e, top, va) ==
  LET walk[l \in 0..Levels] == IF l = 0 THEN top
                               ELSE IF walk[l - 1] = 0 THEN 0
                               ELSE e[walk[l - 1]][va[l]]
  IN  walk[Levels]

\* co_arch_guest_map: walk down from top, making the tables that are missing; when they
\* run out the ones made stay, and the map fails.
guest_map(memory, top, va, frame) ==
  LET step[l \in 0..(Levels - 1)] ==
        IF l = 0 THEN [m |-> memory, at |-> top]
        ELSE LET s == step[l - 1]
                 next == s.m.entry[s.at][va[l]]
                 fresh == NewFrame(s.m)
             IN  IF s.at = 0 THEN s
                 ELSE IF next # 0 THEN [s EXCEPT !.at = next]
                 ELSE IF fresh = 0 THEN [s EXCEPT !.at = 0]
                 ELSE [m |-> [TableFrame(s.m) EXCEPT !.entry[s.at][va[l]] = fresh],
                       at |-> fresh]
      last == step[Levels - 1]
  IN  IF last.at = 0 THEN [m |-> last.m, ok |-> FALSE]
      ELSE [m |-> [last.m EXCEPT !.entry[last.at][va[Levels]] = frame], ok |-> TRUE]

\* A loop of maps, of frame(va) at each address of a sequence, that stops where one fails:
\* the memory left behind and how many were mapped.
MapAll(memory, top, vas, frame(_)) ==
  LET loop[n \in 0..Len(vas)] ==
        IF n = 0 THEN [m |-> memory, done |-> 0, ok |-> TRUE]
        ELSE LET s == loop[n - 1]
                 r == guest_map(s.m, top, vas[n], frame(vas[n]))
             IN  IF ~s.ok THEN s
                 ELSE [m |-> r.m, ok |-> r.ok, done |-> IF r.ok THEN n ELSE s.done]
  IN  loop[Len(vas)]

Memory == [entry |-> entry, top |-> table_top, owned |-> owned]

Keep(m) == entry' = m.entry /\ table_top' = m.top /\ owned' = m.owned

\* What was asked for after the first n of vas.
Asked(vas, n, frame(_)) ==
  LET done == {vas[i] : i \in 1..n}
  IN  [va \in DOMAIN mapped \cup done |-> IF va \in done THEN frame(va) ELSE mapped[va]]

(***************************************************************************)
(* The load                                                                *)
(***************************************************************************)

Init ==
  /\ begun = 0 /\ phase = "none" /\ asked = 0
  /\ entry = << >>
  /\ table_top = Image + Tables
  /\ root = 0 /\ owned = 0 /\ cr3 = 0
  /\ passage = [v \in 1..Secondaries |-> << >>]
  /\ mapped = << >>

\* co_kload_begin: the root, and kload_map_translation_pages.
Begin ==
  /\ phase = "none" /\ begun < MaxSpaceLoads
  /\ begun' = begun + 1
  /\ LET empty == [entry |-> [f \in Frames |-> FreshTable], top |-> Image + Tables, owned |-> 0]
         r == MapAll(TableFrame(empty), NewFrame(empty), <<MetaVa>>, HostFrame)
     IN  /\ r.ok
         /\ Keep(r.m)
         /\ root' = NewFrame(empty)
  /\ mapped' = [va \in {MetaVa} |-> HostFrame(va)]
  /\ phase' = "begun"
  /\ UNCHANGED <<asked, cr3, passage>>

\* What the image holds for page: its static tables name each other by page.
Linked(page) == IF page = FixmapPgt THEN [FreshTable EXCEPT ![Fan - 1] = FixmapPt]
                ELSE FreshTable

\* co_kload_chunk and kload_page_for: a page's first chunk clears and maps it.
LoadChunk(page) ==
  /\ phase = "begun" /\ KernelVa(page) \notin DOMAIN mapped
  /\ LET r == guest_map([Memory EXCEPT !.entry[Machine(page)] = Linked(page)],
                        root, KernelVa(page), Machine(page))
     IN  /\ Keep(r.m)
         /\ mapped' = IF r.ok THEN Asked(<<KernelVa(page)>>, 1, LAMBDA va : Machine(page))
                              ELSE mapped
         /\ phase' = IF r.ok THEN phase ELSE "failed"
  /\ UNCHANGED <<begun, asked, root, cr3, passage>>

ImageLoaded == \A page \in 0..(Image - 1) : KernelVa(page) \in DOMAIN mapped

\* co_kload_build_ram: the direct map, page by page.
BuildRam ==
  /\ phase = "begun" /\ ImageLoaded
  /\ LET vas == [n \in 1..Ram |-> DirectVa(n - 1)]
         Backing(va) == Machine((va[2] * Fan + va[3]) * Fan + va[4])
         r == MapAll(Memory, root, vas, Backing)
     IN  /\ Keep(r.m)
         /\ mapped' = Asked(vas, r.done, Backing)
         /\ phase' = IF r.ok THEN "built" ELSE "failed"
  /\ UNCHANGED <<begun, asked, root, cr3, passage>>

\* co_arch_boot_prepare: the boot processor's passage page, then its stack.
PrepareBoot ==
  /\ phase = "built"
  /\ \E own \in PassageVas :
       LET vas == <<own, StackVa>>
           r == MapAll(Memory, root, vas, HostFrame)
       IN  /\ Keep(r.m)
           /\ mapped' = Asked(vas, r.done, HostFrame)
           /\ phase' = IF r.ok THEN "secondaries" ELSE "failed"
           /\ cr3' = IF r.ok THEN root ELSE 0
  /\ passage' = [v \in 1..Secondaries |-> << >>]
  /\ asked' = 0
  /\ UNCHANGED <<begun, root>>

\* The next secondary's passage page; one that cannot be mapped is given back.
PrepareSecondary ==
  /\ phase = "secondaries" /\ asked < Secondaries
  /\ asked' = asked + 1
  /\ \E va \in PassageVas \ DOMAIN mapped :
       LET r == guest_map(Memory, root, va, HostFrame(va))
       IN  /\ Keep(r.m)
           /\ mapped' = IF r.ok THEN Asked(<<va>>, 1, HostFrame) ELSE mapped
           /\ passage' = [passage EXCEPT ![asked + 1] = IF r.ok THEN va ELSE << >>]
  /\ UNCHANGED <<begun, phase, root, cr3>>

\* All are made, or the pool has no page for the next.
Prepared ==
  /\ phase = "secondaries"
  /\ phase' = "prepared"
  /\ UNCHANGED <<begun, asked, entry, table_top, root, owned, cr3, passage, mapped>>

\* kload_machineize_table: the pages a static table names become machine frames.
Machineized(table) == [i \in Index |-> IF table[i] = 0 THEN 0 ELSE Machine(table[i])]

\* A slip, for the check of OwnedExact: the fixmap is hung off the loader's own PUD.
GraftedInPlace(m, pud) ==
  LET ours == m.entry[root]
      fixmap == Machine(FixmapPgt)
      e == [m.entry EXCEPT
              ![fixmap] = Machineized(@),
              ![ours[KernelSlot]] = [@ EXCEPT ![Fan - 1] = fixmap],
              ![Machine(TopPgt)] = [i \in Index |-> IF ours[i] # 0 THEN ours[i] ELSE @[i]]]
  IN  [m EXCEPT !.entry = e]

\* co_kload_adopt_kernel_tables: the fixmap's table is translated and hung off a copy of
\* the kernel's PUD, and every top-level entry present goes into the kernel's root.
Grafted(m, pud) ==
  LET ours == m.entry[root]
      fixmap == Machine(FixmapPgt)
      e == [m.entry EXCEPT
              ![fixmap] = Machineized(@),
              ![pud] = [m.entry[ours[KernelSlot]] EXCEPT ![Fan - 1] = fixmap],
              ![Machine(TopPgt)] = [i \in Index |-> IF i = KernelSlot THEN pud
                                                    ELSE IF ours[i] # 0 THEN ours[i]
                                                    ELSE @[i]]]
  IN  [m EXCEPT !.entry = e]

Adopt ==
  /\ phase = "prepared"
  /\ LET pud == NewFrame(Memory)
     IN  IF pud = 0
         THEN /\ entry' = [entry EXCEPT ![Machine(FixmapPgt)] = Machineized(@)]
              /\ phase' = "failed"
              /\ UNCHANGED <<table_top, owned, cr3>>
         ELSE /\ Keep([Grafted(TableFrame(Memory), pud) EXCEPT !.owned = owned])
              /\ cr3' = Machine(TopPgt)
              /\ phase' = "running"
  /\ UNCHANGED <<begun, asked, root, passage, mapped>>

\* co_arch_test_space, at any time: a space of its own, out of whatever source is set.
\* The pages it takes from a load's range are not given back.
TestSpace ==
  /\ root # 0
  /\ LET r == guest_map(TableFrame(Memory), NewFrame(Memory), StackVa, 1)
     IN  /\ NewFrame(Memory) # 0
         /\ Keep([r.m EXCEPT !.owned = owned])
  /\ UNCHANGED <<begun, phase, asked, root, cr3, passage, mapped>>

\* co_kload_free: co_arch_guest_space_destroy, the frame source, the memory.
Free ==
  /\ root # 0
  /\ root' = 0 /\ owned' = 0 /\ cr3' = 0 /\ phase' = "none"
  /\ mapped' = << >> /\ entry' = << >>
  /\ UNCHANGED <<begun, asked, table_top, passage>>

Next ==
  \/ Begin \/ BuildRam \/ PrepareBoot \/ PrepareSecondary \/ Prepared \/ Adopt
  \/ TestSpace \/ Free
  \/ \E page \in 0..(Image - 1) : LoadChunk(page)

Spec == Init /\ [][Next]_vars

(***************************************************************************)
(* Properties                                                              *)
(***************************************************************************)

\* The tables below the one at top, itself included: co_space_free_table's walk.
TablesUnder(top) ==
  LET below[l \in 1..Levels] ==
        IF l = 1 THEN {top}
        ELSE {entry[t][i] : t \in below[l - 1], i \in Index} \ {0}
  IN  UNION {below[l] : l \in 1..Levels}

\* A lookup through kload_space finds exactly what was mapped: the frame last asked for
\* at every address mapped and nothing at any other, whatever shares its tables,
\* and also after a map that ran out of tables half way.
LookupExact ==
  root # 0 => \A va \in Addresses :
    lookup_root(entry, root, va) = IF va \in DOMAIN mapped THEN mapped[va] ELSE 0

\* The destructor finds as many tables as the space counted: each is reached exactly
\* once, and the image's own tables are never reached from the loader's root.
OwnedExact ==
  root # 0 => /\ Cardinality(TablesUnder(root)) = owned
              /\ \A t \in TablesUnder(root) : \E n \in table_top..(Image + Tables - 1) : t = Machine(n)

\* Once the guest runs on its own root, everything the loader mapped is there too, the
\* passage pages its processors enter through above all, and nothing else.
GraftComplete ==
  phase = "running" => \A va \in Addresses :
    lookup_root(entry, cr3, va) = lookup_root(entry, root, va)

\* Linux reads its page tables through its direct map: every table below the root it runs
\* on is a page of its own memory, mapped there.
TablesInDirectMap ==
  phase = "running" => \A t \in TablesUnder(cr3) :
    \E n \in 0..(Ram - 1) : t = Machine(n) /\ lookup_root(entry, cr3, DirectVa(n)) = t
=============================================================================
