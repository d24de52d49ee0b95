------------------------------- MODULE PhysMem -------------------------------
(***************************************************************************)
(* Memory (mm/mod.rs, mm/pmm.rs, mm/heap.rs) from the E820 map that the    *)
(* boot loader leaves (boot_info.rs).  Page frames carry the nodes of the  *)
(* free list; the heap is another allocator, of the addresses from         *)
(* HeapStart.  Neither knows of the other: pmm::init leaves out only what  *)
(* is below 2 MB, so that where the map calls the heap's addresses usable  *)
(* its pages are on the free list as well, and a page that is handed out   *)
(* may be the memory of a block.  Nothing outside mm/ asks for pages.      *)
(*                                                                         *)
(* Pages are handed out to callers that give back only what they hold, at  *)
(* any address within it, or give it back twice.                           *)
(***************************************************************************)
EXTENDS IntrusiveList, Integers, FiniteSets, SequencesExt

CONSTANTS
  Maps,             \* E820 maps: sequences of entries [base, length, region_type]
  PageSize,         \* PAGE_SIZE: 4096 in the code
  MaxPageFrames,    \* MAX_PAGE_FRAMES: 65536
  FirstKernelPage,  \* the page at 1 MB: 256
  FirstFreePage,    \* the page at 2 MB: 512
  HeapStart,        \* HEAP_START: 16 MB
  HeapSize,         \* HEAP_SIZE: 4 MB
  Layouts           \* requests to the heap: [size, align]

ASSUME MemAssumption ==
  /\ Maps # {}
  /\ None \notin 0..MaxPageFrames - 1
  /\ {PageSize, MaxPageFrames} \subseteq Nat \ {0}
  /\ {FirstKernelPage, FirstFreePage, HeapStart, HeapSize} \subseteq Nat
  /\ FirstKernelPage <= FirstFreePage
  /\ \A l \in Layouts : l.size \in Nat /\ l.align \in Nat \ {0}

VARIABLES
  e820,         \* the map
  pmm,          \* PAGE_FRAMES, FREE_LIST and STATS
  memory_info,  \* what mm::init returned
  next,         \* SimpleBumpAllocator::next
  held,         \* history: the pages handed out and not given back
  blocks        \* history: what the heap handed out, as <<start, end>>

memVars == <<e820, pmm, memory_info, next, held, blocks>>

Frames == 0..MaxPageFrames - 1

entry_type(e) == CASE e.region_type = 1 -> "Usable"
                   [] e.region_type = 3 -> "AcpiReclaimable"
                   [] e.region_type = 4 -> "AcpiNvs"
                   [] e.region_type = 5 -> "BadMemory"
                   [] OTHER             -> "Reserved"
EndOf(e) == e.base + e.length
UsableEntries == {i \in DOMAIN e820 : entry_type(e820[i]) = "Usable"}
-----------------------------------------------------------------------------
(* pmm.rs *)

NoPmm == [flags |-> [p \in Frames |-> {}], ref_count |-> [p \in Frames |-> 0],
          links |-> [p \in Frames |-> Unlinked], list |-> EmptyList,
          free_pages |-> 0, kernel_pages |-> 0, reserved_pages |-> 0, total_pages |-> 0]

Listed(m, x) == [m EXCEPT !.list = x.list, !.links = x.links]
is_free(m, p) == "FREE" \in m.flags[p]

\* The whole pages in an entry.
FirstPage(e) == (e.base + PageSize - 1) \div PageSize
EndPage(e)   == EndOf(e) \div PageSize
Pages(e) == [i \in 1..EndPage(e) - FirstPage(e) |-> FirstPage(e) + i - 1]

AsKernel(m, p) == [m EXCEPT !.flags[p] = {"KERNEL"}, !.kernel_pages = @ + 1]
AsFree(m, p) ==
  [Listed(m, push_front(m.list, m.links, p)) EXCEPT !.flags[p] = {"FREE"}, !.free_pages = @ + 1]

AddPage(m, p) ==
  CASE p < FirstKernelPage \/ p >= MaxPageFrames -> m
    [] p \in FirstKernelPage..FirstFreePage - 1 /\ p < MaxPageFrames -> AsKernel(m, p)
    [] p >= FirstFreePage /\ p < MaxPageFrames -> AsFree(m, p)

AddEntry(m, e) ==
  LET after[n \in 0..Len(Pages(e))] == IF n = 0 THEN m ELSE AddPage(after[n - 1], Pages(e)[n])
  IN  IF entry_type(e) = "Usable" THEN after[Len(Pages(e))] ELSE m

Reserved == [NoPmm EXCEPT !.flags = [p \in Frames |-> {"RESERVED"}]]

pmm_init(map) ==
  LET after[i \in 0..Len(map)] == IF i = 0 THEN Reserved ELSE AddEntry(after[i - 1], map[i])
      m == after[Len(map)]
  IN  [m EXCEPT !.total_pages = m.free_pages + m.kernel_pages + m.reserved_pages]

\* Sums over the map that are only displayed.
Totals(map) ==
  [total_kb |-> FoldLeft(LAMBDA t, e : IF EndOf(e) > t THEN EndOf(e) ELSE t, 0, map) \div 1024,
   usable_kb |-> FoldLeft(LAMBDA t, e : IF entry_type(e) = "Usable" THEN t + e.length ELSE t, 0, map) \div 1024,
   e820_entries |-> Len(map)]

\* A page that lies whole in an entry.
WholeIn(e, p) == e.base <= p * PageSize /\ (p + 1) * PageSize <= EndOf(e)

\* The map comes from the BIOS and is not checked: a page whole in two usable
\* entries would be listed twice.  What mm::init returns is not None.
ASSUME MapsAssumption ==
  \A map \in Maps :
    /\ map \in Seq([base : Nat, length : Nat, region_type : Nat])
    /\ \A i, j \in DOMAIN map, p \in FirstFreePage..MaxPageFrames - 1 :
         /\ entry_type(map[i]) = "Usable" /\ WholeIn(map[i], p)
         /\ entry_type(map[j]) = "Usable" /\ WholeIn(map[j], p)
         => i = j
    /\ Totals(map) # None

MmInit ==
  /\ memory_info = None
  /\ memory_info' = Totals(e820)
  /\ pmm' = pmm_init(e820)
  /\ UNCHANGED <<e820, next, held, blocks>>

AllocPage ==
  /\ ~is_empty(pmm.list)
  /\ LET p == pmm.list.head
     IN  /\ pmm' = [Listed(pmm, pop_front(pmm.list, pmm.links)) EXCEPT
                      !.flags[p] = @ \ {"FREE"}, !.ref_count[p] = 1, !.free_pages = @ - 1]
         /\ held' = held \cup {p}
  /\ UNCHANGED <<e820, memory_info, next, blocks>>

\* Mutant: the check for a page given back twice is missing.
Returned_unchecked(m, addr) ==
  LET p == addr \div PageSize
  IN  IF p >= MaxPageFrames THEN m
      ELSE [Listed(m, push_front(m.list, m.links, p)) EXCEPT
              !.flags[p] = @ \cup {"FREE"}, !.ref_count[p] = 0, !.free_pages = @ + 1]
Returned(m, addr) ==
  LET p == addr \div PageSize
  IN  IF p >= MaxPageFrames \/ is_free(m, p) THEN m
      ELSE [Listed(m, push_front(m.list, m.links, p)) EXCEPT
              !.flags[p] = @ \cup {"FREE"}, !.ref_count[p] = 0, !.free_pages = @ + 1]

FreePage(addr) ==
  LET p == addr \div PageSize
  IN  /\ memory_info # None
      /\ p < MaxPageFrames => p \in held \/ is_free(pmm, p)
      /\ pmm' = Returned(pmm, addr)
      /\ held' = held \ {p}
      /\ UNCHANGED <<e820, memory_info, next, blocks>>
-----------------------------------------------------------------------------
(* heap.rs *)
AlignUp(a, align) == ((a + align - 1) \div align) * align

\* A request that does not fit gets null, and nothing is ever given back.
HeapAlloc(l) ==
  LET start == AlignUp(next, l.align)
  IN  /\ start + l.size <= HeapStart + HeapSize
      /\ next' = start + l.size
      /\ blocks' = blocks \cup {<<start, start + l.size>>}
      /\ UNCHANGED <<e820, pmm, memory_info, held>>
-----------------------------------------------------------------------------
MemInit(maps) ==
  /\ e820 \in maps
  /\ pmm = NoPmm
  /\ memory_info = None
  /\ next = HeapStart
  /\ held = {}
  /\ blocks = {}

MemNext ==
  \/ MmInit
  \/ AllocPage
  \/ \E addr \in 0..MaxPageFrames * PageSize : FreePage(addr)
  \/ \E l \in Layouts : HeapAlloc(l)

Walk == Walked(pmm.list, pmm.links, MaxPageFrames)
Whole(p) == \E i \in UsableEntries : WholeIn(e820[i], p)

\* Every page that may be handed out is free and on the list once, or held by one caller.
PagesExact ==
  memory_info # None =>
    LET usable == {p \in Frames : p >= FirstFreePage /\ Whole(p)}
    IN  /\ IsList(pmm.list, pmm.links, Walk)
        /\ ToSet(Walk) = usable \ held /\ held \subseteq usable
        /\ ToSet(Walk) = {p \in Frames : is_free(pmm, p)}
        /\ pmm.free_pages = Cardinality(usable \ held)
        /\ pmm.total_pages - pmm.kernel_pages = Cardinality(usable)
\* The heap's blocks are in the heap, and apart from each other.
HeapExact ==
  /\ \A b \in blocks : b[1] >= HeapStart /\ b[2] <= HeapStart + HeapSize
  /\ \A a, b \in blocks : a # b => a[2] <= b[1] \/ b[2] <= a[1]
=============================================================================
