-------------------------------- MODULE PMM --------------------------------
(***************************************************************************)
(* The physical memory manager, kernel/src/mm/pmm.c: pmm_init, which reads *)
(* the boot loader's memory map and builds the frame bitmap, and the two   *)
(* calls every other memory component is built on, pmm_alloc_page and      *)
(* pmm_free_page.                                                          *)
(*                                                                         *)
(* The kernel runs on one CPU and every caller reaches these functions     *)
(* with interrupts off, so each call is one atomic action.  pmm_init's     *)
(* loop over the memory map is one action per entry: nothing runs beside   *)
(* it, and the invariants then speak about its intermediate states too.    *)
(***************************************************************************)
EXTENDS Integers, Sequences, FiniteSets

\* The memory maps the boot loader may pass to pmm_init.
CONSTANT MemMaps

PAGE_SIZE == 4096

AlignUp(x) == ((x + PAGE_SIZE - 1) \div PAGE_SIZE) * PAGE_SIZE
AlignDown(x) == (x \div PAGE_SIZE) * PAGE_SIZE
pa2pgidx(pa) == pa \div PAGE_SIZE
pgidx2pa(i) == i * PAGE_SIZE

\* A map entry: [base, length, base + length) and whether its type is
\* LIMINE_MEMMAP_USABLE.
Entry == [base : Nat, length : Nat, usable : BOOLEAN]

End(e) == e.base + e.length

\* What the Limine protocol guarantees of a map: there is an entry, usable
\* entries are page aligned in base and length, are not empty, and overlap
\* no other usable entry.  Nothing is assumed of the other entries.
WellFormedMap(m) ==
    /\ m \in Seq(Entry)
    /\ Len(m) > 0
    /\ \A i \in DOMAIN m : m[i].usable =>
         /\ m[i].base % PAGE_SIZE = 0
         /\ m[i].length % PAGE_SIZE = 0
         /\ m[i].length > 0
    /\ \A i, j \in DOMAIN m : (m[i].usable /\ m[j].usable /\ i # j) =>
         (End(m[i]) <= m[j].base \/ End(m[j]) <= m[i].base)

ASSUME MemMapsAssumption == \A m \in MemMaps : WellFormedMap(m)

VARIABLES
    phase,              \* "boot", "freeing", "ready" or "hung"
    mmap,               \* the map pmm_init was given
    entry,              \* the entry its last loop looks at next
    bitmap,             \* the frames whose bit is 1
    bitmap_pa,          \* where the bitmap itself lives
    bitmap_pages,       \* how many frames the bitmap occupies
    total_pages,
    free_pages,
    last_free_index,    \* where the next scan starts
    ret,                \* what the last pmm_alloc_page returned
    held,               \* history: frames returned to a caller, not yet freed
    managed             \* history: the frames that were free when boot ended

vars == <<phase, mmap, entry, bitmap, bitmap_pa, bitmap_pages, total_pages,
          free_pages, last_free_index, ret, held, managed>>

bootvars == <<phase, mmap, entry, bitmap_pa, bitmap_pages, total_pages, managed>>

Pages == 0 .. total_pages - 1

\* The frames whose bit is 0.
Clear == Pages \ bitmap

\* An element of S no other element is below: what an ascending scan stops at.
Lowest(S) == CHOOSE i \in S : \A j \in S : i <= j

Init ==
    /\ phase = "boot"
    /\ mmap \in MemMaps
    /\ entry = 1
    /\ bitmap = {}
    /\ bitmap_pa = 0
    /\ bitmap_pages = 0
    /\ total_pages = 0
    /\ free_pages = 0
    /\ last_free_index = 0
    /\ ret = 0
    /\ held = {}
    /\ managed = {}

-----------------------------------------------------------------------------
(* pmm_set_free and pmm_set_busy: both refuse a range whose end reaches    *)
(* total_pages, and both count only the bits they really change.           *)

InRange(first, n) == first + n < total_pages

Run(first, n) == first .. first + n - 1

pmm_set_free(first, n) ==
    IF InRange(first, n)
    THEN /\ bitmap' = bitmap \ Run(first, n)
         /\ free_pages' = free_pages + Cardinality(Run(first, n) \cap bitmap)
    ELSE UNCHANGED <<bitmap, free_pages>>

-----------------------------------------------------------------------------
(* pmm_init up to the memset: the highest address of any entry fixes the   *)
(* number of frames, and the bitmap goes to the start of the first usable  *)
(* entry that can hold it.  No such entry, or one that starts at address   *)
(* 0, leaves bitmap_pa at 0 and the kernel halts.                          *)

HighestPa(m) == CHOOSE h \in {End(m[i]) : i \in DOMAIN m} :
                    \A i \in DOMAIN m : End(m[i]) <= h

BitmapSize(pages) == (pages + 7) \div 8

BitmapPages(pages) == AlignUp(BitmapSize(pages)) \div PAGE_SIZE

HoldsBitmap(e, pages) ==
    /\ e.usable
    /\ e.length >= BitmapSize(pages)
    /\ e.length >= BitmapPages(pages) * PAGE_SIZE

pmm_init_bitmap ==
    /\ phase = "boot"
    /\ LET pages == HighestPa(mmap) \div PAGE_SIZE
           hosts == {i \in DOMAIN mmap : HoldsBitmap(mmap[i], pages)}
           pa    == IF hosts = {} THEN 0 ELSE mmap[Lowest(hosts)].base
       IN  /\ total_pages' = pages
           /\ bitmap_pages' = BitmapPages(pages)
           /\ bitmap_pa' = pa
           /\ IF pa = 0
              THEN /\ phase' = "hung"
                   /\ UNCHANGED bitmap
              ELSE /\ phase' = "freeing"
                   /\ bitmap' = 0 .. pages - 1
    /\ UNCHANGED <<mmap, entry, free_pages, last_free_index, ret, held, managed>>

\* One turn of the loop that marks the usable entries free.
pmm_init_free ==
    /\ phase = "freeing"
    /\ entry <= Len(mmap)
    /\ LET e     == mmap[entry]
           start == AlignUp(e.base)
           end   == AlignDown(End(e))
       IN  IF e.usable /\ start < end
           THEN pmm_set_free(pa2pgidx(start), (end - start) \div PAGE_SIZE)
           ELSE UNCHANGED <<bitmap, free_pages>>
    /\ entry' = entry + 1
    /\ UNCHANGED <<phase, mmap, bitmap_pa, bitmap_pages, total_pages,
                   last_free_index, ret, held, managed>>

\* The frames pmm_set_busy(first, n) leaves busy.
pmm_set_busy(first, n) == IF InRange(first, n) THEN Run(first, n) ELSE {}

\* Mutant: the bitmap's own frames are not taken back.
ReservedMutant == pmm_set_busy(0, 1)

\* The two reservations that end pmm_init: the bitmap itself, then page 0.
Reserved == pmm_set_busy(pa2pgidx(bitmap_pa), bitmap_pages) \cup pmm_set_busy(0, 1)

pmm_init_reserve ==
    /\ phase = "freeing"
    /\ entry > Len(mmap)
    /\ bitmap' = bitmap \cup Reserved
    /\ free_pages' = free_pages - Cardinality(Reserved \ bitmap)
    /\ managed' = Clear \ Reserved
    /\ phase' = "ready"
    /\ UNCHANGED <<mmap, entry, bitmap_pa, bitmap_pages, total_pages,
                   last_free_index, ret, held>>
-----------------------------------------------------------------------------
(* pmm_alloc_page: an ascending scan from last_free_index, then one from 0 *)
(* up to last_free_index.  Failure is answered with address 0.             *)

\* Mutant: the scan starts after the frame the cursor names.
FirstRoundMutant == {i \in Clear : i > last_free_index}

FirstRound == {i \in Clear : i >= last_free_index}
SecondRound == {i \in Clear : i < last_free_index}

Scan == IF FirstRound # {} THEN FirstRound ELSE SecondRound

Take(i) ==
    /\ bitmap' = bitmap \cup {i}
    /\ free_pages' = free_pages - 1
    /\ last_free_index' = i + 1
    /\ ret' = pgidx2pa(i)

\* Mutant: the last frame is kept back.
OutOfFramesMutant == free_pages <= 1 \/ Scan = {}

OutOfFrames == free_pages = 0 \/ Scan = {}

\* A caller takes address 0 for failure, whichever frame is meant by it.
pmm_alloc_page ==
    /\ phase = "ready"
    /\ \/ /\ OutOfFrames
          /\ ret' = 0
          /\ UNCHANGED <<bitmap, free_pages, last_free_index>>
       \/ /\ ~OutOfFrames
          /\ Take(Lowest(Scan))
    /\ held' = IF ret' = 0 THEN held ELSE held \cup {pa2pgidx(ret')}
    /\ UNCHANGED bootvars

-----------------------------------------------------------------------------
(* pmm_free_page: an address past the last frame and a frame whose bit is  *)
(* already clear are reported and ignored.                                 *)

\* Mutant: the cursor is not pulled back to the freed frame.
ReleaseCursorMutant(i) ==
    /\ bitmap' = bitmap \ {i}
    /\ free_pages' = free_pages + 1
    /\ UNCHANGED last_free_index

Release(i) ==
    /\ bitmap' = bitmap \ {i}
    /\ free_pages' = free_pages + 1
    /\ last_free_index' = IF i < last_free_index THEN i ELSE last_free_index

\* Mutant: no double-free check.
RejectsMutant(i) == i >= total_pages

Rejects(i) == i >= total_pages \/ i \notin bitmap

pmm_free_page(pa) ==
    /\ phase = "ready"
    /\ \/ /\ Rejects(pa2pgidx(pa))
          /\ UNCHANGED <<bitmap, free_pages, last_free_index>>
       \/ /\ ~Rejects(pa2pgidx(pa))
          /\ Release(pa2pgidx(pa))
    /\ held' = held \ {pa2pgidx(pa)}
    /\ UNCHANGED <<bootvars, ret>>

\* What the callers pass to pmm_free_page: a frame they hold; a frame they
\* already gave back (sys_fork does, when mm_copy has freed the child's
\* address space and free_proc frees it again); an address past the end.
FreeArguments == {pgidx2pa(i) : i \in managed \cup {total_pages}}

-----------------------------------------------------------------------------
\* A kernel with no usable entry for its bitmap executes hlt for ever.
Halted == phase = "hung" /\ UNCHANGED vars

Next ==
    \/ pmm_init_bitmap
    \/ pmm_init_free
    \/ pmm_init_reserve
    \/ pmm_alloc_page
    \/ \E pa \in FreeArguments : pmm_free_page(pa)
    \/ Halted

Spec == Init /\ [][Next]_vars

-----------------------------------------------------------------------------
(* Properties.                                                             *)

\* Types of pmm.c's globals; the cursor never leaves the bitmap, so the scan
\* that starts there reads no bit past its end.
TypeOK ==
    /\ phase \in {"boot", "freeing", "ready", "hung"}
    /\ mmap \in MemMaps
    /\ entry \in 1 .. Len(mmap) + 1
    /\ total_pages \in Nat
    /\ bitmap \subseteq Pages
    /\ bitmap_pa \in Nat
    /\ bitmap_pages \in Nat
    /\ free_pages \in Nat
    /\ last_free_index \in 0 .. total_pages
    /\ ret \in Nat
    /\ held \subseteq Pages
    /\ managed \subseteq Pages

\* free_pages, the counter pmm_alloc_page trusts for "out of memory", is the
\* number of clear bits, through boot, allocation, free and rejected frees.
CountExact == phase # "hung" => free_pages = Cardinality(Clear)

\* No frame is lost and none is handed out twice: once boot is over, each
\* frame the manager started with is either free or with one caller.
Conservation ==
    phase = "ready" => /\ managed = Clear \cup held
                       /\ Clear \cap held = {}

\* pmm_init never puts a frame under management that is not RAM the boot
\* loader gave away, that holds the bitmap itself, or that is frame 0, whose
\* address callers read as failure; the refusals of pmm_set_busy at the end
\* of memory do not break this.
UsableFrames ==
    UNION {Run(pa2pgidx(mmap[i].base), mmap[i].length \div PAGE_SIZE) :
             i \in {j \in DOMAIN mmap : mmap[j].usable}}

BitmapFrames == Run(pa2pgidx(bitmap_pa), bitmap_pages)

ReservedStaysBusy ==
    phase = "ready" =>
        (Clear \cup held) \subseteq UsableFrames \ (BitmapFrames \cup {0})

\* The cursor is a true lower bound: every frame below it is busy, so the
\* first scan alone decides whether an allocation succeeds.
NoClearBelowCursor == \A i \in Clear : i >= last_free_index

\* An allocation fails only when nothing is free, and otherwise returns the
\* lowest free frame of all: the cursor makes next-fit behave as first-fit.
AllocLowest ==
    [][pmm_alloc_page => IF Clear = {} THEN ret' = 0
                         ELSE ret' = pgidx2pa(Lowest(Clear)) /\ ret' # 0]_vars

\* The manager is the frame pool its callers expect.
Pool == INSTANCE FrameAllocator WITH
            up <- phase = "ready",
            pool <- IF phase = "ready" THEN Clear ELSE {},
            answer <- pa2pgidx(ret)

ImplementsFrameAllocator == Pool!ASpec

\* README.md: pmm_init walks the map again and sets up the frames "of every
\* free area".  pmm_set_free refuses an area that ends at the last frame.
EveryFreeAreaManaged ==
    phase = "ready" => UsableFrames \ (BitmapFrames \cup {0}) = managed
=============================================================================
