------------------------------- MODULE KHeap -------------------------------
(***************************************************************************)
(* The kernel heap, kernel/src/mm/pmm.c: kheap_init, kheap_expand,         *)
(* first_fit, kmalloc and kfree.                                           *)
(*                                                                         *)
(* Addresses are offsets from KERNEL_HEAP_BASE, in bytes.  A call of       *)
(* kmalloc is a sequence of actions, one per page it adds to the heap; no  *)
(* other user of the heap runs in between.  Frames come from the physical  *)
(* memory manager, which the rest of the kernel uses as well; only their   *)
(* number matters here.                                                    *)
(*                                                                         *)
(* Headers live in the memory they describe.  Once a header of the list    *)
(* and memory a caller owns share a byte, what the next call reads is up   *)
(* to that caller, and the model follows the heap no further.              *)
(***************************************************************************)
EXTENDS Integers, Sequences, SequencesExt

CONSTANTS
    Requests,       \* the sizes kmalloc is called with
    INIT_PAGES,     \* pages kheap_init starts with, 4 in main.c
    Frames,         \* bound: frames of physical memory
    TableSpan,      \* pages one page table maps, 512 on x86-64
    MaxCalls,       \* bound: calls of kmalloc
    MaxLent         \* bound: frames the rest of the kernel takes at a time

ASSUME KHeapAssumption ==
    /\ Requests \subseteq Nat
    /\ INIT_PAGES \in Nat \ {0}
    /\ Frames \in Nat
    /\ TableSpan \in Nat \ {0}
    /\ MaxCalls \in Nat
    /\ MaxLent \in Nat

PAGE_SIZE == 4096
HEADER_SIZE == 32
MIN_SPLIT == 16

Boot == -1      \* in place of a request: kheap_init is the caller

AlignUp(x, align) == ((x + align - 1) \div align) * align

VARIABLES
    kheap_list,     \* block headers in list order: [addr, size, is_free]
    kheap_top,      \* end of the mapped part of the heap
    pc,             \* "idle", or where kmalloc is: "fit", "expand"; "dead"
    req,            \* the aligned size kmalloc looks for, or Boot
    pgnum,          \* pages kheap_expand has still to add
    frames,         \* frames pmm_alloc_page can still return
    lent,           \* frames the rest of the kernel holds
    live,           \* history: blocks callers own, as [owner, addr, size];
                    \* the owner is the number of the kmalloc call
    stale,          \* history: blocks freed since the last kmalloc
    had,            \* history: frames there were when kmalloc was called
    calls,          \* calls of kmalloc so far
    lifo            \* history: each kfree was of the live block highest in the heap

vars == <<kheap_list, kheap_top, pc, req, pgnum, frames, lent, live,
          stale, had, calls, lifo>>

Block(a, s, f) == [addr |-> a, size |-> s, is_free |-> f]

\* The first byte after a block.
BlockEnd(b) == b.addr + HEADER_SIZE + b.size

Init ==
    /\ kheap_list = <<>>
    /\ kheap_top = 0
    /\ pc = "expand"
    /\ req = Boot
    /\ pgnum = INIT_PAGES
    /\ frames \in 0 .. Frames
    /\ lent = 0
    /\ live = {}
    /\ stale = {}
    /\ had = frames
    /\ calls = 0
    /\ lifo = TRUE

\* A call ends and its local variables are gone.
Return ==
    /\ pc' = "idle"
    /\ req' = 0
    /\ pgnum' = 0
    /\ had' = 0

-----------------------------------------------------------------------------
(* Where the model stops.                                                  *)

Overlap(a, m, b, n) == a < b + n /\ b < a + m

\* Bytes of a block a caller owns, its header included.
Shares(b, c) == Overlap(b.addr, HEADER_SIZE + b.size, c.addr, HEADER_SIZE + c.size)

Corrupted ==
    \/ \E b, c \in live : b # c /\ Shares(b, c)
    \/ \E i \in DOMAIN kheap_list, b \in live :
         /\ kheap_list[i].addr # b.addr
         /\ Overlap(kheap_list[i].addr, HEADER_SIZE, b.addr, HEADER_SIZE + b.size)

-----------------------------------------------------------------------------
(* kfree: the block becomes free, then absorbs the block behind it and is  *)
(* absorbed by the block before it, whenever the addresses are adjacent.   *)

Adjoins(b, c) == BlockEnd(b) = c.addr

\* Block i and the one behind it become block i.
Absorb(bs, i) ==
    RemoveAt([bs EXCEPT ![i].size = @ + bs[i + 1].size + HEADER_SIZE], i + 1)

MergeNext(bs, i) ==
    IF i < Len(bs) /\ Adjoins(bs[i], bs[i + 1]) THEN Absorb(bs, i) ELSE bs

\* Mutant: nothing is merged with the block before.
MergePrevNoneMutant(bs, i) == bs

\* Mutant: the length of the absorbed block's header is forgotten.
MergePrevMutant(bs, i) ==
    IF i > 1 /\ Adjoins(bs[i - 1], bs[i])
    THEN RemoveAt([bs EXCEPT ![i - 1].size = @ + bs[i].size], i) ELSE bs

MergePrev(bs, i) ==
    IF i > 1 /\ Adjoins(bs[i - 1], bs[i]) THEN Absorb(bs, i - 1) ELSE bs

\* Freeing block i of the list.
Freed(bs, i) == MergePrev(MergeNext([bs EXCEPT ![i].is_free = TRUE], i), i)

\* The list after kfree of the block at address a.  A header that was absorbed
\* points to itself, so freeing it finds no neighbour and changes no list.
FreedAt(bs, a) ==
    LET i == SelectInSeq(bs, LAMBDA b : b.addr = a)
    IN  IF i = 0 THEN bs ELSE Freed(bs, i)

kfree(b) ==
    /\ pc = "idle" /\ ~Corrupted
    /\ b \in live
    /\ kheap_list' = FreedAt(kheap_list, b.addr)
    /\ live' = live \ {b}
    /\ stale' = stale \cup {b}
    /\ lifo' = (lifo /\ \A c \in live : c.addr <= b.addr)
    /\ UNCHANGED <<kheap_top, pc, req, pgnum, frames, lent, had, calls>>

\* A second kfree with no kmalloc in between, as on the error path of fork:
\* mm_copy frees the child's address space and free_proc frees it again.
kfree_again(b) ==
    /\ pc = "idle" /\ ~Corrupted
    /\ b \in stale
    /\ kheap_list' = FreedAt(kheap_list, b.addr)
    /\ UNCHANGED <<kheap_top, pc, req, pgnum, frames, lent, live, stale, had, calls, lifo>>

-----------------------------------------------------------------------------
(* kheap_expand, one page at a time.  The page is mapped in page tables    *)
(* that may have to be allocated too; vmm_map_page does not report that    *)
(* they could not, and the header is then written to an unmapped address.  *)

\* The page tables a page needs, without the page directory that every GiB of
\* heap takes in addition.
Tables(page) ==
    CASE page = 0 -> 3
      [] page # 0 /\ page % TableSpan = 0 -> 1
      [] OTHER -> 0

\* The new page is a block that is in use until kfree frees it.
Grown ==
    LET bs == Append(kheap_list, Block(kheap_top, PAGE_SIZE - HEADER_SIZE, FALSE))
    IN  Freed(bs, Len(bs))

\* Mutant: the caller is not told that the heap could not grow.
kheap_expand_fails_mutant ==
    /\ pc = "expand"
    /\ frames = 0
    /\ pc' = "fit"
    /\ UNCHANGED <<kheap_list, kheap_top, req, pgnum, frames, lent, live, stale, had, calls, lifo>>

kheap_expand_fails ==
    /\ pc = "expand"
    /\ frames = 0
    /\ Return
    /\ UNCHANGED <<kheap_list, kheap_top, frames, lent, live, stale, calls, lifo>>

kheap_expand_page ==
    /\ pc = "expand"
    /\ frames > 0
    /\ LET need == 1 + Tables(kheap_top \div PAGE_SIZE)
       IN  \/ /\ frames >= need
              /\ frames' = frames - need
              /\ kheap_list' = Grown
              /\ kheap_top' = kheap_top + PAGE_SIZE
              /\ IF pgnum = 1 /\ req = Boot
                 THEN Return
                 ELSE /\ pgnum' = pgnum - 1
                      /\ pc' = IF pgnum = 1 THEN "fit" ELSE "expand"
                      /\ UNCHANGED <<req, had>>
           \/ /\ frames < need
              /\ frames' = 0
              /\ pc' = "dead"
              /\ UNCHANGED <<kheap_list, kheap_top, req, pgnum, had>>
    /\ UNCHANGED <<lent, live, stale, calls, lifo>>

-----------------------------------------------------------------------------
(* kmalloc: first fit, else grow the heap and look again.                  *)

kmalloc(size) ==
    /\ pc = "idle" /\ ~Corrupted
    /\ calls < MaxCalls
    /\ calls' = calls + 1
    /\ req' = AlignUp(size, 8)
    /\ pc' = "fit"
    /\ stale' = {}
    /\ had' = frames
    /\ UNCHANGED <<kheap_list, kheap_top, pgnum, frames, lent, live, lifo>>

Fits(b) == b.is_free /\ b.size >= req

first_fit == SelectInSeq(kheap_list, Fits)

\* Enough is left for a header and MIN_SPLIT bytes.
Splits(b) == b.size >= req + HEADER_SIZE + MIN_SPLIT

\* Mutant: the header of the returned block is not counted.
RestMutant(b) == Block(b.addr + req, b.size - req, TRUE)

Rest(b) == Block(b.addr + HEADER_SIZE + req, b.size - req - HEADER_SIZE, TRUE)

kmalloc_fit ==
    /\ pc = "fit"
    /\ first_fit # 0
    /\ LET i == first_fit
           b == kheap_list[i]
       IN  /\ kheap_list' =
                IF Splits(b)
                THEN InsertAt([kheap_list EXCEPT ![i] = Block(b.addr, req, FALSE)], i + 1, Rest(b))
                ELSE [kheap_list EXCEPT ![i].is_free = FALSE]
           /\ live' = live \cup {[owner |-> calls, addr |-> b.addr, size |-> req]}
    /\ Return
    /\ UNCHANGED <<kheap_top, frames, lent, stale, calls, lifo>>

PagesNeeded(size) == AlignUp(size + HEADER_SIZE, PAGE_SIZE) \div PAGE_SIZE

kmalloc_grow ==
    /\ pc = "fit"
    /\ first_fit = 0
    /\ pgnum' = PagesNeeded(req)
    /\ pc' = "expand"
    /\ UNCHANGED <<kheap_list, kheap_top, req, frames, lent, live, stale, had, calls, lifo>>

-----------------------------------------------------------------------------
(* The rest of the kernel takes frames and gives them back.                *)

others_take ==
    /\ pc = "idle" /\ ~Corrupted
    /\ frames > 0
    /\ lent < MaxLent
    /\ frames' = frames - 1
    /\ lent' = lent + 1
    /\ UNCHANGED <<kheap_list, kheap_top, pc, req, pgnum, live, stale, had, calls, lifo>>

others_return ==
    /\ pc = "idle" /\ ~Corrupted
    /\ lent > 0
    /\ frames' = frames + 1
    /\ lent' = lent - 1
    /\ UNCHANGED <<kheap_list, kheap_top, pc, req, pgnum, live, stale, had, calls, lifo>>

\* After the page fault the kernel halts; past Corrupted, and past the bound
\* on calls, the model ends.
Halted ==
    /\ pc = "dead" \/ (pc = "idle" /\ (Corrupted \/ calls = MaxCalls))
    /\ UNCHANGED vars

Next ==
    \/ \E size \in Requests : kmalloc(size)
    \/ kmalloc_fit \/ kmalloc_grow
    \/ kheap_expand_page \/ kheap_expand_fails
    \/ \E b \in live : kfree(b)
    \/ \E b \in stale : kfree_again(b)
    \/ others_take \/ others_return
    \/ Halted

Spec == Init /\ [][Next]_vars

\* A call that was made is executed.
FairSpec ==
    /\ Spec
    /\ WF_vars(kmalloc_fit \/ kmalloc_grow \/ kheap_expand_page \/ kheap_expand_fails)

-----------------------------------------------------------------------------
(* Properties.                                                             *)

\* The blocks of the list tile the heap: in address order, without a gap and
\* without an overlap, from the base to kheap_top, after any sequence of
\* splits, merges, expansions and double frees; headers stay aligned to 8.
Tiling ==
    /\ \A i \in DOMAIN kheap_list :
         /\ kheap_list[i] \in [addr : Nat, size : Nat, is_free : BOOLEAN]
         /\ kheap_list[i].addr % 8 = 0 /\ kheap_list[i].size % 8 = 0
    /\ kheap_list = <<>> <=> kheap_top = 0
    /\ kheap_list # <<>> =>
         /\ Head(kheap_list).addr = 0
         /\ BlockEnd(Last(kheap_list)) = kheap_top
    /\ \A i \in 1 .. Len(kheap_list) - 1 : Adjoins(kheap_list[i], kheap_list[i + 1])

\* Callers that free in the reverse order of addresses are safe: the blocks
\* they own never overlap and no header of the list lies in their memory,
\* although kfree merges with blocks in use.
LifoSafe == lifo => ~Corrupted

\* Page tables of a heap of so many pages: two of the upper levels, shared, and
\* one for every TableSpan pages.
TablesMapping(pages) == IF pages = 0 THEN 0 ELSE 3 + (pages - 1) \div TableSpan

\* The frames an expansion for a request takes at most: its pages and, when
\* the heap is empty, all of their page tables.
FramesNeeded(size) == PagesNeeded(size) + TablesMapping(PagesNeeded(size))

\* kmalloc fails for want of memory only if there were fewer frames than the
\* request and its page tables may take, or if the last block of the list is
\* in use: the new pages then become part of that block.
FailsOnlyBehindUse ==
    [][(kheap_expand_fails /\ req # Boot) =>
         had < FramesNeeded(req) \/ ~Last(kheap_list).is_free]_vars

\* Every call of kmalloc ends, however often it grows the heap.
CallsReturn == pc \in {"fit", "expand"} ~> pc \in {"idle", "dead"}

-----------------------------------------------------------------------------
(* What the documentation says and the code does not do.                   *)

\* README.md:514: the next block is absorbed "if it exists and is free".  It
\* is absorbed when it is in use, and its memory is then given out again.
LiveDisjoint == \A b, c \in live : b # c => ~Shares(b, c)

\* README.md:500: kmalloc expands the heap and then retries.  When the last
\* block of the list is in use the new pages become part of that block, so a
\* request for which there are frames, those for its page tables included,
\* takes every frame and fails.
ExpansionServes ==
    [][(kheap_expand_fails /\ req # Boot) => had < FramesNeeded(req)]_vars
=============================================================================
