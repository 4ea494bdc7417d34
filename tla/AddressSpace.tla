---------------------------- MODULE AddressSpace ----------------------------
(***************************************************************************)
(* Address spaces and kernel stacks: kernel/src/mm/vmm.c, the page tables  *)
(* of kernel/src/mm/paging.c, kstack_init of kernel/src/mm/pmm.c, and the  *)
(* callers in proc.c and interrupts.c (create_user_process, fork, execve,  *)
(* brk).                                                                   *)
(*                                                                         *)
(* System calls run with interrupts off, so each is one action.  Memory    *)
(* may run out at any allocation: the number of frames is chosen in Init,  *)
(* and a call says how many of its kmallocs succeed.                       *)
(*                                                                         *)
(* A program is an ELF file: its PT_LOAD segments, in order, and its entry *)
(* point.  execve may be given any of Programs; a file that is no ELF, or  *)
(* that could not be read, is one with no segments and the entry 0.        *)
(* Segments lie in the user half of the addresses, so the rounding of an   *)
(* end at 2^64 (vmm.c:65) does not occur.                                  *)
(*                                                                         *)
(* A freed vma that is still linked is overwritten by some later kmalloc,  *)
(* and what the list then holds is arbitrary: the model ends there, as it  *)
(* does when the kernel halts in a page fault or for want of init.         *)
(***************************************************************************)
EXTENDS Integers, Sequences, FiniteSets, FiniteSetsExt, Functions

CONSTANTS
    PAGE_SIZE,      \* bytes of a page, 4096
    Span,           \* entries of a page table, 512
    Programs,       \* the files: PT_LOAD segments [va, size], in bytes, and entry
    InitProgram,    \* the file of init
    UserStack,      \* the user stack: [va, size], in bytes
    KSTACK_PAGES,   \* pages of a kernel stack, 4
    MaxFrames,      \* bound: frames of the machine
    Procs,          \* bound: process numbers, 1 is init
    MaxBrk,         \* bound: largest argument of brk
    MaxCalls        \* bound: system calls

ASSUME AddressSpaceAssumption ==
    /\ PAGE_SIZE \in Nat \ {0} /\ Span \in Nat \ {0, 1}
    /\ Programs \subseteq [segs : Seq([va : Nat, size : Nat]), entry : Nat]
    /\ InitProgram \in Programs /\ UserStack \in [va : Nat, size : Nat]
    /\ KSTACK_PAGES \in Nat \ {0} /\ MaxFrames \in Nat
    /\ MaxBrk \in Nat /\ MaxCalls \in Nat
    /\ Procs \subseteq Nat /\ 1 \in Procs

\* The area of the kernel stacks starts at an entry of the top table; the
\* stacks that can be made, each with its guard page, fit below that entry.
ASSUME KernelStackArea == (MaxCalls + 2) * (KSTACK_PAGES + 1) <= Span * Span * Span

VARIABLES
    pc,             \* "mm_init", "init", "run" or "dead"
    free,           \* frames pmm_alloc_page can return
    mm,             \* Procs -> address space, or NoMM
    alive,          \* processes that have not exited
    kernel,         \* tables and pages of the kernel stack area
    kstack_ptr,     \* first page after the last kernel stack
    kstack_base,    \* Procs -> first page of the kernel stack, 0 for none
    calls,          \* system calls so far
    ret,            \* the last system call that returned, and its answer, 0 or -1
    starved,        \* history: vmm_map_page found no frame for a table
    remapped,       \* history: vmm_map_page replaced a present entry
    orphaned        \* history: kstack_init failed

vars == <<pc, free, mm, alive, kernel, kstack_ptr, kstack_base, calls, ret,
          starved, remapped, orphaned>>

Frames == 1 .. MaxFrames

NoMM == [pml4 |-> 0]

Empty == [n \in {} |-> 0]

Returned(call, ok) == [call |-> call, value |-> IF ok THEN 0 ELSE -1]

Init ==
    /\ pc = "mm_init"
    /\ \E n \in 0 .. MaxFrames : free = 1 .. n
    /\ mm = [p \in Procs |-> NoMM]
    /\ alive = {}
    /\ kernel = [tables |-> Empty, pte |-> Empty]
    /\ kstack_ptr = 0
    /\ kstack_base = [p \in Procs |-> 0]
    /\ calls = 0
    /\ ret = Returned("none", TRUE)
    /\ starved = FALSE
    /\ remapped = FALSE
    /\ orphaned = FALSE

-----------------------------------------------------------------------------
(* Page tables.  A table is named by its level and its position at that    *)
(* level.  Work on one is a record: the tables and entries so far, the     *)
(* free frames, and whether a table or a page was refused.                 *)

\* Pages below one table of level 1, 2 and 3.
Reach == <<Span, Span * Span, Span * Span * Span>>

Node(level, page) == <<level, page \div Reach[level]>>

\* A range of bytes is rounded outwards to pages.
FirstPage(va) == va \div PAGE_SIZE

EndPage(va, size) == (va + size + PAGE_SIZE - 1) \div PAGE_SIZE

PageRange(va, size) == FirstPage(va) .. EndPage(va, size) - 1

Work(f, as) ==
    [free |-> f, tables |-> as.tables, pte |-> as.pte,
     starved |-> FALSE, failed |-> FALSE, done |-> {}]

\* An entry is written, whether or not it was there.
Entry(f, x, frame) == [y \in DOMAIN f \cup {x} |-> IF y = x THEN frame ELSE f[y]]

get_next_table(w, node) ==
    CASE w.starved \/ node \in DOMAIN w.tables -> w
      [] ~w.starved /\ node \notin DOMAIN w.tables /\ w.free = {} -> [w EXCEPT !.starved = TRUE]
      [] OTHER -> [w EXCEPT !.free = @ \ {Min(w.free)},
                            !.tables = Entry(@, node, Min(w.free))]

\* Nobody is told when a table is missing; the page is then not mapped.
vmm_map_page(w, page, frame) ==
    LET pdpt == get_next_table(w, Node(3, page))
        pd == get_next_table(pdpt, Node(2, page))
        pt == get_next_table(pd, Node(1, page))
    IN  IF pt.starved THEN pt ELSE [pt EXCEPT !.pte = Entry(@, page, frame)]

\* One turn of the loops that allocate a page and map it.
MapNext(w, page) ==
    CASE w.failed -> w
      [] ~w.failed /\ w.free = {} -> [w EXCEPT !.failed = TRUE]
      [] OTHER -> LET f == Min(w.free)
                  IN  [vmm_map_page([w EXCEPT !.free = @ \ {f}], page, f)
                         EXCEPT !.done = @ \cup {page}]

MapPages(f, as, first, pages) ==
    LET map[k \in 0 .. pages] ==
          IF k = 0 THEN Work(f, as) ELSE MapNext(map[k - 1], first + k - 1)
    IN  map[pages]

\* Mutant: the entries of the freed pages stay present.
RollbackMutant(w) ==
    [w EXCEPT !.free = @ \cup {w.pte[p] : p \in w.done \cap DOMAIN w.pte}]

\* The pages that were mapped before the failure are given back.
Rollback(w) ==
    LET back == w.done \cap DOMAIN w.pte
    IN  [w EXCEPT !.free = @ \cup {w.pte[p] : p \in back},
                  !.pte = Restrict(@, DOMAIN @ \ back)]

-----------------------------------------------------------------------------
(* Address spaces.  A call in progress is a record: its address space, the *)
(* free frames, the kmallocs that still succeed, and its outcome.          *)

Call(as, kmallocs) ==
    [mm |-> as, free |-> free, left |-> kmallocs, ok |-> TRUE,
     fault |-> FALSE, starved |-> starved, remapped |-> remapped]

KernelSlots == {n \in DOMAIN kernel.tables : n[1] = 3}

\* The upper half of the kernel's top table is copied, as it is now.
mm_alloc(c) ==
    IF c.left = 0 \/ c.free = {} THEN [c EXCEPT !.ok = FALSE]
    ELSE [c EXCEPT
            !.left = @ - 1, !.free = @ \ {Min(c.free)},
            !.mm = [pml4 |-> Min(c.free), tables |-> Empty, pte |-> Empty,
                    vmas |-> <<>>, heap |-> 0, slots |-> KernelSlots]]

\* Mutant: the pages of the program stay taken.
mm_free_mutant(f, as) ==
    IF as = NoMM THEN f ELSE f \cup {as.pml4} \cup Range(as.tables)

\* The frames free after mm_free.  Freeing a free frame is refused by
\* pmm_free_page, so a second mm_free changes nothing.
mm_free(f, as) ==
    IF as = NoMM THEN f ELSE f \cup {as.pml4} \cup Range(as.tables) \cup Range(as.pte)

\* Mutant: the last page, when it is not full, is left out of the vma.
VmaMutant(va, size) ==
    [start |-> FirstPage(va), end |-> (va + size) \div PAGE_SIZE, live |-> TRUE]

Vma(va, size) == [start |-> FirstPage(va), end |-> EndPage(va, size), live |-> TRUE]

\* The end of mm_map_range, after the work w on the page tables.  The vma is
\* linked before it; a failure frees the vma and leaves it in the list.
RangeMapped(c, w, vma) ==
    LET u == IF w.failed THEN Rollback(w) ELSE w
    IN  [c EXCEPT
           !.left = @ - 1,
           !.ok = ~w.failed,
           !.free = u.free,
           !.mm = [c.mm EXCEPT !.tables = u.tables, !.pte = u.pte,
                               !.vmas = Append(c.mm.vmas, [vma EXCEPT !.live = ~w.failed])],
           !.starved = @ \/ w.starved,
           !.remapped = @ \/ w.done \cap DOMAIN c.mm.pte # {}]

mm_map_range(c, va, size) ==
    IF size = 0 \/ c.left = 0 THEN [c EXCEPT !.ok = FALSE]
    ELSE LET pages == EndPage(va, size) - FirstPage(va)
         IN  RangeMapped(c, MapPages(c.free, c.mm, FirstPage(va), pages), Vma(va, size))

\* Copying page by page into the range just mapped in d.  A page whose table
\* is missing in the child is passed over; one whose entry is empty ends the
\* copy.
PagesCopied(d, src, vma) ==
    LET unset == {p \in vma.start .. vma.end - 1 :
                    /\ p \in DOMAIN src.pte
                    /\ Node(1, p) \in DOMAIN d.mm.tables
                    /\ p \notin DOMAIN d.mm.pte}
    IN  IF d.ok /\ unset = {} THEN d
        ELSE [d EXCEPT !.ok = FALSE, !.free = mm_free(@, d.mm)]

\* One vma of fork's parent: map the range, then copy.
CopyVma(c, src, vma) ==
    IF ~c.ok THEN c
    ELSE PagesCopied(mm_map_range(c, vma.start * PAGE_SIZE, (vma.end - vma.start) * PAGE_SIZE),
                     src, vma)

mm_copy(c, src) ==
    LET copy[k \in 0 .. Len(src.vmas)] ==
          IF k = 0 THEN c ELSE CopyVma(copy[k - 1], src, src.vmas[k])
    IN  copy[Len(src.vmas)]

\* The next kernel stack starts above a guard page and ends here.
StackTop == kstack_ptr + KSTACK_PAGES

kstack_init(f) == MapPages(f, kernel, kstack_ptr + 1, KSTACK_PAGES)

\* Effect of kstack_init on the kernel; what was mapped stays on failure.
StackMapped(w) ==
    /\ kernel' = [tables |-> w.tables, pte |-> w.pte]
    /\ kstack_ptr' = StackTop + 1
    /\ orphaned' = (orphaned \/ w.failed)

\* The first thing written to a new stack is at its top.
StackUsable(w) == ~w.failed /\ StackTop \in DOMAIN w.pte

-----------------------------------------------------------------------------
(* Boot.                                                                   *)

\* Mutant: the stack of kmain is not taken from the kernel stack area.
mm_init_mutant ==
    /\ pc = "mm_init"
    /\ pc' = "init"
    /\ UNCHANGED <<free, mm, alive, kernel, kstack_ptr, kstack_base, calls, ret,
                   starved, remapped, orphaned>>

\* The end of mm_init: a stack for kmain, before there is any process.
mm_init ==
    /\ pc = "mm_init"
    /\ \E w \in {kstack_init(free)} :
           /\ free' = w.free
           /\ StackMapped(w)
           /\ starved' = (starved \/ w.starved)
           /\ pc' = IF w.failed THEN "dead" ELSE "init"
    /\ UNCHANGED <<mm, alive, kstack_base, calls, ret, remapped>>

\* A segment is cleared once it is mapped, which faults when a page is not there.
Cleared(d, seg) ==
    [d EXCEPT !.fault = d.ok /\ ~(PageRange(seg.va, seg.size) \subseteq DOMAIN d.mm.pte)]

\* One turn of load_elf's loop; the first segment that fails ends it.
LoadSegment(c, seg) ==
    IF ~c.ok \/ c.fault THEN c ELSE Cleared(mm_map_range(c, seg.va, seg.size), seg)

LoadSegments(c, segs) ==
    LET load[k \in 0 .. Len(segs)] ==
          IF k = 0 THEN c ELSE LoadSegment(load[k - 1], segs[k])
    IN  load[Len(segs)]

\* The answer is the entry point, and 0 is taken for a failure; either way
\* what was mapped stays.
load_elf(c, prog) ==
    LET d == LoadSegments(c, prog.segs)
    IN  [d EXCEPT !.ok = d.ok /\ prog.entry # 0]

\* create_user_process up to the kernel stack.
InitLoaded(kmallocs) ==
    LET a == mm_alloc(Call(NoMM, kmallocs))
        b == IF a.ok THEN load_elf(a, InitProgram) ELSE a
    IN  LoadSegment(b, UserStack)

\* As in fork, memset writes to a PCB that is not there.
init_userproc_no_pcb ==
    /\ pc = "init"
    /\ pc' = "dead"
    /\ UNCHANGED <<free, mm, alive, kernel, kstack_ptr, kstack_base, calls, ret,
                   starved, remapped, orphaned>>

\* Without init the kernel stops, after giving back what it had taken, or in
\* the page fault while a segment is cleared.
init_userproc_fails(kmallocs) ==
    /\ pc = "init"
    /\ \E c \in {InitLoaded(kmallocs)} :
           /\ ~c.ok \/ c.fault
           /\ free' = IF c.fault THEN c.free ELSE mm_free(c.free, c.mm)
           /\ mm' = IF c.fault THEN [mm EXCEPT ![1] = c.mm] ELSE mm
           /\ starved' = c.starved
           /\ remapped' = c.remapped
    /\ pc' = "dead"
    /\ UNCHANGED <<alive, kernel, kstack_ptr, kstack_base, calls, ret, orphaned>>

init_userproc ==
    /\ pc = "init"
    /\ \E c \in {InitLoaded(Len(InitProgram.segs) + 2)} : \E w \in {kstack_init(c.free)} :
           /\ c.ok /\ ~c.fault
           /\ StackMapped(w)
           /\ starved' = (c.starved \/ w.starved)
           /\ remapped' = c.remapped
           /\ free' = IF w.failed THEN mm_free(w.free, c.mm) ELSE w.free
           /\ mm' = IF w.failed THEN mm ELSE [mm EXCEPT ![1] = c.mm]
           /\ kstack_base' = IF w.failed THEN kstack_base
                             ELSE [kstack_base EXCEPT ![1] = kstack_ptr + 1]
           /\ alive' = IF w.failed THEN {} ELSE {1}
           /\ pc' = IF StackUsable(w) THEN "run" ELSE "dead"
    /\ UNCHANGED <<calls, ret>>

-----------------------------------------------------------------------------
(* System calls of a live process.                                         *)

Dangling == \E p \in Procs : mm[p] # NoMM /\ \E i \in DOMAIN mm[p].vmas : ~mm[p].vmas[i].live

Calls(p) ==
    /\ pc = "run" /\ ~Dangling /\ p \in alive
    /\ calls < MaxCalls
    /\ calls' = calls + 1

NewProc == Min({p \in Procs : mm[p] = NoMM})

CanFork(p) == Calls(p) /\ \E c \in Procs : mm[c] = NoMM

\* The child after mm_alloc and mm_copy; the PCB took the first kmalloc.
Copied(p, kmallocs) ==
    LET a == mm_alloc(Call(NoMM, kmallocs))
    IN  IF a.ok THEN mm_copy(a, mm[p]) ELSE a

\* memset writes to the PCB that kmalloc did not return.
sys_fork_no_pcb(p) ==
    /\ CanFork(p)
    /\ pc' = "dead"
    /\ UNCHANGED <<free, mm, alive, kernel, kstack_ptr, kstack_base, ret,
                   starved, remapped, orphaned>>

\* mm_copy has freed the child's address space, and free_proc does it again.
sys_fork_no_mm(p, kmallocs) ==
    /\ CanFork(p)
    /\ \E c \in {Copied(p, kmallocs)} :
           /\ ~c.ok
           /\ free' = mm_free(c.free, c.mm)
           /\ starved' = c.starved
           /\ remapped' = c.remapped
    /\ ret' = Returned("fork", FALSE)
    /\ UNCHANGED <<pc, mm, alive, kernel, kstack_ptr, kstack_base, orphaned>>

sys_fork(p) ==
    /\ CanFork(p)
    /\ \E c \in {Copied(p, Len(mm[p].vmas) + 1)} : \E w \in {kstack_init(c.free)} :
           /\ c.ok
           /\ StackMapped(w)
           /\ starved' = (c.starved \/ w.starved)
           /\ remapped' = c.remapped
           /\ \/ /\ w.failed
                 /\ free' = mm_free(w.free, c.mm)
                 /\ ret' = Returned("fork", FALSE)
                 /\ UNCHANGED <<pc, mm, alive, kstack_base>>
              \/ /\ ~w.failed
                 /\ free' = w.free
                 /\ mm' = [mm EXCEPT ![NewProc] = c.mm]
                 /\ kstack_base' = [kstack_base EXCEPT ![NewProc] = kstack_ptr + 1]
                 /\ alive' = alive \cup {NewProc}
                 /\ ret' = Returned("fork", TRUE)
                 /\ pc' = IF StackUsable(w) THEN pc ELSE "dead"

\* SYS_BRK; an address that is not above the present one changes nothing.
sys_brk(p, addr, kmallocs) ==
    /\ Calls(p)
    /\ addr > mm[p].heap
    /\ \E c \in {mm_map_range(Call(mm[p], kmallocs), mm[p].heap, addr - mm[p].heap)} :
           /\ free' = c.free
           /\ mm' = [mm EXCEPT ![p] = [c.mm EXCEPT !.heap = IF c.ok THEN addr ELSE mm[p].heap]]
           /\ ret' = Returned("brk", c.ok)
           /\ starved' = c.starved
           /\ remapped' = c.remapped
    /\ UNCHANGED <<pc, alive, kernel, kstack_ptr, kstack_base, orphaned>>

\* do_execve loads a program over the one there is.  The buffer for the
\* file took the first kmalloc.  Before, ramfs_fstat wrote a whole struct stat
\* to a variable of 8 bytes: what lies behind it may be the way back.
do_execve(p, prog, kmallocs) ==
    /\ Calls(p)
    /\ \E c \in {load_elf(Call(mm[p], kmallocs), prog)} :
           /\ free' = c.free
           /\ mm' = [mm EXCEPT ![p] = c.mm]
           /\ ret' = Returned("execve", c.ok)
           /\ pc' \in IF c.fault THEN {"dead"} ELSE {pc, "dead"}
           /\ starved' = c.starved
           /\ remapped' = c.remapped
    /\ UNCHANGED <<alive, kernel, kstack_ptr, kstack_base, orphaned>>

\* exit gives nothing back.
sys_exit(p) ==
    /\ Calls(p)
    /\ alive' = alive \ {p}
    /\ UNCHANGED <<pc, free, mm, kernel, kstack_ptr, kstack_base, ret,
                   starved, remapped, orphaned>>

Halted ==
    /\ pc = "dead" \/ Dangling \/ (pc = "run" /\ (alive = {} \/ calls = MaxCalls))
    /\ UNCHANGED vars

Next ==
    \/ mm_init
    \/ init_userproc_no_pcb
    \/ \E k \in 0 .. Len(InitProgram.segs) + 2 : init_userproc_fails(k)
    \/ init_userproc
    \/ \E p \in alive :
         \/ sys_fork_no_pcb(p)
         \/ \E k \in 0 .. Len(mm[p].vmas) + 1 : sys_fork_no_mm(p, k)
         \/ sys_fork(p)
         \/ \E addr \in 1 .. MaxBrk, k \in 0 .. 1 : sys_brk(p, addr, k)
         \/ \E prog \in Programs : \E k \in 0 .. Len(prog.segs) : do_execve(p, prog, k)
         \/ sys_exit(p)
    \/ Halted

Spec == Init /\ [][Next]_vars

-----------------------------------------------------------------------------
(* Properties.                                                             *)

\* Every use of a frame: as a top table, a table, a page or a kernel stack.
Uses ==
    {<<0, n, kernel.tables[n]>> : n \in DOMAIN kernel.tables}
    \cup {<<0, <<0, q>>, kernel.pte[q]>> : q \in DOMAIN kernel.pte}
    \cup (UNION {IF mm[p] = NoMM THEN {}
                 ELSE {<<p, <<4, 0>>, mm[p].pml4>>}
                      \cup {<<p, n, mm[p].tables[n]>> : n \in DOMAIN mm[p].tables}
                      \cup {<<p, <<0, q>>, mm[p].pte[q]>> : q \in DOMAIN mm[p].pte} : p \in Procs})

InUse == {u[3] : u \in Uses}

\* No frame has two uses and none in use is free, across fork, its failures
\* with their double mm_free, rollbacks, remappings and execve: no process
\* can see a page of another one or of the kernel.
FramesDisjoint ==
    /\ InUse \cup free \subseteq Frames
    /\ Cardinality(InUse) = Cardinality(Uses)
    /\ InUse \cap free = {}

\* Frames get lost in three ways only: a page for which there was no table, a
\* present entry that is replaced, and a kernel stack that could not be
\* completed.  Every other failure gives back everything it took.
NoOtherLeak ==
    [][~starved' /\ ~remapped' /\ ~orphaned' => free' \cup InUse' = free \cup InUse]_vars

\* A brk or fork that fails leaves every page of every process as it was, at
\* whichever frame or kmalloc it failed.  A failing execve, of whatever file,
\* keeps every page the process had, but may leave pages of the new program
\* beside them.  Both hold unless a present page was mapped over.
FailureRestoresPages ==
    [][(calls' # calls /\ ret'.value = -1 /\ ~remapped') =>
         \A p \in Procs : mm[p] # NoMM =>
             IF ret'.call = "execve"
             THEN \A q \in DOMAIN mm[p].pte : q \in DOMAIN mm'[p].pte /\ mm'[p].pte[q] = mm[p].pte[q]
             ELSE mm'[p].pte = mm[p].pte]_vars

\* A mapped page lies in a vma of its address space: mm_copy copies vmas, so a
\* page outside of all of them would be missing after fork.
VmasCoverPages ==
    \A p \in Procs : mm[p] # NoMM =>
        \A q \in DOMAIN mm[p].pte :
            \E i \in DOMAIN mm[p].vmas : q \in mm[p].vmas[i].start .. mm[p].vmas[i].end - 1

\* Every address space sees every kernel stack, those made after it too:
\* mm_alloc copies the kernel's top entries once, so the entry must be older
\* than any process.
\* And the page below a stack is never mapped, although stacks that could not
\* be completed stay mapped in part.
KernelStacksSound ==
    \A p \in Procs :
        /\ mm[p] # NoMM => mm[p].slots = KernelSlots
        /\ kstack_base[p] # 0 => kstack_base[p] - 1 \notin DOMAIN kernel.pte

-----------------------------------------------------------------------------
(* What comments and headers say and the code does not do.                 *)

\* vmm.h:87: mm_map_range answers true when the range is mapped.  A page for
\* whose table there is no frame is left out and the answer is true.
MapTellsTruth ==
    [][\A p \in Procs :
         (mm[p] # NoMM /\ mm'[p] # NoMM /\ mm'[p].heap > mm[p].heap)
         => PageRange(mm[p].heap, mm'[p].heap - mm[p].heap) \subseteq DOMAIN mm'[p].pte]_vars

\* vmm.c:88: a mapping that fails is rolled back.  The rollback also unmaps
\* pages the process had before: the page brk starts in, or its own code.
RollbackKeepsPages ==
    [][\A p \in Procs :
         (mm[p] # NoMM /\ ret'.value = -1) => DOMAIN mm[p].pte \subseteq DOMAIN mm'[p].pte]_vars

\* interrupts.c:60: execve answers -1 when the program could not be loaded.
\* The segments before the one that failed, or all of them when the entry
\* point is 0, stay mapped in the process that goes on.
ExecveFailureRestores ==
    [][(calls' # calls /\ ret'.value = -1 /\ ~remapped') =>
         \A p \in Procs : mm[p] # NoMM => mm'[p].pte = mm[p].pte]_vars

\* vmm.h:30: vma_list links the vmas the process owns.  After a failed
\* mapping it links one that was freed.
NoDanglingVma == ~Dangling

\* interrupts.c:253: brk extends the heap.  When the present break is not at a
\* page boundary, its page is replaced by an empty one.
BrkKeepsHeap ==
    [][\A p \in Procs :
         (mm[p] # NoMM /\ mm'[p].heap > mm[p].heap)
         => \A q \in PageRange(0, mm[p].heap) \cap DOMAIN mm[p].pte : mm'[p].pte[q] = mm[p].pte[q]]_vars

\* vmm.h:92: mm_copy duplicates an address space.  The break is not copied, so
\* the child's heap starts again at 0, over what it inherited.
ForkKeepsBreak ==
    [][\A p \in Procs :
         (mm[p] = NoMM /\ mm'[p] # NoMM /\ p # 1) => \E q \in alive : mm'[p].heap = mm[q].heap]_vars
=============================================================================
