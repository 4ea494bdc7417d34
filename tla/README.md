# SudoOS in TLA+

A verification development for SudoOS, a small x86-64 kernel in C with a shell.
Each part of the system that keeps state is a TLA+ module translated from its
source; TLC checks the modules on small instances; TLAPS proves the most
important results for every value of the constants. `PROJECT.json` maps each
definition to the source lines it models and lists runs, mutants, findings,
hazards and theorems.

One fact about the kernel shapes all modules. There is one CPU, and every gate
`idt.c` installs is an interrupt gate, so a system call or an interrupt runs
with interrupts off until it returns or switches away: it is **one action**.
The exception is the boot. `idt_init` executes `sti` long before `kmain` is done,
and from then on the timer and the keyboard interrupt the boot code between any
two instructions. Where that matters (Scheduler, Keyboard, Console) boot code
is split into steps.

## 1. The system

| part | source | state | operations | hard about it |
|---|---|---|---|---|
| physical memory manager | `mm/pmm.c` | bitmap, `free_pages`, `last_free_index` | `pmm_init`, `pmm_alloc_page`, `pmm_free_page` | boot maps of any shape, a counter and a cursor that must agree with the bitmap, frames freed twice by error paths |
| kernel heap | `mm/pmm.c` | `kheap_list`, `kheap_top` | `kheap_init`, `kheap_expand`, `kmalloc`, `kfree` | splitting, merging, growth that fails half way |
| kernel stacks | `mm/pmm.c` | `kstack_ptr` | `kstack_init`, `kstack_free` | guard pages, failure half way |
| page tables, address spaces | `mm/paging.c`, `mm/vmm.c` | tables, `mm_struct` with vmas, break | `vmm_map_page`, `mm_alloc`, `mm_map_range`, `mm_copy`, `mm_free` | memory may run out at every frame, rollback, tables shared with the kernel |
| processes, scheduler | `proc/proc.c`, `proc/sche.c`, `arch/timer.c` | PCBs, `ready_queue`, `current_proc`, CR3, TSS | tick, `schedule`, yield, exit, fork, creation of init | order of interrupts and calls, starvation |
| system calls, interrupts | `arch/interrupts.c`, `arch/idt.c`, `arch/isr.S`, `arch/switch.S`, `proc/entry.S` | trap frames and contexts on the kernel stacks, handler table | trap entry, dispatch, return, `switch_to`, the frames a new process starts from | they call all of the above; registers cross from one stack to another |
| RAM file system | `fs/ramfs.c` | inodes, handles, descriptors, working directories | `open`, `read`, `write`, `close`, `getdents64`, `mkdir`, `chdir`, `getcwd`, `stat`, `fstat` | path resolution, tables that fill up, several handles on a file, signed counts |
| keyboard | `drivers/keyboard.c` | ring `kbuf`, `r_ptr`, `w_ptr`, `g_shift` | handler, `init_keyboard`, `keyboard_get_char` | interrupts during boot, the full ring |
| console | `drivers/console.c` | `history_buffer`, cursor, `g_view_offset`, screen | `kprint_char`, `console_refresh`, `console_scroll` | page keys during a print, a tick that switches to init inside one, a screen drawn in parts |
| boot | `main.c` | - | order of the initialisations | runs with interrupts on |
| lists | `lib/list.h` | `next`, `prev` | add, delete | pointers |
| user library | `usr/lib/` | `malloc` list, break | `malloc`, `free`, `sbrk` | the first block of the heap has the address 0, and a brk may replace a page that holds headers |
| shell | `usr/shell.c` | line buffer, `args`, `strtok_backup`; the line of the console with the prompt | `getline` with echo, parsing, commands, `run` | buffers that are never cleared, pointers into them, echo and line in step |

Interactions: fork, execve and brk enter the address spaces, which take frames
from the physical memory manager and records from the kernel heap; the heap
takes frames and page tables when it grows; exit only marks the process and
calls `schedule`, which changes CR3 and the TSS; the keyboard's handler fills the
ring that `SYS_READ` empties, and calls `console_scroll`; every part prints. Each
of these starts with a trap frame and ends with one; `schedule` leaves a context on
one kernel stack and goes on with the context it finds on another. The shell reads
keys, echoes them through the console, and calls the file system and the processes;
`malloc` rests on `SYS_BRK`.

What makes each part correct: no frame has two uses or none; heap blocks do not
overlap; a process runs in its own address space on its own kernel stack; every
ready process gets the CPU; a mapping reported as made is there, one reported as
failed took nothing away; a process finds its registers as it left them; the file system is a tree and each handle has one
owner; keys arrive once and in order; the console keeps and shows what was printed; the shell
runs the words of the line the user typed, and the console holds that line.

## 2. Modules

Names follow the source. A module's header says what it leaves out.

| module | models | remarks |
|---|---|---|
| `FrameAllocator` | what callers expect of the frame allocator | abstract specification |
| `PMM` | `pmm_init` in three steps (bitmap, one map entry at a time, reservations), `pmm_alloc_page`, `pmm_free_page` | the bitmap is the set of frames whose bit is 1; refusals at the edges and the hang without a place for the bitmap are kept; implements `FrameAllocator` |
| `MCPMM` | boot maps for TLC | |
| `PMMProofs` | proofs for PMM | |
| `Scheduler` | tick, `schedule`, yield, exit, fork with its failures, the end of `kmain` | PCBs are pids, `ready_queue` a sequence, `cr3` and `tss` the owner of what they point to |
| `Threads` | what a process expects of traps, switches and fork: registers of its own | abstract specification |
| `Context` | the stubs of `isr.S`, `switch_to`, the frames of fork and `create_user_process`, `user_entry`, `fork_ret_entry`, execve's change of the frame, exceptions | EXTENDS Scheduler and conjoins each of its actions with the effect on registers and stacks; `rip` stands for all registers but `rax` and the interrupt flag; implements `Threads` |
| `ContextProofs` | proofs for Scheduler, and for Context on top of them | |
| `KHeap` | `kheap_init`, `kheap_expand` page by page, first fit, split, merge, `kfree` | the list is a sequence of `[addr, size, is_free]`, in bytes |
| `KHeapProofs` | proofs for KHeap | |
| `KeyQueue` | what a reader expects of the keyboard | abstract bounded queue |
| `Keyboard` | controller, interrupt, handler, `init_keyboard` in steps, `keyboard_get_char` | scan codes are keys and classes of other codes; implements `KeyQueue` |
| `KeyboardProofs` | proofs for Keyboard | |
| `AddressSpace` | `mm_*`, `vmm_map_page` with its tables, `kstack_init`, creation of init, fork, execve, brk, exit | an address space is its tables, its pages and its vmas; every number of free frames is tried, and `kmalloc` may fail anywhere; execve is given any of `Programs`; addresses stay below 2^64, so the wrap of `vmm.c:65` does not occur |
| `MCAddressSpace` | a small memory layout | |
| `AddressSpaceProofs` | proofs for AddressSpace | |
| `RamFS` | all of `ramfs.c`, fork and exit as far as they touch it | a path is a sequence of components, each with its length; a path is cut where `resolve_path` cuts it, and the model ends where a last component overruns the caller's `name[32]`; contents are left out, sizes and offsets kept; counts are `int` converted to `uint64_t`; `listed` counts how often a listing returned each entry |
| `RamFSProofs` | proofs for RamFS | |
| `MCRamFS` | paths and counts | |
| `Console` | `kprint_char` and `console_refresh` in steps, `console_scroll`, kmain's phases up to and after its processes, the tick that leaves it inside a character | a pixel pattern is the character it shows; moving the lines up and drawing one row are single steps; the rest of a character that a switch interrupted is left out |
| `ConsoleProofs` | proofs for Console | |
| `UserHeap` | `malloc` in steps, `free`, `sbrk`, `brk`, `SYS_BRK` for one process | headers are at their byte addresses; a page that brk replaces holds zeros or junk afterwards; sizes wrap at `Word` |
| `UserHeapProofs` | proofs for UserHeap | |
| `Shell` | `getline`, the echo, `strtok`, parsing, the commands with the path they take, the lines `cmd_run` asks for, other processes that print | a command or name is one character, and one stands for all commands that take `args[1]` as a path; the echo goes to a line of `history_buffer`, which the page keys do not change; what a system call answers is chosen |
| `MCShell` | the keys a user types | |

`KHeap` and `AddressSpace` take their frames from a pool with the interface of
`FrameAllocator`, which `PMM` is shown to implement. Operators whose name ends in
`Mutant` are broken variants of the definition that follows them, used to see
that a property depends on that definition; no specification uses them.

## 3. Runs that pass

Type invariants are proved for PMM, Scheduler and Keyboard and are part of the proved
invariants of the other modules with proofs (section 6); in Console a part is also
checked with the first structural invariant (`HistoryIsSuffix`).

**`pmm`** (`MCPMM.cfg`). Every boot map of up to three entries in address order
within six pages, with usable and reserved entries, gaps, memory from page 0
or 1, and reserved entries that end inside a page. Six pages hold each case the
code tells apart: an area at the start, in the middle and at the end of memory,
the bitmap in the first or a later one, no place for it.
- `CountExact`: `free_pages`, which decides "out of memory", counts the clear bits.
- `ReservedStaysBusy`: frame 0, the bitmap and what is not RAM are never handed out.
- `NoClearBelowCursor`, `AllocLowest`: the cursor is a lower bound of the free
  frames, so allocation fails only when nothing is free and returns the lowest
  frame. The second scan of `pmm_alloc_page` is dead code.
- `ImplementsFrameAllocator`: refinement.

**`scheduler`** (`MCScheduler.cfg`). Idle and four processes, slice 2.
Four make queues in which a process can be first, in the middle, last or absent;
a slice of 2 tells "charged" from "expired".
- `QueueSound`: nobody is linked twice, idle, zombies and the current process never.
- `OwnContext`, `CR3Live`: page table and kernel stack of the current process,
  also when idle ran on a borrowed page table in between.
- `NoOvertaking`: the queue is first in, first out.
- `LostOnlyByYield`: the one way in which a process drops out of scheduling (section 4).
- `QueuedRuns` (liveness): who waits behind a process that is `RUNNING` gets the CPU.

**`kheap`** (`KHeap.cfg`). Requests of 13, 3960 and 4096 bytes (rounding; a rest
too small to split; more than a page with its header), up to four calls, ten
frames of which the caller may hold one, page tables that cover two pages.
- `Tiling`: the blocks cover the heap without gap or overlap.
- `LifoSafe`: callers that free in reverse order of addresses never share memory.
- `FailsOnlyBehindUse`: a `kmalloc` for which there were frames enough, those of its page
  tables included, fails only when the last block is in use, which is the case in which
  growing serves nobody (section 4).
- `CallsReturn` (liveness): `kmalloc` ends however often it expands.

**`keyboard`** (`Keyboard.cfg`). Two keys, one of them with two cases, five
presses, a ring of three slots: it becomes full, wraps and overflows.
- `NothingLost`: what was read, then what waits, is what was typed.
- `ImplementsKeyQueue`: refinement, overflow included.
- `KeysGetThrough` (liveness): no path through the handler leaves the port unread.

**`address_space`** (`MCAddressSpace.cfg`). Three processes, four calls, every number of
frames up to 42, which is more than three processes can use, so each allocation fails
in some behaviour; 312497 states. Tables have four entries, and the layout needs
separate tables at two levels. execve is given init's own file, one with other
addresses whose second segment needs a table of its own, so that it can fail after the
first segment is mapped, and one whose entry point is 0.
- `FramesDisjoint`: no frame has two uses, although failing forks free twice.
- `NoOtherLeak`: frames get lost in three known ways only.
- `FailureRestoresPages`: unless it mapped over a present page, a brk or fork that fails
  leaves all pages as they were, and a failing execve keeps those the process had (it may
  leave new ones, section 4).
- `VmasCoverPages`: what fork would have to copy lies in a vma.
- `KernelStacksSound`: each process sees all kernel stacks, later ones too, and below
  each of them is an unmapped page.

**`ramfs`** (`MCRamFS.cfg`). Two processes, two free inodes, three handles, two
descriptors each, five calls; 472587 states. Paths are absolute, relative, with `..`, through a
file, with trailing slashes; with 12 bytes for a path and 10 for a name, some are cut
and some end in a name that is too long. Counts are -1, 1 and the buffer size. All three tables
become full; five calls suffice for listing, creating and listing again.
- `TreeSound`: no cycle, no entry below a file, no name twice.
- `CwdRoundTrip`: an answer of `getcwd` leads to the working directory. `getcwd` answers
  NULL when its buffer is short; a buffer one byte longer than that of `resolve_path`,
  the largest for which this holds, is more than the shell's 128 bytes. A directory that
  was reached by relative steps and lies deeper has no answer in such a buffer.
- `HandlesOwned`: each handle has one owner, a descriptor of one process.
- `OffsetsInside`: also with negative counts, which the code turns into huge ones.
- `ListsEachOnce`: a directory listed in parts while entries are created.
- `FstatByName`: fstat is right exactly for files whose name, looked up in the
  working directory of the moment, leads to them.

**`console`** (`Console.cfg`). A buffer of four lines, a screen of 2 x 2, seven
characters; 5.1 million states. The buffer fills and moves, lines wrap, and page keys come
at every step of what kmain prints. kmain queues init (`proc.c:309`) before it has
printed its last message (`proc.c:311`): from there a tick may switch to init between two
characters or inside one, and init prints on. `mixed` remembers a switch inside a
character, `torn` a switch or page key inside one until a `console_refresh` starts.
- `HistoryIsSuffix`: unless a switch came inside a character, the buffer holds the last
  lines printed.
- `FullScreenShowsView`: a full screen shows the lines its view is at, although
  characters are drawn one by one or not at all. A page key or switch inside a character
  may spoil it; the next `console_refresh` makes it good.

**`context`** (`Context.cfg`). Idle and three pids, slice 1, two places in a user
program; 154340 states. Three pids are enough for a parent and a child that switch
in every way, and for a third process that runs between the two.
- `StackDiscipline`: a kernel stack is empty while its process is in ring 3 (idle: in
  `kmain`) and otherwise ends with the context the PCB points to; no trap overwrites
  a frame that is still needed.
- `TicksInvisible`: a tick changes no register of any thread.
- `ImplementsThreads`: refinement. Each process goes on with the registers it left
  off with, a fork's child with its parent's, and interrupts are on again.

**`shell`** (`MCShell.cfg`). A line of ten bytes, four words, a row of eight cells, twelve
key positions with what makes a difference at each, and one character of another process
(the child `usrmain` forks and does not wait for) at any time; 1227241 states. Lines are
followed by shorter and longer ones, every kind of command is run with and without an
argument, the buffers become full and rows wrap.
- `ArgsAreWords`: after every call of `strtok` and when the command runs, `args` holds the
  words of the line in order, in the end as many as there is room for, and what `strtok`
  has still to read ends inside `input`.
- `EchoKeepsLine`: the line of `history_buffer` after the prompt is what `getline` has, as
  long as both fit in a row, every key has a glyph and no other process prints. Page keys
  change what is drawn of it and nothing else.

**`user_heap`** (`UserHeap.cfg`). Pages of 64 bytes, requests of 0, 8, 40 and 100
bytes, five calls; 81128 states. The heap starts at address 0; requests fit in a page,
straddle two, and reuse blocks; brk may fail at each growth.
- `HeapSound`: no two blocks share a byte, and the list is in the order of addresses
  except behind headers that brk replaced.
- `GrowsOnlyWhenNeeded`: the heap grows only when no freed block in reach fits.
- `MallocReturns` (liveness): the walk ends or stops at a fault, whatever became of the list.

## 4. What the documents say and the code does not do

Two runs each check one statement of a document or comment and show that the
code breaks it; `findings` quotes the statement.

| run | property | what happens |
|---|---|---|
| `scheduler_starve` | `NoStarvation` | a process that expires alone stays `READY`; it is then no longer charged for ticks and others wait for ever |
| `kheap_live` | `LiveDisjoint` | `kfree` merges with a block in use, which is then given out again |

The modules state further ones in their last section, each with the line it
quotes. TLC finds each violated when it replaces the properties in the
configuration of the module's passing run. `ExpansionServes` is checked in
`KHeap_live.cfg`; `EveryKeyIsRead` under `FairSpec`; `LiveView` with
`ROWS = 3`; `BrkKeepsHeap` with `Procs = {1, 2}` and `MaxFrames = 36`.

| property | what happens | at |
|---|---|---|
| `EveryFreeAreaManaged` | a usable area that ends at the last frame is refused as a whole | `mm/pmm.c:53` |
| `ReadyMeansQueued` | the `READY` process that ran alone and then yields is in no queue | `proc/sche.c:48` |
| `RunningMeansCurrent` | idle keeps the state `RUNNING` | `proc/sche.c:21` |
| `ZombiesReaped` | zombies are never freed | `arch/interrupts.c:305` |
| `ForkSurvivesNoPcb` | without memory for a PCB, fork faults instead of returning -1 | `proc/proc.c:23` |
| `ExpansionServes` | new pages become part of a last block that is in use; the request fails | `mm/pmm.c:249` |
| `EveryKeyIsRead` | a key between `sti` and the registration of the handler silences the keyboard | `arch/idt.c:107` |
| `BrkKeepsHeap` | a break inside a page: the next brk replaces that page | `arch/interrupts.c:256` |
| `MapTellsTruth` | brk succeeds although a page could not be mapped | `mm/vmm.c:101` |
| `RollbackKeepsPages` | a failed call unmaps pages that were there before | `mm/vmm.c:89` |
| `NoDanglingVma` | a failed mapping leaves a freed vma in the list | `mm/vmm.c:98` |
| `ForkKeepsBreak` | a child starts with the break 0 | `mm/vmm.c:107` |
| `ExecveFailureRestores` | an execve that fails at a later segment, or for an entry point of 0, returns -1 with the first segments of the new file mapped | `proc/proc.c:218` |
| `PathsWhole` | a path is cut at 127 bytes and resolved as another one; a last component of 32 bytes and more overruns the caller's `name` | `fs/ramfs.c:82` |
| `FstatOfOpenFile` | fstat looks the name up in the working directory and misses the file | `fs/ramfs.c:393` |
| `WriteAdvances` | writes are cut at 4096 bytes; writes to `/init` go nowhere | `fs/ramfs.c:257` |
| `HandlesForTheLiving` | exit keeps its handles until nobody can open a file | `arch/interrupts.c:293` |
| `HistoryKeepsOutput` | a tick between `proc.c:309` and the end of `proc.c:311` switches to init inside a `kprint_char`, and init's output goes on from half a character | `drivers/console.c:14` |
| `LiveView` | PageUp on a screen that is not full loses characters | `drivers/console.c:257` |
| `PrintingReturnsView` | only a newline returns the view to the end | `drivers/console.c:295` |
| `PageKeysShowHistory` | a page key during a boot message mixes two views | `drivers/console.c:301` |
| `LsDefaultsToCwd` | `ls` without an argument lists what an earlier line left in `args[1]` | `usr/shell.c:262` |
| `OldArgsTerminated` | the text that `args[1]` of an earlier line leads to may have lost its end: a longer line, taken back with backspaces, has written over it | `usr/shell.c:271` |
| `EchoAlwaysKeepsLine` | Tab and Esc have no glyph but erase one; a backspace at the start of a continued row erases nothing; another process prints into the line | `usr/shell.c:39` |
| `NeverFaults`, `NeverCorrupt` | a brk that replaced a page of headers leaves `malloc` with zeros or junk to follow | `usr/lib/stdlib.c:32` |

With `Sizes = {8, Word - 29, Word - 1}` TLC also finds `HeapSound` and `MallocReturns`
violated: `size + sizeof(header_t)` wraps. `cmd_run` asks for a length and passes
`len + 1` on, so such a size can be typed. This is why the theorems of UserHeap have the
hypothesis `NoWrap`.

The repository's README.md also says 100 lines of history (the code has
1000), 100 Hz (`init_timer(20)`) and a file `/usr/bin/user.elf` that `ramfs_init`
does not create. It says (README.md:1127) that all 256 gates are set; `idt_init` sets
five, so any other exception resets the machine. `usrmain` prints that the parent
received its child's exit, but wait4 answers -1 at once.

## 5. Fairness

- Scheduler: weak fairness of the tick. The timer is periodic and user code
  cannot mask it. No process has to call anything.
- Keyboard: of controller, interrupt and boot code; not of the reader.
- KHeap: of the steps of a `kmalloc` that has begun. No caller has to call.
- UserHeap: of the steps of a `malloc` that has begun.
- PMM, AddressSpace, RamFS, Console, Context, Shell: none; only safety is claimed.

Nothing assumes that a lock is granted or a message arrives: the kernel has neither.

## 6. Proofs

All proofs are for every value of the constants under the `ASSUME`s of the
modules.

**PMM** (`PMMProofs`, from `MemMapsAssumption`: a map has an entry, usable
entries are page aligned, not empty and do not overlap one another, as the boot
protocol promises; nothing is assumed of the other entries). `PMMInvariant`
proves the inductive invariant `IInv`, from which follow `PMMTypeCorrect`,
`PMMCountExact`, `PMMConservation`, `PMMReservedStaysBusy`, `PMMNoClearBelowCursor`,
`PMMAllocLowest` and `PMMImplementsFrameAllocator`. The properties alone are
not inductive. They speak of the state after boot, and the refusals of
`pmm_set_free` and `pmm_set_busy` could undo each other: that the bitmap's frames
really become busy depends on their lying in an area `pmm_set_free` accepted or
being busy already. `BootState`, `BitmapPlaced` and `ClearAccepted` say what each
phase of `pmm_init` has established. Counting steps use the cardinality theorems
of the library, and the scan needs that a non-empty set of naturals has a least element
(`LeastNatural`). That lemma stands in four of the modules: the least
counterexample is how they reason by induction.

**Scheduler** (first part of `ContextProofs`, any number of pids, any slice).
`SchedulerInvariant`, then `SchedulerTypeCorrect`, `SchedulerQueueSound`,
`SchedulerOwnContext`, `SchedulerCR3Live` and the action properties
`SchedulerNoOvertaking` and `SchedulerLostOnlyByYield`. The strengthening: every process
has a pid below `next_pid`, so a pid is given out once (`PidsFresh`); idle exists
and is always `RUNNING`, and what is on the CPU is no zombie and has a tick left
(`OnCPU`); only idle exists before init is created (`BeforeInit`).
`ScheduleSound` is proved once for `schedule()` and used by every action that calls it.

**Keyboard** (`KeyboardProofs`, a ring of any size from two). `KeyboardInvariant`,
`KeyboardTypeCorrect`, `KeyboardNothingLost`, `KeyboardImplementsKeyQueue`. The
ring's lemmas (`RingPut`, `RingGet`, `RingFull`) first replace the remainders by
case distinctions, then say what one store and one read do to the sequence
between the pointers. The invariant adds that the ring is empty until
`init_keyboard` is done, which makes its reset harmless, and that slots between
the pointers hold characters.

**Context** (second part of `ContextProofs`, any number of pids and places in a program, any slice).
`ContextInvariant` proves `CInv` on top of `SchedulerInvariant`: Context conjoins each
action of Scheduler with its effect on registers and stacks, so its behaviours are
behaviours of Scheduler and that invariant comes for free. `CInv` adds that between two
actions the stack of the current process is empty, and that the stack of every other one
holds one of the few sequences of frames that a trap followed by `switch_to`, a fork or
`create_user_process` leaves, with the PCB pointing to the last of them. From it follow
`ContextStackDiscipline`, `ContextTicksInvisible` (a tick may go on in any
process, so the proof needs the frames of all of them) and `ContextImplementsThreads`,
one lemma per action.

**KHeap** (`KHeapProofs`, requests and page tables of any size, any number of frames).
`KHeapTiling` from `HInv`: the list starts at the base of the heap and ends at its top,
each block ends where the next begins, and all addresses and sizes are multiples of 8,
for which the request a `kmalloc` is working on must be one too. Lemmas say what
splitting, merging, appending and patching one block do to such a list.
`KHeapLifoSafe` adds `LInv`, needed because `kfree` merges with a block in use:
while frees come in reverse order of addresses, each live block is covered by a block
in use at its address, and what was merged wrongly lies above all live ones.
`KHeapFailsOnlyBehindUse` needs an account of the frames a call has spent, `GInv`. As long
as the last block is free, the first expansion adds every page to it, and the frames gone
are exactly these pages and the page tables of the part of the heap they fill
(`FirstRound`); when the expansion is complete the last block fits, so `kmalloc` does not
expand again. A second expansion therefore happens only behind a block in use, and stays
there. `TablesMappingAdds` bounds the page tables by those of an empty heap: three, and one
more for every further `TableSpan` pages of the request.

**RamFS** (`RamFSProofs`, tables of any size, any paths, counts, processes and number of
calls; from `RamFSAssumption`, by which an offset plus a count stays below 2^64,
`PathsAssumption`, by which components and what is left of a cut one are not empty, and
`NamesAssumption`, by which the kernel's own names fit). `RamFSInvariant` proves `RInv`.
Its parts: inodes are taken in order and an entry is younger than its directory
(`TreePacked`, `TreeUp`, so there is no cycle), names are distinct within a directory and
never `.`, `..` or a slash; working directories are directories; descriptors and
handles in use correspond one to one, which is symmetric where `HandlesOwned` only counts;
what a listing returned and what it still owes are separated by its offset (`Listing`).
`RamFSTreeSound`, `RamFSHandlesOwned`, `RamFSOffsetsInside` and `RamFSListsEachOnce` follow.
The walk of `resolve_path`, the names of `getcwd` and the length of a path are recursive
functions: `WalkExists` and `NamesExist` show that the first two are well
defined, by taking the least length or inode for which they are not. The same argument
shows that every walk ends in a used inode or a directory in which the name is free
(`WalkSound`) and that the names collected by `getcwd` lead back (`WalkDown`,
`RoundTrip`). `Cut` leaves a path alone that fits into `temp_path` (`Uncut`), and what `getcwd`
answers into a buffer of at most `PATH_SIZE + 1` bytes does: this gives `RamFSCwdRoundTrip`.
Names in use fit into `NAME_SIZE`, which is not more than `PATH_SIZE`, so the name that
fstat looks up is not cut either (`RamFSFstatByName`).

**AddressSpace** (`AddressSpaceProofs`, any program for init, any files for execve, any page and table sizes, number of frames,
processes and calls). One assumption is about the layout, `KernelStackArea`: the stacks
that can be made, guard pages included, fit under one entry of the top table. The area
starts at such an entry (`KERNEL_STACK_BASE`, 0xFFFFB00000000000), which covers 2^27 pages
or more than 26 million stacks; the code has no test of its own, and the stack after these
would be missing in the address spaces there are. `AddressSpaceInvariant` proves `ASInv`:
- `Apart`: frames that are free, in the kernel stack area or in any two address spaces are
  distinct, within each of them a frame has one use, and vmas cover pages.
- `StackArea`: kernel stack pages and guard pages lie below `kstack_ptr`, which itself is
  bounded by the number of calls so far. A stack given to a process stays above its
  guard page because every later one is higher up.
- `Slots`: the top entry of the stacks is there before the first `mm_alloc` copies it. It
  holds because a process needs a frame and the stack of kmain took what it needed first:
  with frames left, its tables cannot have been refused.

From it follow `AddressSpaceFramesDisjoint` (by an injection from uses to frames),
`AddressSpaceVmasCoverPages`, `AddressSpaceKernelStacksSound`, and with one lemma per
action `AddressSpaceNoOtherLeak` and `AddressSpaceFailureRestoresPages`.
The loops (`MapPages`, `mm_copy`, `load_elf`) are recursive functions. `MappingExists`,
`CopyingExists` and `LoadingExists` show that they are well defined, and `Mapped`, `Copying`
and `Loading` are the loop invariants: what the call holds is what it found, frames are lost
with `starved` or `remapped` set, and as long as a frame is left no table was refused. For
a failing execve `Loading` also says that loading adds pages and changes a page there is
only with `remapped` set: the rollback of the segment that failed removes exactly what that
segment added.

**Console** (`ConsoleProofs`, from `ConsoleAssumption`: a buffer with more lines than the
screen has rows, as in the code; any size otherwise, any number of characters).
`ConsoleInvariant` proves `CInv`. The two properties speak of the moments at which nothing
is being printed; printing is a sequence of steps, and a page key or a switch to init may
come between any two of kmain's. So the invariant says at each step what is still missing.
`Cursor`: where the cursor is at each step. A switch inside a character may leave it
behind the end of its line or of the buffer, until the path to the next `console_refresh`
has brought it back. `History`, without a switch inside a
character: the buffer holds the text (`Keeps`), or all but its last, empty line
(`Behind`), or will hold it once the character at hand is written (`Written`). `View`:
unless something came inside a character and no refresh started since, a full screen
shows its view, or will once the character is painted, or once the rows from `i` on are
drawn; a page key redraws the view it moved to. `HistoryPrint` relates one character of
the text to the buffer, `ShiftCatchesUp` is the shift of a full buffer, `CursorStep` takes
the cursor through each step, and `ViewAfterWrite` says which row a write changes in which
view. `ConsoleHistoryIsSuffix` and `ConsoleFullScreenShowsView` follow.

**UserHeap** (`UserHeapProofs`, pages, requests and number of calls of any size).
`UserHeapInvariant` proves `UInv` under the hypothesis `NoWrap`: the break that `sbrk`
computes is below 2^64. The code does not test this, and without it the results are false
(section 4). `Layout` says that what any header claims, also one that brk replaced by
zeros or junk, ends below the next header and the break; this is stronger than that live
blocks do not overlap and is what makes reusing a block safe. `Owned` gives each live block
a header of its own that is not free. `Chain` is the list: each `next` leads to the next
listed header, or the header was replaced. `Walked` says that a `malloc` under way has
passed only blocks that do not serve, which gives `UserHeapGrowsOnlyWhenNeeded`;
`UserHeapSound` follows from the others. `UserHeapNoWrap` discharges the hypothesis for
requests that together, headers included, stay below 2^64, and `UserHeapSmallRequests`
states both results without it.

Only model-checked: all liveness properties (`QueuedRuns`, `CallsReturn`,
`KeysGetThrough`, `MallocReturns`), which need fairness, and the two invariants of
Shell, which is built on folds over sequences: what they compute for a line of any length
would have to be proved by induction over operators, which the provers do not do.

## 7. Not modelled

`paging_init` (one pass before anything else runs), GDT and TSS setup except the
stack pointer that changes, bytes of ELF headers, string functions, port access,
number formatting, `debug_mm.c`, `limine.h`: they run once, or have no state that
outlives a call. `kthread_create` and `kthread_exit` exist and are never called.
`kstack_free` is reached only through `free_proc` of a process that has a stack,
which no path does. `list.h` is a sequence in the modules that use it.

`do_execve` has `ramfs_fstat` write a whole `struct stat` over a variable of eight bytes and
then reads that variable as the size of the program. In AddressSpace execve may
load the file as it is or stop the machine; in Context execve
answers, fails or faults.

## 8. Plan

Done: all modules are checked, and all safety properties of the passing runs proved except
those of Shell.

Modules that could still be added: `ListNodes`, `list.h` on pointers, shown to
implement the sequences the other modules use (`free_proc` tests pointers for NULL
before `list_del`, which its callers rely on); `Boot`, the order of `kernel_init`
with its early stops; `Lifecycle`, Scheduler and AddressSpace together.
