----------------------------- MODULE Scheduler -----------------------------
(***************************************************************************)
(* Processes and the round-robin scheduler: kernel/src/proc/sche.c,        *)
(* kernel/src/proc/proc.c, the timer interrupt of kernel/src/arch/timer.c, *)
(* the process system calls of kernel/src/arch/interrupts.c and the end of *)
(* kmain, which runs as the idle process.                                  *)
(*                                                                         *)
(* One CPU.  Every IDT gate is an interrupt gate, so a system call or an   *)
(* interrupt runs with interrupts off until it returns or switches away:   *)
(* each is one action.  What interleaves is the order of the interrupts,   *)
(* the system calls of whichever process is current, and kmain's own steps *)
(* before it becomes the idle loop, during which interrupts are on.        *)
(*                                                                         *)
(* A PCB is named by its pid, an address space by the pid that owns it.    *)
(***************************************************************************)
EXTENDS Integers, Sequences, FiniteSets

CONSTANTS
    MaxPid,                 \* bound: alloc_new_pcb stops handing out pids
    TIME_SLICE_DEFAULT      \* ticks a process may run, 10 in sche.h

ASSUME MaxPidAssumption == MaxPid \in Nat \ {0}
ASSUME TimeSliceAssumption == TIME_SLICE_DEFAULT \in Nat \ {0}

Pids == 0 .. MaxPid

idle_proc == 0

KernelMM == -1      \* the page table paging_init built; also idle's (mm = NULL)
BootStack == -1     \* the stack set_tss_stack got from mm_init

VARIABLES
    procs,          \* PCBs linked in proc_list
    proc_state,     \* "RUNNING", "READY" or "ZOMBIE" of each PCB in procs
    time_slice,     \* ticks left to each PCB
    ready_queue,    \* pids in the order of the sched_node list
    current_proc,
    next_pid,
    cr3,            \* owner of the page table the CPU uses
    tss,            \* owner of the kernel stack an interrupt from ring 3 uses
    kmain,          \* "init", "schedule", "loop" or "failed": kmain's next step
    dead            \* the kernel took an exception and executes hlt for ever

vars == <<procs, proc_state, time_slice, ready_queue, current_proc, next_pid,
          cr3, tss, kmain, dead>>

cpu == <<current_proc, cr3, tss>>

HasMM(p) == p # idle_proc

\* After proc_init: the boot thread is the idle process, PID 0.
Init ==
    /\ procs = {idle_proc}
    /\ proc_state = [p \in Pids |-> IF p = idle_proc THEN "RUNNING" ELSE "READY"]
    /\ time_slice = [p \in Pids |-> TIME_SLICE_DEFAULT]
    /\ ready_queue = <<>>
    /\ current_proc = idle_proc
    /\ next_pid = 1
    /\ cr3 = KernelMM
    /\ tss = BootStack
    /\ kmain = "init"
    /\ dead = FALSE

-----------------------------------------------------------------------------
(* schedule().  Its caller may have changed states and slices first (the   *)
(* tick, the exit), so it takes them as st and sl and gives every process  *)
(* variable its final value.                                               *)

\* A running process other than idle, with ticks left, keeps the CPU.
KeepsCPU(st, sl) ==
    /\ st[current_proc] = "RUNNING"
    /\ current_proc # idle_proc
    /\ sl[current_proc] > 0

\* Mutant: an expired process goes to the head of the queue.
EnqueueMutant(p) == <<p>> \o ready_queue

\* Mutant: the process is not linked at all.
EnqueueNoneMutant(p) == ready_queue

Enqueue(p) == Append(ready_queue, p)

\* Mutant: idle is queued like any other process.
ExpiredMutant(st, sl) ==
    /\ st[current_proc] = "RUNNING"
    /\ sl[current_proc] <= 0

\* One that has none left goes to the tail of the ready queue.
Expired(st, sl) ==
    /\ st[current_proc] = "RUNNING"
    /\ current_proc # idle_proc
    /\ sl[current_proc] <= 0

\* Mutant: the page table is only loaded when both processes have one.
LoadsCR3Mutant(prev, next) == HasMM(next) /\ HasMM(prev) /\ prev # next

\* next->mm != NULL && (prev->mm == NULL || prev->mm != next->mm)
LoadsCR3(prev, next) == HasMM(next) /\ (~HasMM(prev) \/ prev # next)

\* The switch proper; nothing is switched when next is prev.
Switch(prev, next) ==
    /\ current_proc' = next
    /\ tss' = IF prev # next THEN next ELSE tss
    /\ cr3' = IF prev # next /\ LoadsCR3(prev, next) THEN next ELSE cr3

\* The process that is not kept is requeued if it is only out of ticks; then
\* the head of the queue runs, or idle.  A process that is chosen again right
\* away keeps the state "READY" it was requeued with.
Reschedule(st, sl) ==
    LET prev  == current_proc
        queue == IF Expired(st, sl) THEN Enqueue(prev) ELSE ready_queue
        st1   == IF Expired(st, sl) THEN [st EXCEPT ![prev] = "READY"] ELSE st
        sl1   == IF Expired(st, sl) THEN [sl EXCEPT ![prev] = TIME_SLICE_DEFAULT] ELSE sl
        next  == IF queue = <<>> THEN idle_proc ELSE Head(queue)
    IN  /\ ready_queue' = IF queue = <<>> THEN queue ELSE Tail(queue)
        /\ proc_state' = IF prev # next \/ queue = <<>>
                         THEN [st1 EXCEPT ![next] = "RUNNING"] ELSE st1
        /\ time_slice' = IF prev # next \/ queue = <<>>
                         THEN [sl1 EXCEPT ![next] = TIME_SLICE_DEFAULT] ELSE sl1
        /\ Switch(prev, next)

schedule(st, sl) ==
    \/ /\ KeepsCPU(st, sl)
       /\ proc_state' = st
       /\ time_slice' = sl
       /\ UNCHANGED <<ready_queue, cpu>>
    \/ /\ ~KeepsCPU(st, sl)
       /\ Reschedule(st, sl)

-----------------------------------------------------------------------------
(* The timer interrupt: only a current process whose state is "RUNNING" is *)
(* charged, and only a charge can preempt.                                 *)

TimesOut(sl) == sl[current_proc] <= 0

timer_callback ==
    /\ ~dead
    /\ LET sl == [time_slice EXCEPT ![current_proc] = @ - 1]
       IN  \/ /\ proc_state[current_proc] # "RUNNING"
              /\ UNCHANGED <<proc_state, time_slice, ready_queue, cpu>>
           \/ /\ proc_state[current_proc] = "RUNNING"
              /\ ~TimesOut(sl)
              /\ time_slice' = sl
              /\ UNCHANGED <<proc_state, ready_queue, cpu>>
           \/ /\ proc_state[current_proc] = "RUNNING"
              /\ TimesOut(sl)
              /\ schedule(proc_state, sl)
    /\ UNCHANGED <<procs, next_pid, kmain, dead>>

-----------------------------------------------------------------------------
(* System calls of the current user process.                               *)

InUserMode == ~dead /\ current_proc # idle_proc

sys_yield ==
    /\ InUserMode
    /\ schedule(proc_state, time_slice)
    /\ UNCHANGED <<procs, next_pid, kmain, dead>>

\* Mutant: exit also releases the PCB and the address space it runs on.
sys_exit_mutant ==
    /\ InUserMode
    /\ procs' = procs \ {current_proc}
    /\ schedule([proc_state EXCEPT ![current_proc] = "ZOMBIE"], time_slice)
    /\ UNCHANGED <<next_pid, kmain, dead>>

\* The PCB, its stack and its address space stay; nothing is freed.
sys_exit ==
    /\ InUserMode
    /\ schedule([proc_state EXCEPT ![current_proc] = "ZOMBIE"], time_slice)
    /\ UNCHANGED <<procs, next_pid, kmain, dead>>

\* A new process is linked in proc_list and at the tail of the ready queue.
NewProcess(p) ==
    /\ procs' = procs \cup {p}
    /\ proc_state' = [proc_state EXCEPT ![p] = "READY"]
    /\ time_slice' = [time_slice EXCEPT ![p] = TIME_SLICE_DEFAULT]
    /\ ready_queue' = Enqueue(p)

\* alloc_new_pcb writes through kmalloc's NULL: a page fault, from which
\* isr_handler never returns.
PcbFault ==
    /\ dead' = TRUE
    /\ UNCHANGED <<procs, proc_state, time_slice, ready_queue, cpu, next_pid, kmain>>

\* fork with a copied address space and a kernel stack.
sys_fork ==
    /\ InUserMode
    /\ next_pid <= MaxPid
    /\ NewProcess(next_pid)
    /\ next_pid' = next_pid + 1
    /\ UNCHANGED <<cpu, kmain, dead>>

\* mm_copy or kstack_init fails: free_proc undoes everything but the pid.
\* The same happens when kmalloc returns NULL and the process has mapped page
\* 0 (its heap starts there): the writes succeed and the NULL check answers.
sys_fork_fails ==
    /\ InUserMode
    /\ next_pid <= MaxPid
    /\ next_pid' = next_pid + 1
    /\ UNCHANGED <<procs, proc_state, time_slice, ready_queue, cpu, kmain, dead>>

sys_fork_no_pcb ==
    /\ InUserMode
    /\ PcbFault

-----------------------------------------------------------------------------
(* kmain, on the idle process.                                             *)

IdleRuns == ~dead /\ current_proc = idle_proc

\* init_userproc creates PID 1; load_elf's detour through the new page table
\* is undone before it returns.
init_userproc ==
    /\ IdleRuns
    /\ kmain = "init"
    /\ NewProcess(next_pid)
    /\ next_pid' = next_pid + 1
    /\ kmain' = "schedule"
    /\ UNCHANGED <<cpu, dead>>

\* No memory or no valid ELF: kmain halts with interrupts on.
init_userproc_fails ==
    /\ IdleRuns
    /\ kmain = "init"
    /\ next_pid' = next_pid + 1
    /\ kmain' = "failed"
    /\ UNCHANGED <<procs, proc_state, time_slice, ready_queue, cpu, dead>>

init_userproc_no_pcb ==
    /\ IdleRuns
    /\ kmain = "init"
    /\ PcbFault

\* The timer may have run init, and even ended it, before kmain gets here.
kmain_schedule ==
    /\ IdleRuns
    /\ kmain = "schedule"
    /\ kmain' = "loop"
    /\ schedule(proc_state, time_slice)
    /\ UNCHANGED <<procs, next_pid, dead>>

Halted == dead /\ UNCHANGED vars

Next ==
    \/ timer_callback
    \/ sys_yield \/ sys_exit
    \/ sys_fork \/ sys_fork_fails \/ sys_fork_no_pcb
    \/ init_userproc \/ init_userproc_fails \/ init_userproc_no_pcb
    \/ kmain_schedule
    \/ Halted

Spec == Init /\ [][Next]_vars

\* The PIT interrupts periodically and user code runs with IF = 1, so the
\* tick always comes.
FairSpec == Spec /\ WF_vars(timer_callback)

-----------------------------------------------------------------------------
(* Properties.                                                             *)

InLine(q) == {q[i] : i \in DOMAIN q}

Queued == InLine(ready_queue)

\* Types of the PCB fields and of the scheduler's globals; time_slice, a
\* signed int, never goes below zero.
TypeOK ==
    /\ procs \subseteq Pids
    /\ proc_state \in [Pids -> {"RUNNING", "READY", "ZOMBIE"}]
    /\ time_slice \in [Pids -> 0 .. TIME_SLICE_DEFAULT]
    /\ ready_queue \in Seq(procs)
    /\ current_proc \in procs
    /\ next_pid \in 1 .. MaxPid + 1
    /\ cr3 \in Pids \cup {KernelMM}
    /\ tss \in Pids \cup {BootStack}
    /\ kmain \in {"init", "schedule", "loop", "failed"}
    /\ dead \in BOOLEAN

\* The ready queue holds each process at most once, only processes that are
\* ready, never idle and never the one on the CPU: no sched_node is linked
\* twice, whatever the order of ticks, forks, yields and exits.
QueueSound ==
    /\ \A i, j \in DOMAIN ready_queue : ready_queue[i] = ready_queue[j] => i = j
    /\ \A p \in Queued : proc_state[p] = "READY"
    /\ idle_proc \notin Queued
    /\ current_proc \notin Queued

\* A user process runs on its own page table and interrupts land on its own
\* kernel stack, however the CPU came to it.
OwnContext ==
    current_proc # idle_proc => cr3 = current_proc /\ tss = current_proc

\* The page table the CPU uses belongs to a PCB that still exists, also while
\* idle runs on the one a process that exited left behind.
CR3Live == cr3 \in procs \cup {KernelMM}

\* No overtaking: a process that waits never moves back in the queue, and
\* whoever gets the CPU from another process was first in line.
Position(q, p) == CHOOSE i \in DOMAIN q : q[i] = p

NoOvertaking ==
    [][/\ \A p \in InLine(ready_queue) \cap InLine(ready_queue') :
            Position(ready_queue', p) <= Position(ready_queue, p)
       /\ (current_proc' # current_proc /\ ready_queue # <<>>) =>
            current_proc' = Head(ready_queue)]_vars

\* A ready process leaves the scheduler for good in one way only: it ran alone
\* through a whole slice, kept the state "READY", and then yielded.
Lost == {p \in procs : proc_state[p] = "READY" /\ p # current_proc /\ p \notin Queued}

LostOnlyByYield ==
    [][Lost' # Lost => /\ sys_yield
                       /\ proc_state[current_proc] = "READY"
                       /\ Lost' = Lost \cup {current_proc}]_vars

\* Preemption works against a process that is charged: whoever waits behind a
\* "RUNNING" process gets the CPU.
QueuedRuns ==
    \A p \in Pids \ {idle_proc} :
        (p \in Queued /\ proc_state[current_proc] = "RUNNING")
            ~> (current_proc = p \/ dead)

-----------------------------------------------------------------------------
(* What the documentation says and the code does not do.                   *)

\* README.md:692: "READY: 已分配资源，在 ready_queue 中等待调度".
ReadyMeansQueued ==
    \A p \in procs : (proc_state[p] = "READY" /\ p # current_proc) => p \in Queued

\* README.md:693: "RUNNING: 当前正在 CPU 上执行（current_proc 指向该线程）".
RunningMeansCurrent ==
    \A p \in procs : proc_state[p] = "RUNNING" => p = current_proc

\* README.md:828: the timer decrements time_slice and, at 0, forces schedule():
\* every process that waits gets the CPU.
NoStarvation ==
    \A p \in Pids \ {idle_proc} : p \in Queued ~> (current_proc = p \/ dead)

\* README.md:702: a parent or idle reaps a ZOMBIE through free_proc.
ZombiesReaped ==
    \A p \in Pids : (p \in procs /\ proc_state[p] = "ZOMBIE") ~> (p \notin procs \/ dead)

\* proc.c:321-323: a fork that gets no PCB returns -1, "分配失败".
ForkSurvivesNoPcb == ~(dead /\ kmain # "init")
=============================================================================
