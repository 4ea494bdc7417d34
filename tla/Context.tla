------------------------------ MODULE Context ------------------------------
(***************************************************************************)
(* What Scheduler leaves out: registers and kernel stacks.  The stubs of   *)
(* kernel/src/arch/isr.S, switch_to of kernel/src/arch/switch.S, the       *)
(* frames that fork and create_user_process build on a new stack, and the  *)
(* entry points of kernel/src/proc/entry.S and proc.c they return to.      *)
(*                                                                         *)
(* Each action of Scheduler is conjoined with its effect on the stacks.    *)
(* Entry, handler and return are one action, because interrupts are off    *)
(* from the gate to iretq.  rip stands for all registers of a thread       *)
(* except rax, which carries the answer of a system call, and the          *)
(* interrupt flag intr.                                                    *)
(***************************************************************************)
EXTENDS Scheduler

CONSTANT UserRips           \* places in a user program, the entry point included

ASSUME UserRipsAssumption == "entry" \in UserRips

VARIABLES
    regs,           \* registers of the thread on the CPU
    kstack,         \* frames on each kernel stack, the last one innermost
    context         \* the field context of each PCB: a place on some stack

cvars == <<vars, regs, kstack, context>>

Stacks == Pids \cup {BootStack}

Other == -2                 \* a value of rax that is no answer

\* Outside of the kernel, and in kmain, interrupts are on.
Registers == [rip : UserRips \cup {"init", "schedule", "loop", "failed"},
              rax : Pids \cup {-1, Other}, intr : {TRUE}]

Null == [stack |-> BootStack, depth |-> 0]

Fresh == [rip |-> "entry", rax |-> Other, intr |-> TRUE]

Boot == [rip |-> "init", rax |-> Other, intr |-> TRUE]

CInit ==
    /\ Init
    /\ regs = Boot
    /\ kstack = [s \in Stacks |-> <<>>]
    /\ context = [p \in Pids |-> Null]

-----------------------------------------------------------------------------
(* Frames.  A trap frame holds the registers of whoever was interrupted, a *)
(* context the place to which the ret of switch_to leads: into schedule(), *)
(* named after its caller, or to one of the two entry points.              *)

TrapFrame(r) == [kind |-> "trap", regs |-> r]
ContextFrame(ret) == [kind |-> "context", ret |-> ret]

Top(s) == s[Len(s)]
Pop(s) == SubSeq(s, 1, Len(s) - 1)

\* From ring 3 the CPU starts at the top of the stack the TSS names, whatever
\* is on it; from ring 0, that is in kmain, it stays on the stack it is on.
StackOf == IF current_proc = idle_proc THEN idle_proc ELSE tss

Entered ==
    [kstack EXCEPT ![StackOf] =
        IF current_proc = idle_proc THEN Append(@, TrapFrame(regs)) ELSE <<TrapFrame(regs)>>]

\* Mutant: every handler's answer is stored in rax, a tick's too.
RegsAfterTickMutant(ret, stack) ==
    CASE ret = "user_entry" -> Fresh
      [] ret = "kmain"      -> [Boot EXCEPT !.rip = "loop"]
      [] ret = "fork_ret_entry" -> Top(stack).regs
      [] OTHER              -> [Top(stack).regs EXCEPT !.rax = 0]

\* The registers the thread gets on the way from ret to its own code:
\* schedule() returns to timer_callback, to syscall_handler, which stores the
\* answer, or to kmain, where it first restores IF; fork_ret_entry pops the
\* trap frame; user_entry builds a frame of its own, with IF set.
RegsAfter(ret, stack) ==
    CASE ret = "sys_yield"  -> [Top(stack).regs EXCEPT !.rax = 0]
      [] ret = "user_entry" -> Fresh
      [] ret = "kmain"      -> [Boot EXCEPT !.rip = "loop"]
      [] OTHER              -> Top(stack).regs

\* Frames that are left then.
StackAfter(ret, stack) ==
    CASE ret = "kmain"      -> stack
      [] ret = "user_entry" -> <<>>
      [] OTHER              -> Pop(stack)

\* Mutant: the stack pointer is saved in the PCB that gets the CPU.
SavesMutant(s, stacks) ==
    [context EXCEPT ![current_proc'] = [stack |-> s, depth |-> Len(stacks[s])]]

\* mov %rsp, (%rdi)
Saves(s, stacks) ==
    [context EXCEPT ![current_proc] = [stack |-> s, depth |-> Len(stacks[s])]]

Resume(stacks, ptr) ==
    \E f \in {stacks[ptr.stack][ptr.depth]}, below \in {SubSeq(stacks[ptr.stack], 1, ptr.depth - 1)} :
        /\ regs' = RegsAfter(f.ret, below)
        /\ kstack' = [stacks EXCEPT ![ptr.stack] = StackAfter(f.ret, below)]

\* The context of prev is pushed on the stack in use, and that of next popped.
switch_to(stacks, s, ret) ==
    \E pushed \in {[stacks EXCEPT ![s] = Append(@, ContextFrame(ret))]} :
        /\ context' = Saves(s, pushed)
        /\ Resume(pushed, context[current_proc'])

\* How an action ends whose handler may have called schedule(), which says in
\* current_proc' whether it switches.
Leave(stacks, s, ret) ==
    \/ /\ current_proc' = current_proc
       /\ regs' = RegsAfter(ret, stacks[s])
       /\ kstack' = [stacks EXCEPT ![s] = StackAfter(ret, stacks[s])]
       /\ UNCHANGED context
    \/ /\ current_proc' # current_proc
       /\ switch_to(stacks, s, ret)

\* A system call that answers v: regs->rax = ret, then the stub's iretq.
Answers(v) ==
    /\ regs' = [Top(Entered[StackOf]).regs EXCEPT !.rax = v]
    /\ kstack' = [Entered EXCEPT ![StackOf] = Pop(@)]

-----------------------------------------------------------------------------
(* Interrupts and system calls.                                            *)

TimerInterrupt ==
    /\ regs.intr
    /\ timer_callback
    /\ Leave(Entered, StackOf, "timer_callback")

YieldCall == sys_yield /\ Leave(Entered, StackOf, "sys_yield")

\* schedule() finds another process, or idle, and the frame is never popped.
ExitCall == sys_exit /\ Leave(Entered, StackOf, "sys_exit")

\* Mutant: the child gets the parent's answer.
ForkFrameMutant(tf) == TrapFrame([tf.regs EXCEPT !.rax = next_pid])

\* *child_tf = *parent_tf; child_tf->rax = 0
ForkFrame(tf) == TrapFrame([tf.regs EXCEPT !.rax = 0])

\* parent->trap_frame is the frame this call was entered with.
ForkCall ==
    /\ sys_fork
    /\ regs' = [Top(Entered[StackOf]).regs EXCEPT !.rax = next_pid]
    /\ kstack' = [Entered EXCEPT ![StackOf] = Pop(@),
                                 ![next_pid] = <<ForkFrame(Top(Entered[StackOf])),
                                                 ContextFrame("fork_ret_entry")>>]
    /\ context' = [context EXCEPT ![next_pid] = [stack |-> next_pid, depth |-> 2]]

ForkCallFails == sys_fork_fails /\ Answers(-1) /\ UNCHANGED context

ForkCallNoPcb == sys_fork_no_pcb /\ kstack' = Entered /\ UNCHANGED <<regs, context>>

\* do_execve redirects rip and rsp in the trap frame; the old image is gone.
ExecveCall ==
    /\ InUserMode
    /\ regs' = [Top(Entered[StackOf]).regs EXCEPT !.rip = "entry", !.rax = 0]
    /\ kstack' = [Entered EXCEPT ![StackOf] = Pop(@)]
    /\ UNCHANGED <<vars, context>>

\* Every other call of syscall_handler, and an execve that fails.
OtherCall ==
    /\ InUserMode
    /\ \E v \in {-1, 0, current_proc} : Answers(v)
    /\ UNCHANGED <<vars, context>>

\* An exception in ring 3.  Vectors 0 and 14 have a gate: isr_handler reports
\* and executes hlt with interrupts off.  The others have none: the CPU resets.
\* do_execve may end so too: it gives ramfs_fstat 8 bytes of stack for a whole
\* struct stat.
Fault ==
    /\ InUserMode
    /\ dead' = TRUE
    /\ kstack' = Entered
    /\ UNCHANGED <<procs, proc_state, time_slice, ready_queue, cpu, next_pid, kmain,
                   regs, context>>

\* The program's own instructions.
UserStep ==
    /\ InUserMode
    /\ \E r \in UserRips : regs' = [regs EXCEPT !.rip = r, !.rax = Other]
    /\ UNCHANGED <<vars, kstack, context>>

-----------------------------------------------------------------------------
(* kmain.                                                                  *)

\* create_user_process puts one context on the new stack.
CreateInit ==
    /\ init_userproc
    /\ regs' = [regs EXCEPT !.rip = "schedule"]
    /\ kstack' = [kstack EXCEPT ![next_pid] = <<ContextFrame("user_entry")>>]
    /\ context' = [context EXCEPT ![next_pid] = [stack |-> next_pid, depth |-> 1]]

CreateInitFails ==
    /\ init_userproc_fails
    /\ regs' = [regs EXCEPT !.rip = "failed"]
    /\ UNCHANGED <<kstack, context>>

CreateInitNoPcb == init_userproc_no_pcb /\ UNCHANGED <<regs, kstack, context>>

KmainSchedules == kmain_schedule /\ Leave(kstack, idle_proc, "kmain")

Stopped == dead /\ UNCHANGED cvars

CNext ==
    \/ TimerInterrupt
    \/ YieldCall \/ ExitCall
    \/ ForkCall \/ ForkCallFails \/ ForkCallNoPcb
    \/ ExecveCall \/ OtherCall \/ Fault \/ UserStep
    \/ CreateInit \/ CreateInitFails \/ CreateInitNoPcb \/ KmainSchedules
    \/ Stopped

CSpec == CInit /\ [][CNext]_cvars

-----------------------------------------------------------------------------
(* Properties.                                                             *)

NotYet == [rip |-> "none", rax |-> Other, intr |-> FALSE]
Gone   == [rip |-> "gone", rax |-> Other, intr |-> FALSE]

\* The registers of a thread: on the CPU, or what its saved context leads to.
Saved(p) ==
    LET ptr == context[p]
        stack == kstack[ptr.stack]
    IN  RegsAfter(stack[ptr.depth].ret, SubSeq(stack, 1, ptr.depth - 1))

ThreadOf(p) ==
    IF p \notin procs THEN NotYet
    ELSE IF p = current_proc THEN regs
    ELSE IF proc_state[p] = "ZOMBIE" THEN Gone
    ELSE Saved(p)

T == INSTANCE Threads WITH
        Threads <- Pids, First <- idle_proc,
        thread <- [p \in Pids |-> ThreadOf(p)], running <- current_proc

\* Traps, switches, forks and exits in any order give each process the
\* registers of its own it left off with, and nobody else's, and interrupts are
\* on again, so that the next tick comes.
ImplementsThreads == T!Spec

\* A tick changes no register of any thread, whether it switches or not, and
\* wherever the thread it interrupts is.
TicksInvisible ==
    [][TimerInterrupt => \A p \in procs : ThreadOf(p)' = ThreadOf(p)]_cvars

\* Every kernel stack is used from its top: it is empty while its process is
\* in ring 3 (idle: in kmain), and otherwise ends with the context its PCB
\* points to, above at most one trap frame.  So no trap overwrites a frame that
\* is still needed, and no stack grows with the number of switches.
StackDiscipline ==
    \A p \in procs :
        \/ dead
        \/ p = current_proc /\ kstack[p] = <<>>
        \/ /\ p # current_proc
           /\ context[p] = [stack |-> p, depth |-> Len(kstack[p])]
           /\ Len(kstack[p]) \in {1, 2}
           /\ Top(kstack[p]).kind = "context"
=============================================================================
