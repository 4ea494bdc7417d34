------------------------------ MODULE Threads ------------------------------
(***************************************************************************)
(* What processes may expect of the kernel's trap entry, switch_to and     *)
(* fork: each is a thread with registers of its own.  Only the thread that *)
(* runs changes its registers, a system call changes its result register   *)
(* only, and a thread that gets the CPU back finds everything as it was.   *)
(***************************************************************************)
EXTENDS Integers

CONSTANTS
    Threads,        \* thread numbers
    First,          \* the thread that runs at boot
    Fresh,          \* registers of a program at its entry point
    Boot,           \* registers of First at boot
    NotYet, Gone,   \* a thread that does not exist yet, one that ended
    Registers       \* all registers a thread can have

VARIABLES thread, running

Alive(t) == thread[t] \notin {NotYet, Gone}

Init ==
    /\ thread = [t \in Threads |-> IF t = First THEN Boot ELSE NotYet]
    /\ running = First

\* Instructions of the running thread itself.
Step == \E r \in Registers : thread' = [thread EXCEPT ![running] = r]

\* A system call answers v and changes nothing else.
Answer == \E v \in Threads \cup {-1, 0} : thread' = [thread EXCEPT ![running].rax = v]

\* fork: the child differs from its parent in the answer only.
Fork ==
    \E c \in Threads :
        /\ thread[c] = NotYet
        /\ thread' = [thread EXCEPT ![c] = [thread[running] EXCEPT !.rax = 0],
                                    ![running].rax = c]

\* execve: the program starts over, with the answer 0.
Exec == thread' = [thread EXCEPT ![running] = [Fresh EXCEPT !.rax = 0]]

\* The boot thread creates a process and goes on.
Spawn ==
    \E c \in Threads, r \in Registers :
        /\ running = First
        /\ thread[c] = NotYet
        /\ thread' = [thread EXCEPT ![c] = Fresh, ![running] = r]

Exit == running # First /\ thread' = [thread EXCEPT ![running] = Gone]

\* Any step may end with a switch to a thread that is alive, and a step that
\* switches and does nothing else changes no thread.
Next ==
    /\ UNCHANGED thread \/ Step \/ Answer \/ Fork \/ Exec \/ Spawn \/ Exit
    /\ running' \in {t \in Threads : thread'[t] \notin {NotYet, Gone}}

Spec == Init /\ [][Next]_<<thread, running>>
=============================================================================
