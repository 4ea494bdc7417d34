--------------------------- MODULE ContextProofs ---------------------------
(***************************************************************************)
(* Proofs about Scheduler and about Context, which extends it, for any     *)
(* number of processes, any time slice and any user program: the run queue *)
(* and the processes; what is on the kernel stacks; and that traps,        *)
(* switches and forks together implement Threads.                          *)
(***************************************************************************)
EXTENDS Context, SequenceTheorems, TLAPS

-----------------------------------------------------------------------------
(* Scheduler.                                                              *)

States == {"RUNNING", "READY", "ZOMBIE"}

\* A pid is given out once.
PidsFresh == procs \subseteq 0 .. next_pid - 1

\* Idle exists and always has the state "RUNNING", even off the CPU; what is
\* on the CPU has not exited and has a tick left.
OnCPU ==
    /\ idle_proc \in procs
    /\ proc_state[idle_proc] = "RUNNING"
    /\ proc_state[current_proc] # "ZOMBIE"
    /\ time_slice[current_proc] >= 1

\* Until kmain creates PID 1 only idle exists.
BeforeInit == kmain = "init" => next_pid = 1 /\ current_proc = idle_proc

IInv ==
    /\ TypeOK
    /\ QueueSound
    /\ OwnContext
    /\ CR3Live
    /\ PidsFresh
    /\ OnCPU
    /\ BeforeInit

-----------------------------------------------------------------------------
(* Queues, as sequences without repetition.                                *)

Distinct(q) == \A i, j \in DOMAIN q : q[i] = q[j] => i = j

\* Appending what is not yet there keeps a queue free of repetition.
LEMMA AppendDistinct ==
    ASSUME NEW S, NEW q \in Seq(S), NEW p \in S, Distinct(q), p \notin InLine(q)
    PROVE  /\ Append(q, p) \in Seq(S)
           /\ Append(q, p) # <<>>
           /\ Distinct(Append(q, p))
           /\ InLine(Append(q, p)) = InLine(q) \cup {p}
<1>1. /\ Append(q, p) \in Seq(S)
      /\ Len(q) \in Nat /\ DOMAIN q = 1 .. Len(q)
      /\ Len(Append(q, p)) = Len(q) + 1
      /\ DOMAIN Append(q, p) = 1 .. Len(q) + 1
      /\ \A i \in 1 .. Len(q) : Append(q, p)[i] = q[i]
      /\ Append(q, p)[Len(q) + 1] = p
  OBVIOUS
<1> DEFINE r == Append(q, p)
<1> HIDE DEF r
<1>2. DOMAIN r = DOMAIN q \cup {Len(q) + 1} /\ Len(q) + 1 \notin DOMAIN q
  BY <1>1 DEF r
<1>3. \A i \in DOMAIN q : r[i] = q[i] /\ r[i] # p
  BY <1>1 DEF r, InLine
<1>4. r[Len(q) + 1] = p
  BY <1>1 DEF r
<1>5. Distinct(r)
  BY <1>2, <1>3, <1>4 DEF Distinct
<1>6. InLine(r) = InLine(q) \cup {p}
  BY <1>2, <1>3, <1>4 DEF InLine
<1>7. r # <<>>
  BY <1>1 DEF r
<1> QED BY <1>1, <1>5, <1>6, <1>7 DEF r

\* Taking the head keeps a queue free of repetition and removes the head.
LEMMA TailDistinct ==
    ASSUME NEW S, NEW q \in Seq(S), q # <<>>, Distinct(q)
    PROVE  /\ Head(q) \in S
           /\ Tail(q) \in Seq(S)
           /\ Distinct(Tail(q))
           /\ InLine(Tail(q)) = InLine(q) \ {Head(q)}
           /\ Head(q) \in InLine(q)
<1>1. /\ Tail(q) \in Seq(S)
      /\ Len(q) \in Nat \ {0} /\ DOMAIN q = 1 .. Len(q)
      /\ Head(q) = q[1]
      /\ DOMAIN Tail(q) = 1 .. Len(q) - 1
      /\ \A i \in 1 .. Len(q) - 1 : Tail(q)[i] = q[i + 1]
  <2>1. Len(q) \in Nat \ {0} /\ DOMAIN q = 1 .. Len(q)
    BY EmptySeq, LenProperties
  <2> QED BY <2>1, HeadTailProperties
<1> DEFINE r == Tail(q)
<1> HIDE DEF r
<1>2. DOMAIN r = 1 .. Len(q) - 1 /\ \A i \in DOMAIN r : r[i] = q[i + 1]
  BY <1>1 DEF r
<1>3. 1 \in DOMAIN q /\ q[1] \in S
  BY <1>1
<1>4. \A i \in DOMAIN r : i \in Nat /\ i + 1 \in DOMAIN q /\ i + 1 # 1
  BY <1>1, <1>2
<1>5. Distinct(r)
  BY <1>2, <1>4 DEF Distinct
<1>6. \A i \in DOMAIN r : r[i] \in InLine(q) /\ r[i] # q[1]
  BY <1>2, <1>3, <1>4 DEF Distinct, InLine
<1>7. ASSUME NEW x \in InLine(q), x # q[1] PROVE x \in InLine(r)
  <2>1. PICK k \in DOMAIN q : x = q[k]
    BY <1>7 DEF InLine
  <2>2. k # 1 /\ k \in 1 .. Len(q)
    BY <1>1, <1>7, <2>1
  <2>3. k - 1 \in DOMAIN r /\ (k - 1) + 1 = k
    BY <1>1, <1>2, <2>2
  <2>4. r[k - 1] = x
    BY <1>2, <2>1, <2>3
  <2> QED BY <2>3, <2>4 DEF InLine
<1>8. InLine(r) = InLine(q) \ {q[1]}
  <2>1. InLine(r) \subseteq InLine(q) \ {q[1]}
    BY <1>6 DEF InLine
  <2> QED BY <2>1, <1>7
<1>9. Head(q) \in InLine(q)
  BY <1>1, <1>3 DEF InLine
<1> QED BY <1>1, <1>3, <1>5, <1>8, <1>9 DEF r

-----------------------------------------------------------------------------
(* The switch.                                                             *)

\* Everything schedule() must establish, after a caller that changed only the
\* current process: the claims of IInv about the variables it assigns.
LEMMA RescheduleSound ==
    ASSUME IInv,
           NEW st \in [Pids -> States], NEW sl \in [Pids -> 0 .. TIME_SLICE_DEFAULT],
           \A p \in Pids \ {current_proc} : st[p] = proc_state[p] /\ sl[p] = time_slice[p],
           st[idle_proc] = "RUNNING",
           ~KeepsCPU(st, sl), Reschedule(st, sl), procs' = procs
    PROVE  /\ proc_state' \in [Pids -> States]
           /\ time_slice' \in [Pids -> 0 .. TIME_SLICE_DEFAULT]
           /\ ready_queue' \in Seq(procs)
           /\ current_proc' \in procs
           /\ QueueSound' /\ OwnContext' /\ CR3Live' /\ OnCPU'
           /\ cr3' \in Pids \cup {KernelMM} /\ tss' \in Pids \cup {BootStack}
<1> DEFINE prev  == current_proc
           exp   == Expired(st, sl)
           queue == IF exp THEN Append(ready_queue, prev) ELSE ready_queue
           st1   == IF exp THEN [st EXCEPT ![prev] = "READY"] ELSE st
           sl1   == IF exp THEN [sl EXCEPT ![prev] = TIME_SLICE_DEFAULT] ELSE sl
           next  == IF queue = <<>> THEN idle_proc ELSE Head(queue)
<1>0. /\ ready_queue \in Seq(procs) /\ Distinct(ready_queue)
      /\ prev \in procs /\ prev \in Pids /\ procs \subseteq Pids
      /\ idle_proc \in procs /\ idle_proc \in Pids
      /\ prev \notin InLine(ready_queue) /\ idle_proc \notin InLine(ready_queue)
      /\ \A p \in InLine(ready_queue) : p \in Pids /\ proc_state[p] = "READY"
  <2>1. TypeOK /\ QueueSound /\ OnCPU
    BY DEF IInv
  <2>2. \A p \in InLine(ready_queue) : p \in procs
    BY <2>1 DEF TypeOK, InLine
  <2> QED BY <2>1, <2>2 DEF TypeOK, QueueSound, OnCPU, Queued, Distinct
<1>1. /\ queue \in Seq(procs) /\ Distinct(queue)
      /\ InLine(queue) = IF exp THEN InLine(ready_queue) \cup {prev} ELSE InLine(ready_queue)
      /\ exp => queue # <<>>
  <2>1. CASE exp
    BY <1>0, <2>1, AppendDistinct
  <2>2. CASE ~exp
    BY <1>0, <2>2
  <2> QED BY <2>1, <2>2
<1>2. /\ exp => prev # idle_proc
      /\ ~exp /\ prev # idle_proc => st[prev] # "RUNNING"
  <2>1. sl[prev] \in Int
    BY <1>0
  <2> QED BY <2>1 DEF Expired, KeepsCPU
<1>3. /\ st1 \in [Pids -> States]
      /\ sl1 \in [Pids -> 0 .. TIME_SLICE_DEFAULT]
      /\ st1[idle_proc] = "RUNNING"
      /\ \A p \in InLine(queue) : st1[p] = "READY"
      /\ exp => st1[prev] = "READY" /\ sl1[prev] = TIME_SLICE_DEFAULT
  BY <1>0, <1>1, <1>2, TimeSliceAssumption DEF States
<1>4. /\ ready_queue' = IF queue = <<>> THEN queue ELSE Tail(queue)
      /\ proc_state' = IF prev # next \/ queue = <<>>
                       THEN [st1 EXCEPT ![next] = "RUNNING"] ELSE st1
      /\ time_slice' = IF prev # next \/ queue = <<>>
                       THEN [sl1 EXCEPT ![next] = TIME_SLICE_DEFAULT] ELSE sl1
      /\ current_proc' = next
      /\ tss' = IF prev # next THEN next ELSE tss
      /\ cr3' = IF prev # next /\ LoadsCR3(prev, next) THEN next ELSE cr3
  BY DEF Reschedule, Enqueue, Switch
<1> HIDE DEF queue, st1, sl1, exp
<1>5. /\ ready_queue' \in Seq(procs) /\ Distinct(ready_queue')
      /\ InLine(ready_queue') = InLine(queue) \ {next}
      /\ next \in procs
      /\ queue # <<>> => next \in InLine(queue)
  <2>1. CASE queue = <<>>
    <3>1. InLine(queue) = {}
      BY <2>1 DEF InLine
    <3> QED BY <1>0, <1>1, <1>4, <2>1, <3>1
  <2>2. CASE queue # <<>>
    BY <1>1, <1>4, <2>2, TailDistinct
  <2> QED BY <2>1, <2>2
<1>6. idle_proc \notin InLine(queue) /\ next \in Pids
  BY <1>0, <1>1, <1>2, <1>5
<1> HIDE DEF next
<1>7. prev = next /\ queue # <<>> => exp
  BY <1>0, <1>1, <1>5
<1>8. /\ proc_state' \in [Pids -> States]
      /\ time_slice' \in [Pids -> 0 .. TIME_SLICE_DEFAULT]
      /\ proc_state'[idle_proc] = "RUNNING"
      /\ \A p \in InLine(queue) \ {next} : proc_state'[p] = "READY"
      /\ proc_state'[next] # "ZOMBIE"
      /\ time_slice'[next] = TIME_SLICE_DEFAULT
  <2>1. CASE prev # next \/ queue = <<>>
    <3>1. /\ proc_state' = [st1 EXCEPT ![next] = "RUNNING"]
          /\ time_slice' = [sl1 EXCEPT ![next] = TIME_SLICE_DEFAULT]
      BY <1>4, <2>1
    <3>2. TIME_SLICE_DEFAULT \in 0 .. TIME_SLICE_DEFAULT
      BY TimeSliceAssumption
    <3>3. \A p \in InLine(queue) : p \in Pids
      BY <1>0, <1>1
    <3> QED BY <1>0, <1>3, <1>6, <3>1, <3>2, <3>3 DEF States
  <2>2. CASE prev = next /\ queue # <<>>
    <3>1. proc_state' = st1 /\ time_slice' = sl1 /\ exp
      BY <1>4, <1>7, <2>2
    <3> QED BY <1>3, <2>2, <3>1
  <2> QED BY <2>1, <2>2
<1>9. QueueSound'
  BY <1>4, <1>5, <1>6, <1>8 DEF QueueSound, Queued, Distinct
<1>10. OwnContext' /\ CR3Live' /\ cr3' \in Pids \cup {KernelMM} /\ tss' \in Pids \cup {BootStack}
  <2>1. OwnContext /\ CR3Live /\ cr3 \in Pids \cup {KernelMM} /\ tss \in Pids \cup {BootStack}
    BY DEF IInv, TypeOK
  <2>2. CASE prev = next
    BY <1>4, <2>1, <2>2 DEF OwnContext, CR3Live
  <2>3. CASE prev # next
    BY <1>4, <1>5, <1>6, <2>1, <2>3 DEF OwnContext, CR3Live, LoadsCR3, HasMM
  <2> QED BY <2>2, <2>3
<1>11. OnCPU'
  BY <1>0, <1>4, <1>8, TimeSliceAssumption DEF OnCPU
<1> QED BY <1>4, <1>5, <1>8, <1>9, <1>10, <1>11

\* schedule() keeps the invariant, after a caller that charged the current
\* process, ended it, or did nothing to it.
LEMMA ScheduleSound ==
    ASSUME IInv,
           NEW st \in [Pids -> States], NEW sl \in [Pids -> 0 .. TIME_SLICE_DEFAULT],
           \A p \in Pids \ {current_proc} : st[p] = proc_state[p] /\ sl[p] = time_slice[p],
           st[idle_proc] = "RUNNING",
           schedule(st, sl),
           UNCHANGED <<procs, next_pid, dead>>,
           kmain' \in {"schedule", "loop", "failed"} \/ UNCHANGED <<kmain, current_proc>>
    PROVE  IInv'
<1>1. /\ procs \subseteq Pids /\ next_pid \in 1 .. MaxPid + 1 /\ dead \in BOOLEAN
      /\ kmain \in {"init", "schedule", "loop", "failed"}
      /\ PidsFresh /\ BeforeInit
  BY DEF IInv, TypeOK
<1>2. PidsFresh' /\ BeforeInit'
  BY <1>1 DEF PidsFresh, BeforeInit
<1>3. CASE KeepsCPU(st, sl)
  <2>1. /\ proc_state' = st /\ time_slice' = sl
        /\ UNCHANGED <<ready_queue, current_proc, cr3, tss>>
    BY <1>3 DEF schedule, cpu, Reschedule
  <2>2. TypeOK'
    BY <1>1, <2>1 DEF IInv, TypeOK, States
  <2>3. QueueSound'
    <3>1. \A p \in Queued : p \in Pids \ {current_proc}
      BY DEF IInv, QueueSound, TypeOK, Queued, InLine
    <3> QED BY <2>1, <3>1 DEF IInv, QueueSound, Queued
  <2>4. OwnContext' /\ CR3Live'
    BY <2>1 DEF IInv, OwnContext, CR3Live
  <2>5. OnCPU'
    BY <1>3, <2>1, <2>2 DEF IInv, OnCPU, KeepsCPU, TypeOK
  <2> QED BY <1>2, <2>2, <2>3, <2>4, <2>5 DEF IInv
<1>4. CASE ~KeepsCPU(st, sl)
  <2>1. Reschedule(st, sl)
    BY <1>4 DEF schedule
  <2>2. /\ proc_state' \in [Pids -> States]
        /\ time_slice' \in [Pids -> 0 .. TIME_SLICE_DEFAULT]
        /\ ready_queue' \in Seq(procs)
        /\ current_proc' \in procs
        /\ QueueSound' /\ OwnContext' /\ CR3Live' /\ OnCPU'
        /\ cr3' \in Pids \cup {KernelMM} /\ tss' \in Pids \cup {BootStack}
    BY <1>4, <2>1, RescheduleSound
  <2>3. TypeOK'
    BY <1>1, <2>2 DEF TypeOK, States
  <2> QED BY <1>2, <2>2, <2>3 DEF IInv
<1> QED BY <1>3, <1>4

\* The tick keeps the invariant, whether or not it leads to a switch.
LEMMA TimerStep ==
    ASSUME IInv, timer_callback
    PROVE  IInv'
<1> DEFINE sl == [time_slice EXCEPT ![current_proc] = @ - 1]
<1>1. /\ TypeOK /\ OnCPU
      /\ UNCHANGED <<procs, next_pid, kmain, dead>>
  BY DEF IInv, timer_callback
<1>2. /\ sl \in [Pids -> 0 .. TIME_SLICE_DEFAULT]
      /\ \A p \in Pids \ {current_proc} : sl[p] = time_slice[p]
      /\ current_proc \in Pids
      /\ sl[current_proc] \in 0 .. TIME_SLICE_DEFAULT
  BY <1>1, TimeSliceAssumption DEF TypeOK, OnCPU
<1>3. CASE UNCHANGED <<proc_state, time_slice, ready_queue, cpu>>
  BY <1>1, <1>3 DEF IInv, TypeOK, QueueSound, Queued, OwnContext, CR3Live, PidsFresh,
     OnCPU, BeforeInit, cpu
<1>4. CASE /\ ~TimesOut(sl) /\ time_slice' = sl
           /\ UNCHANGED <<proc_state, ready_queue, cpu>>
  <2>1. TypeOK'
    BY <1>1, <1>2, <1>4 DEF TypeOK, cpu
  <2>2. QueueSound' /\ OwnContext' /\ CR3Live' /\ PidsFresh' /\ BeforeInit'
    BY <1>1, <1>4 DEF IInv, QueueSound, Queued, OwnContext, CR3Live, PidsFresh,
       BeforeInit, cpu
  <2>3. OnCPU'
    BY <1>1, <1>2, <1>4 DEF OnCPU, TimesOut, cpu
  <2> QED BY <2>1, <2>2, <2>3 DEF IInv
<1>5. CASE schedule(proc_state, sl)
  <2>1. proc_state \in [Pids -> States] /\ proc_state[idle_proc] = "RUNNING"
    BY <1>1 DEF TypeOK, States, OnCPU
  <2>2. kmain' \in {"schedule", "loop", "failed"} \/ UNCHANGED <<kmain, current_proc>>
    <3>1. CASE kmain = "init"
      <4>1. current_proc = idle_proc /\ next_pid = 1
        BY <3>1 DEF IInv, BeforeInit
      <4>2. Expired(proc_state, sl) = FALSE /\ KeepsCPU(proc_state, sl) = FALSE
        BY <4>1 DEF Expired, KeepsCPU
      <4>3. ready_queue = <<>>
        <5>1. procs \subseteq {idle_proc}
          BY <4>1 DEF IInv, PidsFresh, idle_proc
        <5>2. ready_queue \in Seq(procs) /\ idle_proc \notin InLine(ready_queue)
          BY DEF IInv, TypeOK, QueueSound, Queued
        <5> QED BY <5>1, <5>2, EmptySeq, LenProperties DEF InLine
      <4>4. current_proc' = idle_proc
        BY <1>5, <4>2, <4>3 DEF schedule, Reschedule, Switch
      <4> QED BY <1>1, <4>1, <4>4
    <3>2. CASE kmain # "init"
      BY <1>1, <3>2 DEF TypeOK
    <3> QED BY <3>1, <3>2
  <2> HIDE DEF sl
  <2> QED BY <1>1, <1>2, <1>5, <2>1, <2>2, ScheduleSound
<1> QED BY <1>3, <1>4, <1>5 DEF timer_callback

\* System calls and kmain's call of schedule() change only the state of the
\* process on the CPU before they switch.
LEMMA CallsScheduleStep ==
    ASSUME IInv, sys_yield \/ sys_exit \/ kmain_schedule
    PROVE  IInv'
<1>0. /\ proc_state \in [Pids -> States] /\ proc_state[idle_proc] = "RUNNING"
      /\ time_slice \in [Pids -> 0 .. TIME_SLICE_DEFAULT]
      /\ current_proc \in Pids /\ idle_proc \in Pids
      /\ kmain \in {"init", "schedule", "loop", "failed"}
      /\ kmain = "init" => current_proc = idle_proc
  BY DEF IInv, TypeOK, States, OnCPU, BeforeInit
<1>1. CASE sys_yield
  <2>1. /\ schedule(proc_state, time_slice)
        /\ UNCHANGED <<procs, next_pid, dead>>
        /\ kmain' \in {"schedule", "loop", "failed"}
    BY <1>0, <1>1 DEF sys_yield, InUserMode
  <2> QED BY <1>0, <2>1, ScheduleSound
<1>2. CASE sys_exit
  <2> DEFINE st == [proc_state EXCEPT ![current_proc] = "ZOMBIE"]
  <2>1. /\ schedule(st, time_slice)
        /\ UNCHANGED <<procs, next_pid, dead>>
        /\ kmain' \in {"schedule", "loop", "failed"}
    BY <1>0, <1>2 DEF sys_exit, InUserMode
  <2>2. /\ st \in [Pids -> States] /\ st[idle_proc] = "RUNNING"
        /\ \A p \in Pids \ {current_proc} : st[p] = proc_state[p]
    BY <1>0, <1>2 DEF sys_exit, InUserMode, States
  <2> HIDE DEF st
  <2> QED BY <1>0, <2>1, <2>2, ScheduleSound
<1>3. CASE kmain_schedule
  <2>1. /\ schedule(proc_state, time_slice)
        /\ UNCHANGED <<procs, next_pid, dead>>
        /\ kmain' \in {"schedule", "loop", "failed"}
    BY <1>3 DEF kmain_schedule
  <2> QED BY <1>0, <2>1, ScheduleSound
<1> QED BY <1>1, <1>2, <1>3

\* A new process has a fresh pid, so its node is linked nowhere yet.
LEMMA CreateStep ==
    ASSUME IInv, sys_fork \/ init_userproc
    PROVE  IInv'
<1> DEFINE p == next_pid
<1>0. TypeOK /\ QueueSound /\ OnCPU
  BY DEF IInv
<1>1. /\ NewProcess(p) /\ next_pid' = next_pid + 1 /\ p \in Pids /\ p # idle_proc
      /\ UNCHANGED <<current_proc, cr3, tss, dead>>
      /\ kmain' \in {"schedule", "loop", "failed"}
  <2>1. CASE sys_fork
    BY <2>1 DEF sys_fork, IInv, BeforeInit, TypeOK, Pids, InUserMode, cpu, idle_proc
  <2>2. CASE init_userproc
    BY <2>2, MaxPidAssumption DEF init_userproc, IInv, BeforeInit, Pids, cpu, idle_proc
  <2> QED BY <2>1, <2>2
<1>2. p \notin procs /\ next_pid \in Nat
  BY DEF IInv, PidsFresh, TypeOK
<1>3. \A x \in InLine(ready_queue) : x \in procs
  BY <1>0 DEF TypeOK, InLine
<1>4. /\ procs' = procs \cup {p} /\ ready_queue' = Append(ready_queue, p)
      /\ proc_state' = [proc_state EXCEPT ![p] = "READY"]
      /\ time_slice' = [time_slice EXCEPT ![p] = TIME_SLICE_DEFAULT]
  BY <1>1 DEF NewProcess, Enqueue
<1> HIDE DEF p
<1>5. /\ ready_queue' \in Seq(procs') /\ Distinct(ready_queue')
      /\ InLine(ready_queue') = InLine(ready_queue) \cup {p}
  <2>1. ready_queue \in Seq(procs') /\ p \in procs' /\ Distinct(ready_queue)
        /\ p \notin InLine(ready_queue)
    BY <1>0, <1>2, <1>3, <1>4 DEF TypeOK, QueueSound, Distinct
  <2> QED BY <1>4, <2>1, AppendDistinct
<1>6. TypeOK'
  <2>1. next_pid' \in 1 .. MaxPid + 1
    BY <1>0, <1>1, MaxPidAssumption DEF TypeOK, Pids, p
  <2>2. procs' \subseteq Pids /\ current_proc' \in procs'
    BY <1>0, <1>1, <1>4 DEF TypeOK
  <2>3. /\ proc_state' \in [Pids -> {"RUNNING", "READY", "ZOMBIE"}]
        /\ time_slice' \in [Pids -> 0 .. TIME_SLICE_DEFAULT]
    <3>1. TIME_SLICE_DEFAULT \in 0 .. TIME_SLICE_DEFAULT
      BY TimeSliceAssumption
    <3> QED BY <1>0, <1>4, <3>1 DEF TypeOK
  <2>4. /\ cr3' \in Pids \cup {KernelMM} /\ tss' \in Pids \cup {BootStack}
        /\ dead' \in BOOLEAN /\ kmain' \in {"init", "schedule", "loop", "failed"}
    BY <1>0, <1>1 DEF TypeOK
  <2> QED BY <1>5, <2>1, <2>2, <2>3, <2>4 DEF TypeOK
<1>7. QueueSound'
  <2>1. \A x \in procs : proc_state'[x] = proc_state[x]
    BY <1>0, <1>1, <1>2, <1>4 DEF TypeOK
  <2>2. proc_state'[p] = "READY"
    BY <1>0, <1>1, <1>4 DEF TypeOK
  <2>3. current_proc' # p
    BY <1>0, <1>1, <1>2 DEF TypeOK
  <2> QED BY <1>0, <1>1, <1>3, <1>5, <2>1, <2>2, <2>3 DEF QueueSound, Queued, Distinct
<1>8. OwnContext' /\ CR3Live'
  BY <1>1, <1>4 DEF IInv, OwnContext, CR3Live
<1>9. PidsFresh' /\ BeforeInit'
  BY <1>1, <1>2, <1>4 DEF IInv, PidsFresh, BeforeInit, p
<1>10. OnCPU'
  BY <1>0, <1>1, <1>2, <1>4 DEF OnCPU, TypeOK
<1> QED BY <1>6, <1>7, <1>8, <1>9, <1>10 DEF IInv

\* A larger bound gives a larger range of pids.
LEMMA RangeGrows ==
    ASSUME NEW a \in Nat, NEW b \in Nat, a <= b
    PROVE  0 .. a - 1 \subseteq 0 .. b - 1
OBVIOUS

\* A creation that fails uses up a pid or stops the kernel, nothing else.
LEMMA FailStep ==
    ASSUME IInv,
           sys_fork_fails \/ init_userproc_fails \/ sys_fork_no_pcb \/ init_userproc_no_pcb
             \/ Halted \/ UNCHANGED vars
    PROVE  IInv'
<1>1. /\ UNCHANGED <<procs, proc_state, time_slice, ready_queue, current_proc, cr3, tss>>
      /\ next_pid' \in {next_pid, next_pid + 1} /\ next_pid' \in 1 .. MaxPid + 1
      /\ dead' \in BOOLEAN /\ kmain' \in {kmain, "failed"}
      /\ kmain' = "init" => next_pid' = next_pid
  <2>1. CASE sys_fork_fails
    <3>1. next_pid \in 1 .. MaxPid + 1 /\ dead \in BOOLEAN /\ kmain # "init"
      BY <2>1 DEF sys_fork_fails, InUserMode, IInv, BeforeInit, TypeOK
    <3>2. /\ next_pid <= MaxPid /\ next_pid' = next_pid + 1
          /\ UNCHANGED <<procs, proc_state, time_slice, ready_queue, cpu, kmain, dead>>
      BY <2>1 DEF sys_fork_fails
    <3> QED BY <3>1, <3>2, MaxPidAssumption DEF cpu
  <2>2. CASE init_userproc_fails
    BY <2>2, MaxPidAssumption DEF init_userproc_fails, IInv, BeforeInit, TypeOK, cpu
  <2>3. CASE sys_fork_no_pcb \/ init_userproc_no_pcb
    BY <2>3 DEF sys_fork_no_pcb, init_userproc_no_pcb, PcbFault, IInv, TypeOK, cpu
  <2>4. CASE Halted \/ UNCHANGED vars
    BY <2>4 DEF Halted, vars, IInv, TypeOK
  <2> QED BY <2>1, <2>2, <2>3, <2>4
<1>2. TypeOK'
  BY <1>1 DEF IInv, TypeOK
<1>3. QueueSound' /\ OwnContext' /\ CR3Live' /\ OnCPU'
  BY <1>1 DEF IInv, QueueSound, Queued, OwnContext, CR3Live, OnCPU
<1>4. PidsFresh'
  <2>1. procs \subseteq 0 .. next_pid - 1 /\ next_pid \in Nat
    BY DEF IInv, PidsFresh, TypeOK
  <2>2. procs' = procs /\ next_pid' \in Nat /\ next_pid <= next_pid'
    BY <1>1, <2>1
  <2>3. 0 .. next_pid - 1 \subseteq 0 .. next_pid' - 1
    BY <2>1, <2>2, RangeGrows
  <2> QED BY <2>1, <2>2, <2>3 DEF PidsFresh
<1>5. BeforeInit'
  BY <1>1 DEF IInv, BeforeInit
<1> QED BY <1>2, <1>3, <1>4, <1>5 DEF IInv

\* proc_init establishes the invariant.
LEMMA InitIInv == Init => IInv
<1> SUFFICES ASSUME Init PROVE IInv
  OBVIOUS
<1>1. TypeOK
  BY MaxPidAssumption, TimeSliceAssumption DEF Init, TypeOK, Pids, idle_proc
<1>2. QueueSound
  BY DEF Init, QueueSound, Queued, InLine
<1>3. OwnContext /\ CR3Live /\ PidsFresh /\ OnCPU /\ BeforeInit
  BY MaxPidAssumption, TimeSliceAssumption DEF Init, OwnContext, CR3Live, PidsFresh,
     OnCPU, BeforeInit, Pids, idle_proc
<1> QED BY <1>1, <1>2, <1>3 DEF IInv

\* Every interrupt, system call and step of kmain keeps the invariant.
LEMMA NextIInv == IInv /\ [Next]_vars => IInv'
BY TimerStep, CallsScheduleStep, CreateStep, FailStep DEF Next

-----------------------------------------------------------------------------
(* The theorems.                                                           *)

\* The inductive invariant holds whatever the order of interrupts and calls.
THEOREM SchedulerInvariant == Spec => []IInv
BY InitIInv, NextIInv, PTL DEF Spec

\* PCB fields keep their types; a time slice never goes below zero.
THEOREM SchedulerTypeCorrect == Spec => []TypeOK
<1>1. IInv => TypeOK
  BY DEF IInv
<1> QED BY <1>1, SchedulerInvariant, PTL

\* No process is linked twice in the ready queue, and neither idle, nor the
\* process on the CPU, nor one that exited is linked in it.
THEOREM SchedulerQueueSound == Spec => []QueueSound
<1>1. IInv => QueueSound
  BY DEF IInv
<1> QED BY <1>1, SchedulerInvariant, PTL

\* A user process always runs on its own page table and kernel stack.
THEOREM SchedulerOwnContext == Spec => []OwnContext
<1>1. IInv => OwnContext
  BY DEF IInv
<1> QED BY <1>1, SchedulerInvariant, PTL

\* The CPU never uses the page table of a process that does not exist.
THEOREM SchedulerCR3Live == Spec => []CR3Live
<1>1. IInv => CR3Live
  BY DEF IInv
<1> QED BY <1>1, SchedulerInvariant, PTL

-----------------------------------------------------------------------------
(* What a step may do to the queue and to those who wait.                  *)

\* In a queue without repetition the position of an entry is its index.
LEMMA PositionIs ==
    ASSUME NEW q, Distinct(q), NEW i \in DOMAIN q
    PROVE  Position(q, q[i]) = i
BY DEF Position, Distinct

\* A queue that lost its head, or gained a new last entry, or both, holds nobody
\* further back than before.
Advanced(q, r) ==
    \A p \in InLine(q) \cap InLine(r) : Position(r, p) <= Position(q, p)

LEMMA SameAdvanced ==
    ASSUME NEW S, NEW q \in Seq(S), Distinct(q)
    PROVE  Advanced(q, q)
<1> SUFFICES ASSUME NEW p \in InLine(q) PROVE Position(q, p) <= Position(q, p)
  BY DEF Advanced
<1>1. PICK i \in DOMAIN q : p = q[i]
  BY DEF InLine
<1>2. Position(q, p) = i /\ i \in Nat
  BY <1>1, PositionIs, LenProperties
<1> QED BY <1>2

LEMMA AppendAdvanced ==
    ASSUME NEW S, NEW q \in Seq(S), Distinct(q), NEW p \in S, p \notin InLine(q)
    PROVE  Advanced(q, Append(q, p))
<1> DEFINE r == Append(q, p)
<1>1. Distinct(r) /\ r \in Seq(S)
  BY AppendDistinct
<1>2. \A i \in DOMAIN q : i \in DOMAIN r /\ r[i] = q[i] /\ i \in Nat
  BY LenProperties, AppendProperties
<1> HIDE DEF r
<1>3. SUFFICES ASSUME NEW x \in InLine(q) PROVE Position(r, x) <= Position(q, x)
  BY DEF Advanced, r
<1>4. PICK i \in DOMAIN q : x = q[i]
  BY <1>3 DEF InLine
<1>5. Position(q, x) = i
  BY <1>4, PositionIs
<1>6. Position(r, x) = i
  BY <1>1, <1>2, <1>4, PositionIs
<1> QED BY <1>2, <1>5, <1>6

LEMMA TailAdvanced ==
    ASSUME NEW S, NEW q \in Seq(S), Distinct(q), q # <<>>
    PROVE  Advanced(q, Tail(q))
<1> DEFINE r == Tail(q)
<1>1. Distinct(r) /\ r \in Seq(S)
  BY TailDistinct
<1>2. \A i \in DOMAIN r : i + 1 \in DOMAIN q /\ r[i] = q[i + 1] /\ i \in Nat
  BY LenProperties, HeadTailProperties
<1> HIDE DEF r
<1>3. SUFFICES ASSUME NEW x \in InLine(r) PROVE Position(r, x) <= Position(q, x)
  BY DEF Advanced, r
<1>4. PICK i \in DOMAIN r : x = r[i]
  BY <1>3 DEF InLine
<1>5. Position(r, x) = i
  BY <1>1, <1>4, PositionIs
<1>6. Position(q, x) = i + 1
  BY <1>2, <1>4, PositionIs
<1> QED BY <1>2, <1>5, <1>6

\* One step after the other: r is between q and s and loses nobody q and s share.
LEMMA AdvancedTransitive ==
    ASSUME NEW S, NEW q \in Seq(S), NEW r \in Seq(S), NEW s \in Seq(S),
           Distinct(q), Distinct(r), Distinct(s),
           Advanced(q, r), Advanced(r, s), InLine(q) \cap InLine(s) \subseteq InLine(r)
    PROVE  Advanced(q, s)
<1>1. \A t \in Seq(S) : Distinct(t) => \A x \in InLine(t) : Position(t, x) \in Nat
  <2> SUFFICES ASSUME NEW t \in Seq(S), Distinct(t), NEW x \in InLine(t)
               PROVE  Position(t, x) \in Nat
    OBVIOUS
  <2>1. PICK i \in DOMAIN t : x = t[i]
    BY DEF InLine
  <2>2. i \in Nat
    BY LenProperties
  <2> QED BY <2>1, <2>2, PositionIs
<1>2. SUFFICES ASSUME NEW x \in InLine(q) \cap InLine(s) PROVE Position(s, x) <= Position(q, x)
  BY DEF Advanced
<1>3. Position(r, x) <= Position(q, x) /\ Position(s, x) <= Position(r, x)
  BY <1>2 DEF Advanced
<1> QED BY <1>1, <1>2, <1>3

\* The queue out of which the next process is taken.
Requeued(st, sl) ==
    IF Expired(st, sl) THEN Append(ready_queue, current_proc) ELSE ready_queue

\* What one rescheduling does to the queue, and who gets the CPU.
LEMMA RescheduleMoves ==
    ASSUME IInv, NEW st, NEW sl, Reschedule(st, sl), ~KeepsCPU(st, sl)
    PROVE  LET queue == Requeued(st, sl) IN
           /\ queue \in Seq(procs) /\ Distinct(queue)
           /\ InLine(queue) = InLine(ready_queue) \cup (IF Expired(st, sl) THEN {current_proc} ELSE {})
           /\ Expired(st, sl) => queue # <<>>
           /\ Advanced(ready_queue, queue)
           /\ queue = <<>> => ready_queue' = <<>> /\ current_proc' = idle_proc
           /\ queue # <<>> => ready_queue' = Tail(queue) /\ current_proc' = Head(queue)
           /\ ready_queue # <<>> => queue # <<>> /\ Head(queue) = Head(ready_queue)
<1> DEFINE queue == Requeued(st, sl)
<1>1. /\ ready_queue \in Seq(procs) /\ Distinct(ready_queue)
      /\ current_proc \in procs /\ current_proc \notin InLine(ready_queue)
  BY DEF IInv, TypeOK, QueueSound, Queued, Distinct
<1>2. CASE Expired(st, sl)
  <2>1. queue = Append(ready_queue, current_proc)
    BY <1>2 DEF Requeued
  <2> HIDE DEF queue
  <2>2. ready_queue # <<>> => Head(queue) = Head(ready_queue)
    BY <1>1, <2>1, HeadTailAppend
  <2>3. /\ queue \in Seq(procs) /\ Distinct(queue) /\ queue # <<>>
        /\ InLine(queue) = InLine(ready_queue) \cup {current_proc}
    BY <1>1, <2>1, AppendDistinct
  <2>4. Advanced(ready_queue, queue)
    BY <1>1, <2>1, AppendAdvanced
  <2>5. ready_queue' = Tail(queue) /\ current_proc' = Head(queue)
    BY <1>2, <2>1, <2>3 DEF Reschedule, Enqueue, Switch
  <2> QED BY <1>2, <2>2, <2>3, <2>4, <2>5 DEF queue
<1>3. CASE ~Expired(st, sl)
  <2>1. queue = ready_queue
    BY <1>3 DEF Requeued
  <2> HIDE DEF queue
  <2>2. Advanced(ready_queue, queue)
    BY <1>1, <2>1, SameAdvanced
  <2>3. /\ queue = <<>> => ready_queue' = <<>> /\ current_proc' = idle_proc
        /\ queue # <<>> => ready_queue' = Tail(queue) /\ current_proc' = Head(queue)
    BY <1>3, <2>1 DEF Reschedule, Switch
  <2> QED BY <1>1, <1>3, <2>1, <2>2, <2>3 DEF queue
<1> QED BY <1>2, <1>3

\* Rescheduling overtakes nobody.
LEMMA RescheduleAdvances ==
    ASSUME IInv, NEW st, NEW sl, Reschedule(st, sl), ~KeepsCPU(st, sl)
    PROVE  /\ Advanced(ready_queue, ready_queue')
           /\ ready_queue # <<>> => current_proc' = Head(ready_queue)
<1> DEFINE queue == Requeued(st, sl)
<1>0. ready_queue \in Seq(procs) /\ Distinct(ready_queue)
  BY DEF IInv, TypeOK, QueueSound, Distinct
<1>1. /\ queue \in Seq(procs) /\ Distinct(queue)
      /\ InLine(ready_queue) \subseteq InLine(queue)
      /\ Advanced(ready_queue, queue)
      /\ queue = <<>> => ready_queue' = <<>> /\ current_proc' = idle_proc
      /\ queue # <<>> => ready_queue' = Tail(queue) /\ current_proc' = Head(queue)
      /\ ready_queue # <<>> => queue # <<>> /\ Head(queue) = Head(ready_queue)
  BY RescheduleMoves
<1> HIDE DEF queue
<1>2. CASE queue = <<>>
  BY <1>1, <1>2 DEF Advanced, InLine
<1>3. CASE queue # <<>>
  <2>0. Advanced(queue, Tail(queue)) /\ Tail(queue) \in Seq(procs) /\ Distinct(Tail(queue))
    BY <1>1, <1>3, TailAdvanced, TailDistinct
  <2>1. Advanced(queue, ready_queue') /\ ready_queue' \in Seq(procs) /\ Distinct(ready_queue')
    BY <1>1, <1>3, <2>0
  <2>2. Advanced(ready_queue, ready_queue')
    BY <1>0, <1>1, <2>1, AdvancedTransitive
  <2> QED BY <1>1, <1>3, <2>2
<1> QED BY <1>2, <1>3

\* schedule() overtakes nobody, whatever its caller did to the current process.
LEMMA ScheduleAdvances ==
    ASSUME IInv, NEW st, NEW sl, schedule(st, sl)
    PROVE  /\ Advanced(ready_queue, ready_queue')
           /\ (current_proc' # current_proc /\ ready_queue # <<>>)
                => current_proc' = Head(ready_queue)
<1>1. CASE KeepsCPU(st, sl)
  <2>1. UNCHANGED <<ready_queue, current_proc>>
    BY <1>1 DEF schedule, cpu
  <2>2. ready_queue \in Seq(procs) /\ Distinct(ready_queue)
    BY DEF IInv, TypeOK, QueueSound, Distinct
  <2>3. Advanced(ready_queue, ready_queue)
    BY <2>2, SameAdvanced
  <2> QED BY <2>1, <2>3
<1>2. CASE ~KeepsCPU(st, sl)
  BY <1>2, RescheduleAdvances DEF schedule
<1> QED BY <1>1, <1>2

\* Every step keeps the order of the queue and takes from its head.
LEMMA StepAdvances ==
    ASSUME IInv, [Next]_vars
    PROVE  /\ Advanced(ready_queue, ready_queue')
           /\ (current_proc' # current_proc /\ ready_queue # <<>>)
                => current_proc' = Head(ready_queue)
<1>0. /\ ready_queue \in Seq(procs) /\ Distinct(ready_queue)
      /\ \A p \in InLine(ready_queue) : p \in procs
      /\ next_pid \notin procs
  <2>1. TypeOK /\ QueueSound /\ PidsFresh
    BY DEF IInv
  <2>2. next_pid \notin procs
    BY <2>1 DEF PidsFresh, TypeOK
  <2> QED BY <2>1, <2>2 DEF TypeOK, QueueSound, Distinct, InLine
<1>1. ASSUME NEW st, NEW sl, schedule(st, sl)
      PROVE  /\ Advanced(ready_queue, ready_queue')
             /\ (current_proc' # current_proc /\ ready_queue # <<>>)
                  => current_proc' = Head(ready_queue)
  BY <1>1, ScheduleAdvances
<1>2. CASE UNCHANGED <<ready_queue, current_proc>>
  BY <1>0, <1>2, SameAdvanced
<1>3. CASE timer_callback
  <2>1. CASE UNCHANGED <<ready_queue, cpu>>
    BY <1>2, <2>1 DEF cpu
  <2>2. CASE schedule(proc_state, [time_slice EXCEPT ![current_proc] = @ - 1])
    BY <1>1, <2>2
  <2> QED BY <1>3, <2>1, <2>2 DEF timer_callback
<1>4. CASE sys_yield \/ sys_exit \/ kmain_schedule
  BY <1>1, <1>4 DEF sys_yield, sys_exit, kmain_schedule
<1>5. CASE sys_fork \/ init_userproc
  <2>1. ready_queue' = Append(ready_queue, next_pid) /\ current_proc' = current_proc
    BY <1>5 DEF sys_fork, init_userproc, NewProcess, Enqueue, cpu
  <2>2. Advanced(ready_queue, Append(ready_queue, next_pid))
    <3>1. ready_queue \in Seq(procs \cup {next_pid}) /\ next_pid \notin InLine(ready_queue)
      BY <1>0, SeqMonotonic
    <3> QED BY <1>0, <3>1, AppendAdvanced
  <2> QED BY <2>1, <2>2
<1>6. CASE \/ sys_fork_fails \/ sys_fork_no_pcb
           \/ init_userproc_fails \/ init_userproc_no_pcb \/ Halted \/ UNCHANGED vars
  BY <1>2, <1>6 DEF sys_fork_fails, sys_fork_no_pcb, init_userproc_fails,
     init_userproc_no_pcb, PcbFault, Halted, vars, cpu
<1> QED BY <1>3, <1>4, <1>5, <1>6 DEF Next

\* A rescheduling forgets one process at most: one that gives up the CPU with
\* the state "READY" and is not queued.
LEMMA RescheduleLost ==
    ASSUME IInv,
           NEW st \in [Pids -> States], NEW sl,
           \A p \in Pids \ {current_proc} : st[p] = proc_state[p],
           st[idle_proc] = "RUNNING",
           ~KeepsCPU(st, sl), Reschedule(st, sl), procs' = procs
    PROVE  Lost' = Lost \cup (IF st[current_proc] = "READY" THEN {current_proc} ELSE {})
<1> DEFINE prev == current_proc
           exp == Expired(st, sl)
           queue == Requeued(st, sl)
           next == current_proc'
<1>0. /\ procs \subseteq Pids /\ prev \in procs /\ idle_proc \in procs
      /\ prev \notin InLine(ready_queue) /\ idle_proc \notin InLine(ready_queue)
      /\ \A p \in InLine(ready_queue) : p \in procs /\ proc_state[p] = "READY"
  BY DEF IInv, TypeOK, QueueSound, Queued, OnCPU, InLine
<1>1. /\ queue \in Seq(procs) /\ Distinct(queue)
      /\ InLine(queue) = InLine(ready_queue) \cup (IF exp THEN {prev} ELSE {})
      /\ exp => queue # <<>>
      /\ queue = <<>> => ready_queue' = <<>> /\ next = idle_proc
      /\ queue # <<>> => ready_queue' = Tail(queue) /\ next = Head(queue)
  BY RescheduleMoves
<1>2. /\ exp => st[prev] = "RUNNING" /\ prev # idle_proc
      /\ exp => proc_state' = IF prev # next \/ queue = <<>>
                              THEN [[st EXCEPT ![prev] = "READY"] EXCEPT ![next] = "RUNNING"]
                              ELSE [st EXCEPT ![prev] = "READY"]
      /\ ~exp => proc_state' = IF prev # next \/ queue = <<>>
                               THEN [st EXCEPT ![next] = "RUNNING"] ELSE st
  BY <1>1 DEF Reschedule, Enqueue, Requeued, Switch, Expired
<1> HIDE DEF queue, exp
<1>3. InLine(ready_queue') = InLine(queue) \ {next} /\ (next \in InLine(queue) \/ next = idle_proc)
  <2>1. CASE queue = <<>>
    BY <1>1, <2>1 DEF InLine
  <2>2. CASE queue # <<>>
    BY <1>1, <2>2, TailDistinct
  <2> QED BY <2>1, <2>2
<1>4. next \in procs /\ next \in Pids /\ prev \in Pids
  BY <1>0, <1>1, <1>3
<1> HIDE DEF next
<1>5. \A p \in procs : p \in Lost' <=> /\ proc_state'[p] = "READY" /\ p # next
                                       /\ p \notin InLine(ready_queue')
  BY DEF Lost, Queued, next
<1>6. \A p \in procs : p \in Lost' <=> proc_state'[p] = "READY" /\ p # next /\ p \notin InLine(queue)
  BY <1>3, <1>5
<1>7. \A p \in procs : p # next /\ p # prev => proc_state'[p] = proc_state[p]
  BY <1>0, <1>2, <1>4
<1>8. ASSUME NEW p \in procs, p # prev PROVE p \in Lost' <=> p \in Lost
  <2>1. CASE p = next
    <3>1. p \notin Lost'
      BY <1>6, <2>1
    <3>2. p \notin Lost
      <4>1. CASE p = idle_proc
        BY <4>1 DEF Lost, IInv, OnCPU
      <4>2. CASE p \in InLine(queue)
        BY <1>1, <1>8, <4>2 DEF Lost, Queued
      <4> QED BY <1>3, <2>1, <4>1, <4>2
    <3> QED BY <3>1, <3>2
  <2>2. CASE p # next
    <3>1. p \in Lost' <=> proc_state[p] = "READY" /\ p \notin InLine(queue)
      BY <1>6, <1>7, <1>8, <2>2
    <3>2. p \in InLine(queue) <=> p \in InLine(ready_queue)
      BY <1>1, <1>8
    <3> QED BY <1>8, <3>1, <3>2 DEF Lost, Queued
  <2> QED BY <2>1, <2>2
<1>9. prev \notin Lost
  BY DEF Lost
<1>10. prev \in Lost' <=> st[prev] = "READY"
  <2>1. CASE exp
    BY <1>0, <1>1, <1>2, <1>6, <2>1
  <2>2. CASE ~exp /\ st[prev] = "READY"
    <3>1. prev # next
      BY <1>0, <1>1, <1>3, <2>2
    <3>2. proc_state'[prev] = "READY" /\ prev \notin InLine(queue)
      BY <1>0, <1>1, <1>2, <1>4, <2>2, <3>1
    <3> QED BY <1>0, <1>6, <2>2, <3>1, <3>2
  <2>3. CASE ~exp /\ st[prev] # "READY"
    <3>1. CASE prev = next
      BY <1>0, <1>6, <2>3, <3>1
    <3>2. CASE prev # next
      BY <1>0, <1>2, <1>4, <1>6, <2>3, <3>2
    <3> QED BY <2>3, <3>1, <3>2
  <2> QED BY <2>1, <2>2, <2>3
<1>11. Lost \subseteq procs /\ Lost' \subseteq procs
  BY DEF Lost
<1> QED BY <1>0, <1>8, <1>9, <1>10, <1>11

\* schedule() forgets nobody but the process that calls it with the state "READY".
LEMMA ScheduleLost ==
    ASSUME IInv,
           NEW st \in [Pids -> States], NEW sl,
           \A p \in Pids \ {current_proc} : st[p] = proc_state[p],
           st[idle_proc] = "RUNNING",
           schedule(st, sl), procs' = procs
    PROVE  \/ Lost' = Lost
           \/ st[current_proc] = "READY" /\ Lost' = Lost \cup {current_proc}
<1>1. CASE KeepsCPU(st, sl)
  <2>1. proc_state' = st /\ UNCHANGED <<ready_queue, current_proc>>
    BY <1>1 DEF schedule, cpu
  <2>2. procs \subseteq Pids
    BY DEF IInv, TypeOK
  <2>3. Lost' = Lost
    BY <2>1, <2>2 DEF Lost, Queued
  <2> QED BY <2>3
<1>2. CASE ~KeepsCPU(st, sl)
  BY <1>2, RescheduleLost DEF schedule
<1> QED BY <1>1, <1>2

\* The tick, exit and kmain forget nobody; yield forgets its caller at most.
LEMMA StepLoses ==
    ASSUME IInv, [Next]_vars
    PROVE  Lost' # Lost => /\ sys_yield
                           /\ proc_state[current_proc] = "READY"
                           /\ Lost' = Lost \cup {current_proc}
<1>0. /\ proc_state \in [Pids -> States] /\ proc_state[idle_proc] = "RUNNING"
      /\ procs \subseteq Pids /\ current_proc \in procs /\ current_proc \in Pids
      /\ next_pid \notin procs
  <2>1. TypeOK /\ OnCPU /\ PidsFresh
    BY DEF IInv
  <2>2. next_pid \notin procs
    BY <2>1 DEF PidsFresh, TypeOK
  <2> QED BY <2>1, <2>2 DEF TypeOK, OnCPU, States
<1>1. CASE UNCHANGED <<procs, proc_state, ready_queue, current_proc>>
  BY <1>1 DEF Lost, Queued
<1>2. CASE timer_callback
  <2> DEFINE sl == [time_slice EXCEPT ![current_proc] = @ - 1]
  <2>1. procs' = procs
    BY <1>2 DEF timer_callback
  <2>2. CASE UNCHANGED <<proc_state, ready_queue, cpu>>
    BY <1>1, <2>1, <2>2 DEF cpu
  <2>3. CASE proc_state[current_proc] = "RUNNING" /\ schedule(proc_state, sl)
    <3> HIDE DEF sl
    <3> QED BY <1>0, <2>1, <2>3, ScheduleLost
  <2> QED BY <1>2, <2>2, <2>3 DEF timer_callback
<1>3. CASE sys_yield
  <2>1. schedule(proc_state, time_slice) /\ procs' = procs
    BY <1>3 DEF sys_yield
  <2> QED BY <1>0, <1>3, <2>1, ScheduleLost
<1>4. CASE sys_exit
  <2> DEFINE st == [proc_state EXCEPT ![current_proc] = "ZOMBIE"]
  <2>1. schedule(st, time_slice) /\ procs' = procs /\ current_proc # idle_proc
    BY <1>4 DEF sys_exit, InUserMode
  <2>2. /\ st \in [Pids -> States] /\ st[idle_proc] = "RUNNING" /\ st[current_proc] = "ZOMBIE"
        /\ \A p \in Pids \ {current_proc} : st[p] = proc_state[p]
    BY <1>0, <2>1 DEF States
  <2> HIDE DEF st
  <2> QED BY <2>1, <2>2, ScheduleLost
<1>5. CASE kmain_schedule
  <2>1. /\ schedule(proc_state, time_slice) /\ procs' = procs
        /\ current_proc = idle_proc
    BY <1>5 DEF kmain_schedule, IdleRuns
  <2> QED BY <1>0, <2>1, ScheduleLost
<1>6. CASE sys_fork \/ init_userproc
  <2>1. /\ procs' = procs \cup {next_pid} /\ current_proc' = current_proc
        /\ proc_state' = [proc_state EXCEPT ![next_pid] = "READY"]
        /\ ready_queue' = Append(ready_queue, next_pid)
    BY <1>6 DEF sys_fork, init_userproc, NewProcess, Enqueue, cpu
  <2>2. InLine(ready_queue') = InLine(ready_queue) \cup {next_pid}
    <3>1. /\ ready_queue \in Seq(procs \cup {next_pid}) /\ Distinct(ready_queue)
          /\ next_pid \notin InLine(ready_queue)
      BY <1>0, SeqMonotonic DEF IInv, TypeOK, QueueSound, Distinct, InLine
    <3> QED BY <2>1, <3>1, AppendDistinct
  <2>3. \A p \in procs : proc_state'[p] = proc_state[p] /\ p # next_pid
    BY <1>0, <2>1
  <2>4. Lost' = Lost
    BY <1>0, <2>1, <2>2, <2>3 DEF Lost, Queued
  <2> QED BY <2>4
<1>7. CASE \/ sys_fork_fails \/ sys_fork_no_pcb
           \/ init_userproc_fails \/ init_userproc_no_pcb \/ Halted \/ UNCHANGED vars
  BY <1>1, <1>7 DEF sys_fork_fails, sys_fork_no_pcb, init_userproc_fails,
     init_userproc_no_pcb, PcbFault, Halted, vars, cpu
<1> QED BY <1>2, <1>3, <1>4, <1>5, <1>6, <1>7 DEF Next

\* schedule() ends nobody and wakes no process that ended; a process that gets
\* the CPU from another one has not ended.
LEMMA ScheduleZombies ==
    ASSUME IInv,
           NEW st \in [Pids -> States], NEW sl,
           \A p \in Pids \ {current_proc} : st[p] = proc_state[p],
           st[idle_proc] = "RUNNING",
           schedule(st, sl)
    PROVE  /\ current_proc' \in procs
           /\ \A p \in procs : proc_state'[p] = "ZOMBIE" <=> st[p] = "ZOMBIE"
           /\ current_proc' # current_proc => proc_state[current_proc'] # "ZOMBIE"
           /\ st[current_proc] = "ZOMBIE" => current_proc' # current_proc
<1>0. /\ procs \subseteq Pids /\ current_proc \in procs /\ idle_proc \in procs
      /\ current_proc \notin InLine(ready_queue)
      /\ proc_state[idle_proc] = "RUNNING"
      /\ \A p \in InLine(ready_queue) : p \in procs /\ proc_state[p] = "READY"
  BY DEF IInv, TypeOK, QueueSound, Queued, OnCPU, InLine
<1>1. CASE KeepsCPU(st, sl)
  BY <1>0, <1>1 DEF schedule, cpu, KeepsCPU
<1>2. CASE ~KeepsCPU(st, sl)
  <2> DEFINE prev == current_proc
             exp == Expired(st, sl)
             queue == Requeued(st, sl)
             next == current_proc'
  <2>1. Reschedule(st, sl)
    BY <1>2 DEF schedule
  <2>2. /\ queue \in Seq(procs) /\ Distinct(queue)
        /\ InLine(queue) = InLine(ready_queue) \cup (IF exp THEN {prev} ELSE {})
        /\ queue = <<>> => next = idle_proc
        /\ queue # <<>> => next = Head(queue)
    BY <1>2, <2>1, RescheduleMoves
  <2>3. /\ exp => st[prev] = "RUNNING"
        /\ exp => proc_state' = IF prev # next \/ queue = <<>>
                                THEN [[st EXCEPT ![prev] = "READY"] EXCEPT ![next] = "RUNNING"]
                                ELSE [st EXCEPT ![prev] = "READY"]
        /\ ~exp => proc_state' = IF prev # next \/ queue = <<>>
                                 THEN [st EXCEPT ![next] = "RUNNING"] ELSE st
    BY <2>1 DEF Reschedule, Enqueue, Requeued, Switch, Expired
  <2> HIDE DEF queue, exp
  <2>4. next \in InLine(queue) \/ next = idle_proc
    BY <2>2, TailDistinct
  <2>5. /\ next \in procs
        /\ next # prev => proc_state[next] # "ZOMBIE" /\ st[next] # "ZOMBIE"
        /\ next = prev => st[prev] # "ZOMBIE"
    BY <1>0, <2>2, <2>3, <2>4
  <2> HIDE DEF next
  <2>6. ASSUME NEW p \in procs PROVE proc_state'[p] = "ZOMBIE" <=> st[p] = "ZOMBIE"
    <3>1. CASE exp
      BY <1>0, <2>3, <2>5, <3>1
    <3>2. CASE ~exp
      BY <1>0, <2>3, <2>5, <3>2
    <3> QED BY <3>1, <3>2
  <2> QED BY <2>5, <2>6 DEF next
<1> QED BY <1>1, <1>2

\* Nobody is overtaken in the ready queue, and the CPU goes to its head.
THEOREM SchedulerNoOvertaking == Spec => NoOvertaking
<1>1. IInv /\ [Next]_vars =>
        [/\ \A p \in InLine(ready_queue) \cap InLine(ready_queue') :
              Position(ready_queue', p) <= Position(ready_queue, p)
         /\ (current_proc' # current_proc /\ ready_queue # <<>>) =>
              current_proc' = Head(ready_queue)]_vars
  BY StepAdvances DEF Advanced
<1> QED BY <1>1, SchedulerInvariant, PTL DEF Spec, NoOvertaking

\* The one way out of the scheduler is to run alone through a slice and yield.
THEOREM SchedulerLostOnlyByYield == Spec => LostOnlyByYield
<1>1. IInv /\ [Next]_vars =>
        [Lost' # Lost => /\ sys_yield
                         /\ proc_state[current_proc] = "READY"
                         /\ Lost' = Lost \cup {current_proc}]_vars
  BY StepLoses
<1> QED BY <1>1, SchedulerInvariant, PTL DEF Spec, LostOnlyByYield

-----------------------------------------------------------------------------
(* Context.                                                                *)

\* What a process that is not on the CPU has on its stack.  kmain is
\* interrupted by ticks only; a new process has its first context alone.
SavedFrames(p) ==
    IF p = idle_proc
    THEN {<<ContextFrame("kmain")>>}
           \cup {<<TrapFrame(r), ContextFrame("timer_callback")>> : r \in Registers}
    ELSE {<<ContextFrame("user_entry")>>}
           \cup {<<TrapFrame(r), ContextFrame(ret)>> :
                   r \in Registers,
                   ret \in {"timer_callback", "sys_yield", "sys_exit", "fork_ret_entry"}}

FramesSound ==
    ~dead => /\ kstack[current_proc] = <<>>
             /\ \A p \in procs \ {current_proc} :
                  /\ kstack[p] \in SavedFrames(p)
                  /\ context[p] = [stack |-> p, depth |-> Len(kstack[p])]

RegsSound ==
    /\ regs \in Registers
    /\ kstack = [s \in Stacks |-> kstack[s]]
    /\ context = [p \in Pids |-> context[p]]

CInv ==
    /\ IInv
    /\ RegsSound
    /\ FramesSound

-----------------------------------------------------------------------------
(* Stacks of one and two frames.                                           *)

LEMMA OneFrame ==
    ASSUME NEW a
    PROVE  /\ Len(<<a>>) = 1 /\ <<a>>[1] = a
           /\ Top(<<a>>) = a /\ Pop(<<a>>) = <<>>
           /\ Append(<<>>, a) = <<a>>
           /\ SubSeq(<<a>>, 1, 0) = <<>>
<1>1. Len(<<a>>) = 1 /\ <<a>>[1] = a
  OBVIOUS
<1>2. Append(<<>>, a) = <<a>>
  OBVIOUS
<1>3. SubSeq(<<a>>, 1, 0) = <<>>
  BY SubSeqEmpty
<1> QED BY <1>1, <1>2, <1>3 DEF Top, Pop

LEMMA TwoFrames ==
    ASSUME NEW a, NEW b
    PROVE  /\ Len(<<a, b>>) = 2 /\ <<a, b>>[2] = b
           /\ Top(<<a, b>>) = b
           /\ Append(<<a>>, b) = <<a, b>>
           /\ SubSeq(<<a, b>>, 1, 1) = <<a>>
<1>1. Len(<<a, b>>) = 2 /\ <<a, b>>[2] = b
  OBVIOUS
<1> DEFINE S == {a, b}
<1>0. <<a>> \in Seq(S) /\ <<a, b>> \in Seq(S) /\ Len(<<a>>) = 1
      /\ <<a>>[1] = a /\ <<a, b>>[1] = a
  OBVIOUS
<1>2. Append(<<a>>, b) = <<a, b>>
  <2>1. /\ Append(<<a>>, b) \in Seq(S) /\ Len(Append(<<a>>, b)) = 2
        /\ Append(<<a>>, b)[1] = a /\ Append(<<a>>, b)[2] = b
    BY <1>0, AppendProperties
  <2>2. \A i \in 1 .. 2 : Append(<<a>>, b)[i] = <<a, b>>[i]
    BY <1>0, <1>1, <2>1
  <2> HIDE DEF S
  <2> QED BY <1>0, <1>1, <2>1, <2>2, SeqEqual
<1>3. SubSeq(<<a, b>>, 1, 1) = <<a>>
  <2>1. \A i \in 1 .. 1 : <<a, b>>[i] \in S
    BY <1>0
  <2>2. /\ SubSeq(<<a, b>>, 1, 1) \in Seq(S) /\ Len(SubSeq(<<a, b>>, 1, 1)) = 1
        /\ SubSeq(<<a, b>>, 1, 1)[1] = a
    <3> HIDE DEF S
    <3> QED BY <1>0, <2>1, SubSeqProperties
  <2>3. \A i \in 1 .. 1 : SubSeq(<<a, b>>, 1, 1)[i] = <<a>>[i]
    BY <1>0, <2>2
  <2> HIDE DEF S
  <2> QED BY <1>0, <2>2, <2>3, SeqEqual
<1> QED BY <1>1, <1>2, <1>3 DEF Top

-----------------------------------------------------------------------------
(* Resuming what was saved.                                                *)

Ret(stack) == stack[Len(stack)].ret
Under(stack) == SubSeq(stack, 1, Len(stack) - 1)

\* An answer of a system call is a register value again.
LEMMA AnswerInRegisters ==
    ASSUME NEW r \in Registers, NEW v \in Pids \cup {-1, Other}
    PROVE  [r EXCEPT !.rax = v] \in Registers
BY DEF Registers

LEMMA SameRegisters ==
    ASSUME NEW r \in Registers, NEW q \in Registers, r.rip = q.rip, r.rax = q.rax
    PROVE  r = q
<1>1. r.intr = TRUE /\ q.intr = TRUE
  BY DEF Registers
<1>2. /\ r = [rip |-> r.rip, rax |-> r.rax, intr |-> r.intr]
      /\ q = [rip |-> q.rip, rax |-> q.rax, intr |-> q.intr]
  BY DEF Registers
<1> QED BY <1>1, <1>2, Zenon

LEMMA KnownRegisters ==
    /\ Fresh \in Registers /\ Boot \in Registers
    /\ [Boot EXCEPT !.rip = "loop"] \in Registers
    /\ 0 \in Pids
<1>1. Fresh \in Registers
  BY UserRipsAssumption DEF Registers, Fresh
<1>2. Boot \in Registers
  BY DEF Registers, Boot
<1>3. [Boot EXCEPT !.rip = "loop"] \in Registers
  BY <1>2 DEF Registers
<1>4. 0 \in Pids
  BY MaxPidAssumption DEF Pids
<1> QED BY <1>1, <1>2, <1>3, <1>4

\* What a context and the frame under it lead to, for each form of stack.
LEMMA TrapResumes ==
    ASSUME NEW r \in Registers,
           NEW ret \in {"timer_callback", "sys_yield", "sys_exit", "fork_ret_entry"}
    PROVE  /\ RegsAfter(ret, <<TrapFrame(r)>>) \in Registers
           /\ RegsAfter(ret, <<TrapFrame(r)>>) = IF ret = "sys_yield" THEN [r EXCEPT !.rax = 0] ELSE r
           /\ StackAfter(ret, <<TrapFrame(r)>>) = <<>>
<1>1. Top(<<TrapFrame(r)>>) = TrapFrame(r) /\ Pop(<<TrapFrame(r)>>) = <<>>
  BY OneFrame
<1>2. TrapFrame(r).regs = r
  BY DEF TrapFrame
<1>3. RegsAfter(ret, <<TrapFrame(r)>>) = IF ret = "sys_yield" THEN [r EXCEPT !.rax = 0] ELSE r
  BY <1>1, <1>2 DEF RegsAfter
<1>4. StackAfter(ret, <<TrapFrame(r)>>) = <<>>
  BY <1>1 DEF StackAfter
<1> QED BY <1>3, <1>4, AnswerInRegisters, KnownRegisters

LEMMA FramesResume ==
    ASSUME NEW p, NEW stack \in SavedFrames(p)
    PROVE  /\ Len(stack) \in {1, 2} /\ Top(stack).kind = "context"
           /\ RegsAfter(Ret(stack), Under(stack)) \in Registers
           /\ StackAfter(Ret(stack), Under(stack)) = <<>>
<1>1. ASSUME NEW ret \in {"kmain", "user_entry"}, stack = <<ContextFrame(ret)>>
      PROVE  /\ Len(stack) \in {1, 2} /\ Top(stack).kind = "context"
             /\ RegsAfter(Ret(stack), Under(stack)) \in Registers
             /\ StackAfter(Ret(stack), Under(stack)) = <<>>
  <2>1. /\ Len(stack) = 1 /\ stack[1] = ContextFrame(ret)
        /\ Top(stack) = ContextFrame(ret) /\ SubSeq(stack, 1, 0) = <<>>
    BY <1>1, OneFrame
  <2>2. Ret(stack) = ret /\ Under(stack) = <<>> /\ Top(stack).kind = "context"
    BY <2>1 DEF Ret, Under, ContextFrame
  <2>3. RegsAfter(ret, <<>>) \in Registers /\ StackAfter(ret, <<>>) = <<>>
    BY <1>1, KnownRegisters DEF RegsAfter, StackAfter
  <2> QED BY <2>1, <2>2, <2>3
<1>2. ASSUME NEW r \in Registers,
             NEW ret \in {"timer_callback", "sys_yield", "sys_exit", "fork_ret_entry"},
             stack = <<TrapFrame(r), ContextFrame(ret)>>
      PROVE  /\ Len(stack) \in {1, 2} /\ Top(stack).kind = "context"
             /\ RegsAfter(Ret(stack), Under(stack)) \in Registers
             /\ StackAfter(Ret(stack), Under(stack)) = <<>>
  <2>1. /\ Len(stack) = 2 /\ stack[2] = ContextFrame(ret)
        /\ Top(stack) = ContextFrame(ret) /\ SubSeq(stack, 1, 1) = <<TrapFrame(r)>>
    BY <1>2, TwoFrames
  <2>2. Ret(stack) = ret /\ Under(stack) = <<TrapFrame(r)>> /\ Top(stack).kind = "context"
    BY <2>1 DEF Ret, Under, ContextFrame
  <2>3. /\ RegsAfter(ret, <<TrapFrame(r)>>) \in Registers
        /\ StackAfter(ret, <<TrapFrame(r)>>) = <<>>
    BY TrapResumes
  <2> QED BY <2>1, <2>2, <2>3
<1>3. CASE p = idle_proc
  <2>1. \/ stack = <<ContextFrame("kmain")>>
        \/ \E r \in Registers : stack = <<TrapFrame(r), ContextFrame("timer_callback")>>
    BY <1>3 DEF SavedFrames
  <2>2. CASE stack = <<ContextFrame("kmain")>>
    BY <1>1, <2>2
  <2>3. CASE \E r \in Registers : stack = <<TrapFrame(r), ContextFrame("timer_callback")>>
    BY <1>2, <2>3, Zenon
  <2> QED BY <2>1, <2>2, <2>3
<1>4. CASE p # idle_proc
  <2>1. \/ stack = <<ContextFrame("user_entry")>>
        \/ \E r \in Registers, ret \in {"timer_callback", "sys_yield", "sys_exit", "fork_ret_entry"} :
              stack = <<TrapFrame(r), ContextFrame(ret)>>
    BY <1>4 DEF SavedFrames
  <2>2. CASE stack = <<ContextFrame("user_entry")>>
    BY <1>1, <2>2
  <2>3. CASE \E r \in Registers, ret \in {"timer_callback", "sys_yield", "sys_exit", "fork_ret_entry"} :
              stack = <<TrapFrame(r), ContextFrame(ret)>>
    BY <1>2, <2>3, Zenon
  <2> QED BY <2>1, <2>2, <2>3
<1> QED BY <1>3, <1>4

\* Whoever waits has registers to go on with.
LEMMA SavedSound ==
    ASSUME CInv, ~dead, NEW p \in procs \ {current_proc}
    PROVE  /\ Saved(p) = RegsAfter(Ret(kstack[p]), Under(kstack[p]))
           /\ Saved(p) \in Registers
<1>1. kstack[p] \in SavedFrames(p) /\ context[p] = [stack |-> p, depth |-> Len(kstack[p])]
  BY DEF CInv, FramesSound
<1>2. Saved(p) = RegsAfter(Ret(kstack[p]), Under(kstack[p]))
  BY <1>1 DEF Saved, Ret, Under
<1> QED BY <1>1, <1>2, FramesResume

\* The stack a trap uses is the process's own, and empty before it.
LEMMA EnteredIs ==
    ASSUME CInv, ~dead
    PROVE  /\ StackOf = current_proc
           /\ Entered = [kstack EXCEPT ![current_proc] = <<TrapFrame(regs)>>]
           /\ Entered[StackOf] = <<TrapFrame(regs)>>
           /\ Top(Entered[StackOf]).regs = regs
           /\ Pop(Entered[StackOf]) = <<>>
           /\ [Entered EXCEPT ![StackOf] = <<>>] = kstack
<1>1. /\ current_proc # idle_proc => tss = current_proc
      /\ current_proc \in Stacks
      /\ kstack[current_proc] = <<>> /\ kstack = [s \in Stacks |-> kstack[s]]
  BY DEF CInv, IInv, OwnContext, TypeOK, Stacks, FramesSound, RegsSound
<1>2. StackOf = current_proc
  BY <1>1 DEF StackOf
<1>3. Append(kstack[current_proc], TrapFrame(regs)) = <<TrapFrame(regs)>>
  BY <1>1, OneFrame
<1>4. Entered = [kstack EXCEPT ![current_proc] = <<TrapFrame(regs)>>]
  BY <1>2, <1>3 DEF Entered
<1>5. Entered[StackOf] = <<TrapFrame(regs)>>
  BY <1>1, <1>2, <1>4
<1>6. Top(Entered[StackOf]).regs = regs /\ Pop(Entered[StackOf]) = <<>>
  BY <1>5, OneFrame DEF TrapFrame
<1>7. [Entered EXCEPT ![StackOf] = <<>>] = kstack
  BY <1>1, <1>2, <1>4
<1> QED BY <1>2, <1>4, <1>5, <1>6, <1>7

-----------------------------------------------------------------------------
(* switch_to and the end of a handler, with every stack written out.       *)

\* prev keeps what it has on its stack with a context on top, next goes on
\* with what it had, and no other stack is touched.
LEMMA SwitchIs ==
    ASSUME CInv, ~dead, NEW ret, NEW under,
           current_proc' \in procs, current_proc' # current_proc,
           switch_to([kstack EXCEPT ![current_proc] = under], current_proc, ret)
    PROVE  /\ regs' = Saved(current_proc')
           /\ kstack' = [kstack EXCEPT ![current_proc] = Append(under, ContextFrame(ret)),
                                       ![current_proc'] = <<>>]
           /\ context' = [context EXCEPT ![current_proc] =
                            [stack |-> current_proc,
                             depth |-> Len(Append(under, ContextFrame(ret)))]]
<1> DEFINE frames == Append(under, ContextFrame(ret))
           stacks == [kstack EXCEPT ![current_proc] = under]
           prev == current_proc
           next == current_proc'
           pushed == [kstack EXCEPT ![prev] = frames]
<1>1. /\ prev \in Stacks /\ next \in Stacks /\ next # prev
      /\ kstack = [s \in Stacks |-> kstack[s]]
      /\ kstack[next] \in SavedFrames(next)
      /\ context[next] = [stack |-> next, depth |-> Len(kstack[next])]
  BY DEF CInv, IInv, TypeOK, Stacks, FramesSound, RegsSound
<1>2. [stacks EXCEPT ![prev] = Append(@, ContextFrame(ret))] = pushed
  BY <1>1
<1>3. pushed[prev] = frames /\ pushed[next] = kstack[next]
  BY <1>1
<1>4. context' = Saves(prev, pushed) /\ Resume(pushed, context[next])
  BY <1>2 DEF switch_to
<1> HIDE DEF pushed
<1>5. context' = [context EXCEPT ![prev] = [stack |-> prev, depth |-> Len(frames)]]
  BY <1>3, <1>4 DEF Saves
<1>6. /\ regs' = RegsAfter(Ret(pushed[next]), Under(pushed[next]))
      /\ kstack' = [pushed EXCEPT ![next] = StackAfter(Ret(pushed[next]), Under(pushed[next]))]
  <2>1. PICK f \in {pushed[context[next].stack][context[next].depth]},
             below \in {SubSeq(pushed[context[next].stack], 1, context[next].depth - 1)} :
                /\ regs' = RegsAfter(f.ret, below)
                /\ kstack' = [pushed EXCEPT ![context[next].stack] = StackAfter(f.ret, below)]
    <3> HIDE DEF next
    <3> QED BY <1>4, Zenon DEF Resume
  <2>2. context[next].stack = next /\ context[next].depth = Len(pushed[next])
    BY <1>1, <1>3
  <2> QED BY <2>1, <2>2 DEF Ret, Under
<1>7. /\ regs' = RegsAfter(Ret(kstack[next]), Under(kstack[next]))
      /\ kstack' = [pushed EXCEPT ![next] = StackAfter(Ret(kstack[next]), Under(kstack[next]))]
  BY <1>3, <1>6
<1>8. regs' = Saved(next)
  BY <1>1, <1>7, SavedSound
<1>9. kstack' = [pushed EXCEPT ![next] = <<>>]
  BY <1>1, <1>7, FramesResume
<1> QED BY <1>5, <1>8, <1>9 DEF pushed

\* The thread on the CPU leaves the kernel, or leaves these frames behind on
\* its stack for later and another thread goes on.
LeavesWith(frames) ==
    /\ frames \in SavedFrames(current_proc)
    /\ current_proc' = current_proc =>
         /\ regs' = RegsAfter(Ret(frames), Under(frames))
         /\ kstack' = kstack /\ context' = context
    /\ current_proc' # current_proc =>
         /\ regs' = Saved(current_proc')
         /\ kstack' = [kstack EXCEPT ![current_proc] = frames, ![current_proc'] = <<>>]
         /\ context' = [context EXCEPT ![current_proc] =
                          [stack |-> current_proc, depth |-> Len(frames)]]

\* A trap handler that may have called schedule() ends.
LEMMA LeaveTrap ==
    ASSUME CInv, ~dead, NEW ret \in {"timer_callback", "sys_yield", "sys_exit"},
           current_proc = idle_proc => ret = "timer_callback",
           current_proc' \in procs, Leave(Entered, StackOf, ret)
    PROVE  LeavesWith(<<TrapFrame(regs), ContextFrame(ret)>>)
<1> DEFINE frames == <<TrapFrame(regs), ContextFrame(ret)>>
<1>1. /\ StackOf = current_proc
      /\ Entered = [kstack EXCEPT ![current_proc] = <<TrapFrame(regs)>>]
      /\ Entered[StackOf] = <<TrapFrame(regs)>>
      /\ [Entered EXCEPT ![StackOf] = <<>>] = kstack
  BY EnteredIs
<1>2. regs \in Registers
  BY DEF CInv, RegsSound
<1>3. /\ Append(<<TrapFrame(regs)>>, ContextFrame(ret)) = frames
      /\ Ret(frames) = ret /\ Under(frames) = <<TrapFrame(regs)>>
  BY TwoFrames DEF Ret, Under, ContextFrame
<1>4. frames \in SavedFrames(current_proc)
  BY <1>2 DEF SavedFrames
<1> HIDE DEF frames
<1>5. ASSUME current_proc' = current_proc PROVE LeavesWith(frames)
  <2>1. /\ regs' = RegsAfter(ret, <<TrapFrame(regs)>>)
        /\ kstack' = [Entered EXCEPT ![StackOf] = StackAfter(ret, <<TrapFrame(regs)>>)]
        /\ context' = context
    BY <1>1, <1>5 DEF Leave
  <2>2. StackAfter(ret, <<TrapFrame(regs)>>) = <<>>
    BY <1>2, TrapResumes
  <2> QED BY <1>1, <1>3, <1>4, <1>5, <2>1, <2>2 DEF LeavesWith
<1>6. ASSUME current_proc' # current_proc PROVE LeavesWith(frames)
  <2>1. switch_to([kstack EXCEPT ![current_proc] = <<TrapFrame(regs)>>], current_proc, ret)
    BY <1>1, <1>6 DEF Leave
  <2>2. /\ regs' = Saved(current_proc')
        /\ kstack' = [kstack EXCEPT ![current_proc] = Append(<<TrapFrame(regs)>>, ContextFrame(ret)),
                                    ![current_proc'] = <<>>]
        /\ context' = [context EXCEPT ![current_proc] =
                         [stack |-> current_proc,
                          depth |-> Len(Append(<<TrapFrame(regs)>>, ContextFrame(ret)))]]
    BY <1>6, <2>1, SwitchIs
  <2> QED BY <1>3, <1>4, <1>6, <2>2 DEF LeavesWith
<1>7. LeavesWith(frames)
  BY <1>5, <1>6
<1> QED BY <1>7 DEF frames

\* kmain's own call of schedule(), which no trap frame lies under.
LEMMA LeaveKmain ==
    ASSUME CInv, ~dead, current_proc = idle_proc,
           current_proc' \in procs, Leave(kstack, idle_proc, "kmain")
    PROVE  LeavesWith(<<ContextFrame("kmain")>>)
<1> DEFINE frames == <<ContextFrame("kmain")>>
<1>1. /\ current_proc \in Stacks /\ kstack[current_proc] = <<>>
      /\ kstack = [s \in Stacks |-> kstack[s]]
  BY DEF CInv, IInv, TypeOK, Stacks, FramesSound, RegsSound
<1>2. [kstack EXCEPT ![current_proc] = <<>>] = kstack
  BY <1>1
<1>3. /\ Append(<<>>, ContextFrame("kmain")) = frames
      /\ Ret(frames) = "kmain" /\ Under(frames) = <<>>
  BY OneFrame DEF Ret, Under, ContextFrame
<1>4. frames \in SavedFrames(current_proc)
  BY DEF SavedFrames
<1> HIDE DEF frames
<1>5. ASSUME current_proc' = current_proc PROVE LeavesWith(frames)
  <2>1. /\ regs' = RegsAfter("kmain", <<>>) /\ context' = context
        /\ kstack' = [kstack EXCEPT ![current_proc] = StackAfter("kmain", <<>>)]
    BY <1>1, <1>5 DEF Leave
  <2>2. StackAfter("kmain", <<>>) = <<>>
    BY DEF StackAfter
  <2> QED BY <1>2, <1>3, <1>4, <1>5, <2>1, <2>2 DEF LeavesWith
<1>6. ASSUME current_proc' # current_proc PROVE LeavesWith(frames)
  <2>1. switch_to([kstack EXCEPT ![current_proc] = <<>>], current_proc, "kmain")
    BY <1>2, <1>6 DEF Leave
  <2>2. /\ regs' = Saved(current_proc')
        /\ kstack' = [kstack EXCEPT ![current_proc] = Append(<<>>, ContextFrame("kmain")),
                                    ![current_proc'] = <<>>]
        /\ context' = [context EXCEPT ![current_proc] =
                         [stack |-> current_proc,
                          depth |-> Len(Append(<<>>, ContextFrame("kmain")))]]
    BY <1>6, <2>1, SwitchIs
  <2> QED BY <1>3, <1>4, <1>6, <2>2 DEF LeavesWith
<1>7. LeavesWith(frames)
  BY <1>5, <1>6
<1> QED BY <1>7 DEF frames

-----------------------------------------------------------------------------
(* What each kind of step does to the frames and to the threads.           *)

\* A waiting thread whose frames are left alone keeps its registers.
LEMMA SavedKept ==
    ASSUME NEW p, context[p] = [stack |-> p, depth |-> Len(kstack[p])],
           context'[p] = context[p], kstack'[p] = kstack[p]
    PROVE  Saved(p)' = Saved(p)
BY DEF Saved

\* After a step that may have switched: the stacks are in order again, the
\* others' registers are what they were, and the thread that had the CPU has
\* the ones its frames lead to, unless it ended.
LEMMA LeavesSound ==
    ASSUME CInv, ~dead, procs' = procs, dead' = dead, current_proc' \in procs,
           NEW frames, LeavesWith(frames)
    PROVE  RegsSound' /\ FramesSound'
<1> DEFINE prev == current_proc
           next == current_proc'
<1>1. /\ procs \subseteq Pids /\ procs \subseteq Stacks
      /\ prev \in procs /\ regs \in Registers
      /\ kstack = [s \in Stacks |-> kstack[s]] /\ context = [p \in Pids |-> context[p]]
      /\ kstack[prev] = <<>>
      /\ \A p \in procs \ {prev} : /\ kstack[p] \in SavedFrames(p)
                                     /\ context[p] = [stack |-> p, depth |-> Len(kstack[p])]
  BY DEF CInv, IInv, TypeOK, Stacks, FramesSound, RegsSound
<1>2. frames \in SavedFrames(prev)
  BY DEF LeavesWith
<1>3. CASE next = prev
  <2>1. regs' \in Registers
    BY <1>2, <1>3, FramesResume DEF LeavesWith
  <2> QED BY <1>1, <1>3, <2>1 DEF LeavesWith, RegsSound, FramesSound
<1>4. CASE next # prev
  <2>1. /\ regs' = Saved(next)
        /\ kstack' = [kstack EXCEPT ![prev] = frames, ![next] = <<>>]
        /\ context' = [context EXCEPT ![prev] = [stack |-> prev, depth |-> Len(frames)]]
    BY <1>4 DEF LeavesWith
  <2>2. regs' \in Registers
    BY <1>1, <1>4, <2>1, SavedSound
  <2>3. RegsSound'
    BY <1>1, <2>1, <2>2 DEF RegsSound
  <2>4. kstack'[next] = <<>>
    BY <1>1, <2>1
  <2>5. ASSUME NEW p \in procs \ {next}
        PROVE  /\ kstack'[p] \in SavedFrames(p)
               /\ context'[p] = [stack |-> p, depth |-> Len(kstack'[p])]
    <3>1. CASE p = prev
      BY <1>1, <1>2, <1>4, <2>1, <3>1
    <3>2. CASE p # prev
      BY <1>1, <2>1, <3>2
    <3> QED BY <3>1, <3>2
  <2> QED BY <1>1, <2>3, <2>4, <2>5 DEF FramesSound
<1> QED BY <1>3, <1>4

LEMMA LeavesThreads ==
    ASSUME CInv, ~dead, procs' = procs, dead' = dead, current_proc' \in procs,
           NEW frames, LeavesWith(frames),
           \A p \in procs \ {current_proc} :
               proc_state'[p] = "ZOMBIE" <=> proc_state[p] = "ZOMBIE",
           current_proc' # current_proc => proc_state[current_proc'] # "ZOMBIE",
           proc_state'[current_proc] = "ZOMBIE" => current_proc' # current_proc
    PROVE  \A p \in Pids :
             ThreadOf(p)' = IF p # current_proc THEN ThreadOf(p)
                            ELSE IF proc_state'[p] = "ZOMBIE" THEN Gone
                            ELSE RegsAfter(Ret(frames), Under(frames))
<1> DEFINE prev == current_proc
           next == current_proc'
<1>1. /\ procs \subseteq Pids /\ procs \subseteq Stacks /\ prev \in procs
      /\ kstack = [s \in Stacks |-> kstack[s]] /\ context = [p \in Pids |-> context[p]]
      /\ \A p \in procs \ {prev} : context[p] = [stack |-> p, depth |-> Len(kstack[p])]
  BY DEF CInv, IInv, TypeOK, Stacks, FramesSound, RegsSound
<1>2. ASSUME NEW p \in procs \ {prev, next}
      PROVE  /\ context'[p] = context[p] /\ kstack'[p] = kstack[p]
             /\ Saved(p)' = Saved(p)
  <2>1. context'[p] = context[p] /\ kstack'[p] = kstack[p]
    BY <1>1 DEF LeavesWith
  <2> QED BY <1>1, <2>1, SavedKept
<1>3. ASSUME NEW p \in Pids \ {prev} PROVE ThreadOf(p)' = ThreadOf(p)
  <2>1. CASE p \notin procs
    BY <2>1 DEF ThreadOf, NotYet, Other
  <2>2. CASE p \in procs /\ p = next
    BY <2>2 DEF ThreadOf, LeavesWith
  <2>3. CASE p \in procs /\ p # next
    <3>1. Saved(p)' = Saved(p)
      BY <1>2, <2>3
    <3>2. ThreadOf(p) = IF proc_state[p] = "ZOMBIE" THEN Gone ELSE Saved(p)
      BY <2>3 DEF ThreadOf
    <3>3. ThreadOf(p)' = IF proc_state'[p] = "ZOMBIE" THEN Gone ELSE Saved(p)'
      BY <2>3 DEF ThreadOf, Gone
    <3> QED BY <2>3, <3>1, <3>2, <3>3
  <2> QED BY <2>1, <2>2, <2>3
<1>4. ASSUME NEW p \in Pids, p = prev
      PROVE  ThreadOf(p)' = IF proc_state'[p] = "ZOMBIE" THEN Gone
                            ELSE RegsAfter(Ret(frames), Under(frames))
  <2>1. CASE next = prev
    BY <1>1, <1>4, <2>1 DEF ThreadOf, LeavesWith
  <2>2. CASE next # prev
    <3>1. kstack'[p] = frames /\ context'[p] = [stack |-> p, depth |-> Len(frames)]
      BY <1>1, <1>4, <2>2 DEF LeavesWith
    <3>2. Saved(p)' = RegsAfter(Ret(frames), Under(frames))
      BY <3>1 DEF Saved, Ret, Under
    <3>3. ThreadOf(p)' = IF proc_state'[p] = "ZOMBIE" THEN Gone ELSE Saved(p)'
      BY <1>1, <1>4, <2>2 DEF ThreadOf, Gone
    <3> QED BY <3>2, <3>3
  <2> QED BY <2>1, <2>2
<1> QED BY <1>3, <1>4

\* After a step without schedule(): who waited keeps its registers.
LEMMA StaysThreads ==
    ASSUME CInv, ~dead, current_proc' = current_proc, procs \subseteq procs',
           \A p \in procs : proc_state'[p] = proc_state[p],
           \A p \in procs \ {current_proc} : kstack'[p] = kstack[p] /\ context'[p] = context[p]
    PROVE  \A p \in Pids :
             p \notin procs' \ procs =>
                ThreadOf(p)' = IF p = current_proc THEN regs' ELSE ThreadOf(p)
<1>1. /\ current_proc \in procs
      /\ \A p \in procs \ {current_proc} : context[p] = [stack |-> p, depth |-> Len(kstack[p])]
  BY DEF CInv, IInv, TypeOK, FramesSound
<1>2. ASSUME NEW p \in Pids, p = current_proc PROVE ThreadOf(p)' = regs'
  BY <1>1, <1>2 DEF ThreadOf
<1>3. ASSUME NEW p \in Pids \ {current_proc}, p \notin procs' \ procs
      PROVE  ThreadOf(p)' = ThreadOf(p)
  <2>1. CASE p \notin procs
    BY <1>3, <2>1 DEF ThreadOf, NotYet, Other
  <2>2. CASE p \in procs
    <3>1. Saved(p)' = Saved(p)
      BY <1>1, <2>2, SavedKept
    <3>2. ThreadOf(p) = IF proc_state[p] = "ZOMBIE" THEN Gone ELSE Saved(p)
      BY <2>2 DEF ThreadOf
    <3>3. ThreadOf(p)' = IF proc_state'[p] = "ZOMBIE" THEN Gone ELSE Saved(p)'
      BY <2>2 DEF ThreadOf, Gone
    <3> QED BY <2>2, <3>1, <3>2, <3>3
  <2> QED BY <2>1, <2>2
<1> QED BY <1>2, <1>3

\* A step that changes registers of the current thread only, its stack empty
\* again or the kernel dead.
LEMMA StaysSound ==
    ASSUME CInv, ~dead, UNCHANGED <<procs, current_proc, context>>, regs' \in Registers,
           \/ kstack' = kstack
           \/ dead' /\ kstack' = Entered
    PROVE  RegsSound' /\ FramesSound'
<1>1. CASE kstack' = kstack
  BY <1>1 DEF CInv, RegsSound, FramesSound
<1>2. CASE dead' /\ kstack' = Entered
  <2>1. kstack' = [s \in Stacks |-> kstack'[s]]
    BY <1>2, EnteredIs DEF CInv, RegsSound
  <2> QED BY <1>2, <2>1 DEF CInv, RegsSound, FramesSound
<1> QED BY <1>1, <1>2

\* A new process p gets its first frames.
LEMMA CreatesSound ==
    ASSUME CInv, ~dead, UNCHANGED <<current_proc, dead>>, NEW p \in Pids \ procs,
           procs' = procs \cup {p}, p # idle_proc, regs' \in Registers,
           NEW frames \in SavedFrames(p),
           kstack' = [kstack EXCEPT ![p] = frames],
           context' = [context EXCEPT ![p] = [stack |-> p, depth |-> Len(frames)]]
    PROVE  RegsSound' /\ FramesSound'
<1>1. /\ procs \subseteq Pids /\ p \in Stacks /\ current_proc \in procs
      /\ kstack = [s \in Stacks |-> kstack[s]] /\ context = [q \in Pids |-> context[q]]
      /\ kstack[current_proc] = <<>>
      /\ \A q \in procs \ {current_proc} : /\ kstack[q] \in SavedFrames(q)
                                     /\ context[q] = [stack |-> q, depth |-> Len(kstack[q])]
  BY DEF CInv, IInv, TypeOK, Stacks, FramesSound, RegsSound
<1>2. RegsSound'
  BY <1>1 DEF RegsSound
<1>3. kstack'[current_proc] = <<>>
  BY <1>1
<1>4. ASSUME NEW q \in procs' \ {current_proc}
      PROVE  /\ kstack'[q] \in SavedFrames(q)
             /\ context'[q] = [stack |-> q, depth |-> Len(kstack'[q])]
  <2>1. CASE q = p
    BY <1>1, <2>1
  <2>2. CASE q # p
    <3>1. q \in procs \ {current_proc} /\ q \in Stacks /\ q \in Pids
      BY <1>1, <2>2 DEF Stacks
    <3>2. kstack'[q] = kstack[q] /\ context'[q] = context[q]
      BY <1>1, <2>2, <3>1
    <3> QED BY <1>1, <3>1, <3>2
  <2> QED BY <2>1, <2>2
<1> QED BY <1>2, <1>3, <1>4 DEF FramesSound

-----------------------------------------------------------------------------
(* The actions, one by one.                                                *)

\* Registers and stacks apart, every step is one of the scheduler's.
LEMMA StepIsScheduled == [CNext]_cvars => [Next]_vars
<1> SUFFICES ASSUME [CNext]_cvars PROVE [Next]_vars
  OBVIOUS
<1>1. CASE TimerInterrupt \/ YieldCall \/ ExitCall \/ KmainSchedules
  BY <1>1 DEF TimerInterrupt, YieldCall, ExitCall, KmainSchedules, Next
<1>2. CASE ForkCall \/ ForkCallFails \/ ForkCallNoPcb
  BY <1>2 DEF ForkCall, ForkCallFails, ForkCallNoPcb, Next
<1>3. CASE ExecveCall \/ OtherCall \/ UserStep
  BY <1>3 DEF ExecveCall, OtherCall, UserStep
<1>4. CASE Fault
  BY <1>4 DEF Fault, Next, sys_fork_no_pcb, PcbFault
<1>5. CASE CreateInit \/ CreateInitFails \/ CreateInitNoPcb
  BY <1>5 DEF CreateInit, CreateInitFails, CreateInitNoPcb, Next
<1>6. CASE Stopped \/ UNCHANGED cvars
  BY <1>6 DEF Stopped, cvars
<1> QED BY <1>1, <1>2, <1>3, <1>4, <1>5, <1>6 DEF CNext

\* A tick: nobody's registers change.
LEMMA TickStep ==
    ASSUME CInv, TimerInterrupt
    PROVE  CInv' /\ \A p \in Pids : ThreadOf(p)' = ThreadOf(p)
<1> DEFINE frames == <<TrapFrame(regs), ContextFrame("timer_callback")>>
           sl == [time_slice EXCEPT ![current_proc] = @ - 1]
<1>1. /\ ~dead /\ procs' = procs /\ dead' = dead /\ IInv
      /\ timer_callback /\ Leave(Entered, StackOf, "timer_callback")
  BY DEF TimerInterrupt, timer_callback, CInv
<1>2. IInv'
  BY <1>1, NextIInv DEF Next
<1>3. current_proc' \in procs
  BY <1>1, <1>2 DEF IInv, TypeOK
<1>4. /\ current_proc \in procs /\ procs \subseteq Pids /\ regs \in Registers
      /\ proc_state \in [Pids -> States] /\ proc_state[idle_proc] = "RUNNING"
      /\ proc_state[current_proc] # "ZOMBIE"
  BY DEF CInv, IInv, TypeOK, States, OnCPU, RegsSound
<1>5. /\ \A p \in procs : proc_state'[p] = "ZOMBIE" <=> proc_state[p] = "ZOMBIE"
      /\ current_proc' # current_proc => proc_state[current_proc'] # "ZOMBIE"
  <2>1. CASE schedule(proc_state, sl)
    BY <1>1, <1>4, <2>1, ScheduleZombies
  <2>2. CASE ~schedule(proc_state, sl)
    BY <1>1, <2>2 DEF timer_callback, cpu
  <2> QED BY <2>1, <2>2
<1>6. LeavesWith(frames)
  BY <1>1, <1>3, LeaveTrap
<1>7. /\ Ret(frames) = "timer_callback" /\ Under(frames) = <<TrapFrame(regs)>>
      /\ RegsAfter("timer_callback", <<TrapFrame(regs)>>) = regs
  <2>1. RegsAfter("timer_callback", <<TrapFrame(regs)>>) = regs
    BY <1>4, TrapResumes
  <2> QED BY <2>1, TwoFrames DEF Ret, Under, ContextFrame
<1> HIDE DEF frames
<1>8. CInv'
  BY <1>1, <1>2, <1>3, <1>6, LeavesSound DEF CInv
<1>9. \A p \in Pids : ThreadOf(p)' = IF p # current_proc THEN ThreadOf(p)
                                     ELSE IF proc_state'[p] = "ZOMBIE" THEN Gone
                                     ELSE RegsAfter(Ret(frames), Under(frames))
  BY <1>1, <1>3, <1>4, <1>5, <1>6, LeavesThreads
<1>10. \A p \in Pids : p = current_proc => ThreadOf(p) = regs
  BY <1>4 DEF ThreadOf
<1> QED BY <1>4, <1>5, <1>7, <1>8, <1>9, <1>10

\* sys_yield: the caller's answer is 0, now or when it gets the CPU back.
LEMMA YieldStep ==
    ASSUME CInv, YieldCall
    PROVE  /\ CInv'
           /\ \A p \in Pids : ThreadOf(p)' = IF p # current_proc THEN ThreadOf(p)
                                              ELSE [regs EXCEPT !.rax = 0]
<1> DEFINE frames == <<TrapFrame(regs), ContextFrame("sys_yield")>>
<1>1. /\ ~dead /\ procs' = procs /\ dead' = dead /\ IInv /\ current_proc # idle_proc
      /\ sys_yield /\ Leave(Entered, StackOf, "sys_yield")
      /\ schedule(proc_state, time_slice)
  BY DEF YieldCall, sys_yield, InUserMode, CInv
<1>2. IInv'
  BY <1>1, NextIInv DEF Next
<1>3. current_proc' \in procs
  BY <1>1, <1>2 DEF IInv, TypeOK
<1>4. /\ current_proc \in procs /\ procs \subseteq Pids /\ regs \in Registers
      /\ proc_state \in [Pids -> States] /\ proc_state[idle_proc] = "RUNNING"
      /\ proc_state[current_proc] # "ZOMBIE"
  BY DEF CInv, IInv, TypeOK, States, OnCPU, RegsSound
<1>5. /\ \A p \in procs : proc_state'[p] = "ZOMBIE" <=> proc_state[p] = "ZOMBIE"
      /\ current_proc' # current_proc => proc_state[current_proc'] # "ZOMBIE"
  BY <1>1, <1>4, ScheduleZombies
<1>6. LeavesWith(frames)
  BY <1>1, <1>3, LeaveTrap
<1>7. /\ Ret(frames) = "sys_yield" /\ Under(frames) = <<TrapFrame(regs)>>
      /\ RegsAfter("sys_yield", <<TrapFrame(regs)>>) = [regs EXCEPT !.rax = 0]
  BY <1>4, TwoFrames, TrapResumes DEF Ret, Under, ContextFrame
<1> HIDE DEF frames
<1>8. CInv'
  BY <1>1, <1>2, <1>3, <1>6, LeavesSound DEF CInv
<1>9. \A p \in Pids : ThreadOf(p)' = IF p # current_proc THEN ThreadOf(p)
                                     ELSE IF proc_state'[p] = "ZOMBIE" THEN Gone
                                     ELSE RegsAfter(Ret(frames), Under(frames))
  BY <1>1, <1>3, <1>4, <1>5, <1>6, LeavesThreads
<1> QED BY <1>4, <1>5, <1>7, <1>8, <1>9

\* sys_exit: the caller is gone; schedule() does not come back to it.
LEMMA ExitStep ==
    ASSUME CInv, ExitCall
    PROVE  /\ CInv'
           /\ \A p \in Pids : ThreadOf(p)' = IF p # current_proc THEN ThreadOf(p) ELSE Gone
<1> DEFINE frames == <<TrapFrame(regs), ContextFrame("sys_exit")>>
           st == [proc_state EXCEPT ![current_proc] = "ZOMBIE"]
<1>1. /\ ~dead /\ procs' = procs /\ dead' = dead /\ IInv /\ current_proc # idle_proc
      /\ sys_exit /\ Leave(Entered, StackOf, "sys_exit")
      /\ schedule(st, time_slice)
  BY DEF ExitCall, sys_exit, InUserMode, CInv
<1>2. IInv'
  BY <1>1, NextIInv DEF Next
<1>3. current_proc' \in procs
  BY <1>1, <1>2 DEF IInv, TypeOK
<1>4. /\ current_proc \in procs /\ procs \subseteq Pids /\ regs \in Registers
      /\ proc_state \in [Pids -> States] /\ proc_state[idle_proc] = "RUNNING"
  BY DEF CInv, IInv, TypeOK, States, OnCPU, RegsSound
<1>5. /\ st \in [Pids -> States] /\ st[idle_proc] = "RUNNING" /\ st[current_proc] = "ZOMBIE"
      /\ \A p \in Pids \ {current_proc} : st[p] = proc_state[p]
  BY <1>1, <1>4 DEF States
<1> HIDE DEF st
<1>6. /\ \A p \in procs : proc_state'[p] = "ZOMBIE" <=> st[p] = "ZOMBIE"
      /\ current_proc' # current_proc /\ proc_state[current_proc'] # "ZOMBIE"
  BY <1>1, <1>5, ScheduleZombies
<1>7. /\ proc_state'[current_proc] = "ZOMBIE"
      /\ \A p \in procs \ {current_proc} :
           proc_state'[p] = "ZOMBIE" <=> proc_state[p] = "ZOMBIE"
  BY <1>4, <1>5, <1>6
<1>8. LeavesWith(frames)
  BY <1>1, <1>3, LeaveTrap
<1> HIDE DEF frames
<1>9. CInv'
  BY <1>1, <1>2, <1>3, <1>8, LeavesSound DEF CInv
<1>10. \A p \in Pids : ThreadOf(p)' = IF p # current_proc THEN ThreadOf(p)
                                      ELSE IF proc_state'[p] = "ZOMBIE" THEN Gone
                                      ELSE RegsAfter(Ret(frames), Under(frames))
  BY <1>1, <1>3, <1>6, <1>7, <1>8, LeavesThreads
<1> QED BY <1>7, <1>9, <1>10

\* kmain calls schedule() and, once it is back, enters its loop.
LEMMA KmainStep ==
    ASSUME CInv, KmainSchedules
    PROVE  /\ CInv'
           /\ \A p \in Pids : ThreadOf(p)' = IF p # current_proc THEN ThreadOf(p)
                                              ELSE [Boot EXCEPT !.rip = "loop"]
<1> DEFINE frames == <<ContextFrame("kmain")>>
<1>1. /\ ~dead /\ procs' = procs /\ dead' = dead /\ IInv /\ current_proc = idle_proc
      /\ kmain_schedule /\ Leave(kstack, idle_proc, "kmain")
      /\ schedule(proc_state, time_slice)
  BY DEF KmainSchedules, kmain_schedule, IdleRuns, CInv
<1>2. IInv'
  BY <1>1, NextIInv DEF Next
<1>3. current_proc' \in procs
  BY <1>1, <1>2 DEF IInv, TypeOK
<1>4. /\ current_proc \in procs /\ procs \subseteq Pids
      /\ proc_state \in [Pids -> States] /\ proc_state[idle_proc] = "RUNNING"
  BY DEF CInv, IInv, TypeOK, States, OnCPU
<1>5. /\ \A p \in procs : proc_state'[p] = "ZOMBIE" <=> proc_state[p] = "ZOMBIE"
      /\ current_proc' # current_proc => proc_state[current_proc'] # "ZOMBIE"
  BY <1>1, <1>4, ScheduleZombies
<1>6. LeavesWith(frames)
  BY <1>1, <1>3, LeaveKmain
<1>7. RegsAfter(Ret(frames), Under(frames)) = [Boot EXCEPT !.rip = "loop"]
  BY OneFrame DEF Ret, Under, ContextFrame, RegsAfter
<1> HIDE DEF frames
<1>8. CInv'
  BY <1>1, <1>2, <1>3, <1>6, LeavesSound DEF CInv
<1>9. \A p \in Pids : ThreadOf(p)' = IF p # current_proc THEN ThreadOf(p)
                                     ELSE IF proc_state'[p] = "ZOMBIE" THEN Gone
                                     ELSE RegsAfter(Ret(frames), Under(frames))
  BY <1>1, <1>3, <1>4, <1>5, <1>6, LeavesThreads
<1> QED BY <1>1, <1>4, <1>5, <1>7, <1>8, <1>9

\* A step of the current thread that changes its registers only.
LEMMA RegsStep ==
    ASSUME CInv, [CNext]_cvars, ~dead,
           UNCHANGED <<procs, proc_state, current_proc, context>>, regs' \in Registers,
           \/ kstack' = kstack
           \/ dead' /\ kstack' = Entered
    PROVE  /\ CInv'
           /\ \A p \in Pids : ThreadOf(p)' = IF p # current_proc THEN ThreadOf(p) ELSE regs'
<1>1. IInv'
  BY StepIsScheduled, NextIInv DEF CInv
<1>2. \A p \in procs \ {current_proc} : kstack'[p] = kstack[p] /\ context'[p] = context[p]
  <2>1. CASE kstack' = kstack
    BY <2>1
  <2>2. CASE kstack' = Entered
    <3>1. /\ kstack' = [kstack EXCEPT ![current_proc] = <<TrapFrame(regs)>>]
          /\ kstack = [s \in Stacks |-> kstack[s]]
          /\ procs \subseteq Stacks
      BY <2>2, EnteredIs DEF CInv, RegsSound, IInv, TypeOK, Stacks
    <3> QED BY <3>1
  <2> QED BY <2>1, <2>2
<1>3. \A p \in Pids : p \notin procs' \ procs =>
        ThreadOf(p)' = IF p = current_proc THEN regs' ELSE ThreadOf(p)
  BY <1>2, StaysThreads
<1>4. CInv'
  BY <1>1, StaysSound DEF CInv
<1> QED BY <1>3, <1>4

\* A system call that answers at once.
LEMMA AnswersIs ==
    ASSUME CInv, ~dead, NEW v \in Pids \cup {-1}, Answers(v)
    PROVE  regs' = [regs EXCEPT !.rax = v] /\ regs' \in Registers /\ kstack' = kstack
<1>1. regs' = [regs EXCEPT !.rax = v] /\ kstack' = kstack
  BY EnteredIs DEF Answers
<1>2. regs \in Registers
  BY DEF CInv, RegsSound
<1> QED BY <1>1, <1>2, AnswerInRegisters

\* fork: the child starts with the parent's registers and the answer 0.
LEMMA ForkStep ==
    ASSUME CInv, ForkCall
    PROVE  /\ CInv'
           /\ next_pid \in Pids \ procs
           /\ \A p \in Pids :
                ThreadOf(p)' = IF p = next_pid THEN [regs EXCEPT !.rax = 0]
                               ELSE IF p # current_proc THEN ThreadOf(p)
                               ELSE [regs EXCEPT !.rax = next_pid]
<1> DEFINE new == next_pid
           child == [regs EXCEPT !.rax = 0]
           frames == <<TrapFrame(child), ContextFrame("fork_ret_entry")>>
<1>1. /\ ~dead /\ dead' = dead /\ IInv /\ current_proc' = current_proc
      /\ sys_fork /\ procs' = procs \cup {new}
      /\ proc_state' = [proc_state EXCEPT ![new] = "READY"]
      /\ new <= MaxPid
  BY DEF ForkCall, sys_fork, InUserMode, NewProcess, cpu, CInv
<1>2. IInv'
  BY <1>1, NextIInv DEF Next
<1>3. /\ new \in Pids \ procs /\ new # idle_proc /\ new # current_proc
      /\ current_proc \in procs /\ procs \subseteq Pids /\ regs \in Registers
      /\ new \in Stacks /\ current_proc \in Stacks
      /\ kstack = [s \in Stacks |-> kstack[s]] /\ context = [q \in Pids |-> context[q]]
      /\ proc_state \in [Pids -> States]
  BY <1>1 DEF CInv, IInv, TypeOK, PidsFresh, RegsSound, Pids, idle_proc, Stacks, States
<1>4. child \in Registers /\ [regs EXCEPT !.rax = new] \in Registers
  BY <1>3, AnswerInRegisters, KnownRegisters
<1>5. /\ regs' = [regs EXCEPT !.rax = new]
      /\ kstack' = [kstack EXCEPT ![new] = frames]
      /\ context' = [context EXCEPT ![new] = [stack |-> new, depth |-> 2]]
  <2>1. /\ StackOf = current_proc
        /\ Entered = [kstack EXCEPT ![current_proc] = <<TrapFrame(regs)>>]
        /\ Entered[StackOf] = <<TrapFrame(regs)>>
        /\ Top(Entered[StackOf]).regs = regs
        /\ Pop(Entered[StackOf]) = <<>>
        /\ [Entered EXCEPT ![StackOf] = <<>>] = kstack
    BY <1>1, EnteredIs
  <2>2. /\ regs' = [regs EXCEPT !.rax = new]
        /\ context' = [context EXCEPT ![new] = [stack |-> new, depth |-> 2]]
    BY <2>1 DEF ForkCall
  <2>3. ForkFrame(Top(Entered[StackOf])) = TrapFrame(child)
    BY <2>1 DEF ForkFrame
  <2>4. kstack' = [[Entered EXCEPT ![StackOf] = Pop(Entered[StackOf])] EXCEPT
                     ![new] = <<ForkFrame(Top(Entered[StackOf])), ContextFrame("fork_ret_entry")>>]
    BY DEF ForkCall
  <2> QED BY <2>1, <2>2, <2>3, <2>4
<1>6. Len(frames) = 2 /\ frames \in SavedFrames(new)
  BY <1>3, <1>4, TwoFrames DEF SavedFrames
<1>7. RegsAfter(Ret(frames), Under(frames)) = child
  <2>1. Ret(frames) = "fork_ret_entry" /\ Under(frames) = <<TrapFrame(child)>>
    <3>1. /\ Len(frames) = 2 /\ frames[2] = ContextFrame("fork_ret_entry")
          /\ SubSeq(frames, 1, 1) = <<TrapFrame(child)>>
      BY TwoFrames
    <3> HIDE DEF frames
    <3> QED BY <3>1 DEF Ret, Under, ContextFrame
  <2>2. RegsAfter("fork_ret_entry", <<TrapFrame(child)>>) = child
    BY <1>4, TrapResumes
  <2> QED BY <2>1, <2>2
<1> HIDE DEF frames, child
<1>8. RegsSound' /\ FramesSound'
  BY <1>1, <1>3, <1>4, <1>5, <1>6, CreatesSound
<1>9. \A p \in procs \ {current_proc} : kstack'[p] = kstack[p] /\ context'[p] = context[p]
  BY <1>3, <1>5 DEF Stacks
<1>10. \A p \in Pids : p \notin procs' \ procs =>
         ThreadOf(p)' = IF p = current_proc THEN regs' ELSE ThreadOf(p)
  BY <1>1, <1>3, <1>9, StaysThreads
<1>11. ASSUME NEW p \in Pids, p = new PROVE ThreadOf(p)' = child
  <2>1. kstack'[p] = frames /\ context'[p] = [stack |-> p, depth |-> Len(frames)]
    BY <1>3, <1>5, <1>6, <1>11
  <2>2. Saved(p)' = RegsAfter(Ret(frames), Under(frames))
    BY <2>1 DEF Saved, Ret, Under
  <2>3. proc_state'[p] # "ZOMBIE"
    BY <1>1, <1>3, <1>11
  <2> QED BY <1>1, <1>3, <1>7, <1>11, <2>2, <2>3 DEF ThreadOf
<1>12. CInv'
  BY <1>2, <1>8 DEF CInv
<1>13. ASSUME NEW p \in Pids
       PROVE  ThreadOf(p)' = IF p = new THEN child
                             ELSE IF p # current_proc THEN ThreadOf(p)
                             ELSE [regs EXCEPT !.rax = new]
  BY <1>1, <1>3, <1>5, <1>10, <1>11
<1> QED BY <1>3, <1>12, <1>13 DEF child

\* kmain creates init, which starts at its entry point.
LEMMA CreateInitStep ==
    ASSUME CInv, CreateInit
    PROVE  /\ CInv'
           /\ next_pid \in Pids \ procs
           /\ regs' \in Registers
           /\ \A p \in Pids :
                ThreadOf(p)' = IF p = next_pid THEN Fresh
                               ELSE IF p # current_proc THEN ThreadOf(p) ELSE regs'
<1> DEFINE new == next_pid
           frames == <<ContextFrame("user_entry")>>
<1>1. /\ ~dead /\ dead' = dead /\ IInv /\ current_proc' = current_proc
      /\ init_userproc /\ procs' = procs \cup {new}
      /\ proc_state' = [proc_state EXCEPT ![new] = "READY"]
      /\ kmain = "init"
      /\ regs' = [regs EXCEPT !.rip = "schedule"]
      /\ kstack' = [kstack EXCEPT ![new] = frames]
      /\ context' = [context EXCEPT ![new] = [stack |-> new, depth |-> 1]]
  BY DEF CreateInit, init_userproc, IdleRuns, NewProcess, cpu, CInv
<1>2. IInv'
  BY <1>1, NextIInv DEF Next
<1>3. /\ new \in Pids \ procs /\ new # idle_proc /\ new # current_proc
      /\ current_proc \in procs /\ procs \subseteq Pids /\ regs \in Registers
      /\ new \in Stacks /\ current_proc \in Stacks
      /\ kstack = [s \in Stacks |-> kstack[s]] /\ context = [q \in Pids |-> context[q]]
      /\ proc_state \in [Pids -> States]
  BY <1>1, MaxPidAssumption DEF CInv, IInv, TypeOK, PidsFresh, BeforeInit, RegsSound, Pids, idle_proc, Stacks, States
<1>4. regs' \in Registers
  BY <1>1, <1>3 DEF Registers
<1>5. Len(frames) = 1 /\ frames \in SavedFrames(new)
  BY <1>3, OneFrame DEF SavedFrames
<1>6. RegsAfter(Ret(frames), Under(frames)) = Fresh
  BY OneFrame DEF Ret, Under, ContextFrame, RegsAfter
<1> HIDE DEF frames
<1>7. RegsSound' /\ FramesSound'
  BY <1>1, <1>3, <1>4, <1>5, CreatesSound
<1>8. \A p \in procs \ {current_proc} : kstack'[p] = kstack[p] /\ context'[p] = context[p]
  BY <1>1, <1>3 DEF Stacks
<1>9. \A p \in Pids : p \notin procs' \ procs =>
        ThreadOf(p)' = IF p = current_proc THEN regs' ELSE ThreadOf(p)
  BY <1>1, <1>3, <1>8, StaysThreads
<1>10. ASSUME NEW p \in Pids, p = new PROVE ThreadOf(p)' = Fresh
  <2>1. kstack'[p] = frames /\ context'[p] = [stack |-> p, depth |-> Len(frames)]
    BY <1>1, <1>3, <1>5, <1>10
  <2>2. Saved(p)' = RegsAfter(Ret(frames), Under(frames))
    BY <2>1 DEF Saved, Ret, Under
  <2>3. proc_state'[p] # "ZOMBIE"
    BY <1>1, <1>3, <1>10
  <2> QED BY <1>1, <1>3, <1>6, <1>10, <2>2, <2>3 DEF ThreadOf
<1>11. CInv'
  BY <1>2, <1>7 DEF CInv
<1> QED BY <1>1, <1>3, <1>4, <1>9, <1>10, <1>11

-----------------------------------------------------------------------------
(* The invariant and the refinement.                                       *)

Thread == [p \in Pids |-> ThreadOf(p)]

LEMMA InitCInv == CInit => CInv /\ T!Init
<1> SUFFICES ASSUME CInit PROVE CInv /\ T!Init
  OBVIOUS
<1>1. IInv
  BY InitIInv DEF CInit
<1>2. RegsSound /\ FramesSound
  <2>1. /\ regs = Boot /\ kstack = [s \in Stacks |-> <<>>] /\ context = [p \in Pids |-> Null]
        /\ procs = {idle_proc} /\ current_proc = idle_proc
    BY DEF CInit, Init
  <2>2. RegsSound
    BY <2>1, KnownRegisters DEF RegsSound
  <2>3. idle_proc \in Stacks
    BY KnownRegisters DEF Stacks, idle_proc
  <2> QED BY <2>1, <2>2, <2>3 DEF FramesSound
<1>3. /\ [p \in Pids |-> ThreadOf(p)] = [p \in Pids |-> IF p = idle_proc THEN Boot ELSE NotYet]
      /\ current_proc = idle_proc
  BY DEF CInit, Init, ThreadOf
<1> QED BY <1>1, <1>2, <1>3 DEF CInv, T!Init

\* Whoever runs after a step is alive.
LEMMA RunningAlive ==
    ASSUME CInv'
    PROVE  current_proc' \in {t \in Pids : Thread'[t] \notin {NotYet, Gone}}
<1>1. current_proc' \in procs' /\ current_proc' \in Pids /\ regs' \in Registers
  BY DEF CInv, IInv, TypeOK, RegsSound
<1>2. ASSUME NEW t \in Pids, t = current_proc' PROVE Thread'[t] = regs'
  BY <1>1, <1>2 DEF Thread, ThreadOf
<1>3. NotYet \notin Registers /\ Gone \notin Registers
  BY DEF NotYet, Gone, Registers
<1> QED BY <1>1, <1>2, <1>3

\* What the refinement shows of a step, given what it does to the threads.
LEMMA ThreadStep ==
    ASSUME CInv, CInv', NEW new,
           \A p \in Pids : ThreadOf(p)' = IF p = current_proc THEN new ELSE ThreadOf(p)
    PROVE  /\ Thread' = [Thread EXCEPT ![current_proc] = new]
           /\ Thread[current_proc] = regs
<1>1. current_proc \in Pids /\ current_proc \in procs
  BY DEF CInv, IInv, TypeOK
<1> QED BY <1>1 DEF Thread, ThreadOf

\* One step of the kernel keeps the invariant and is a step of Threads.
LEMMA StepImplements ==
    ASSUME CInv, [CNext]_cvars
    PROVE  CInv' /\ [T!Next]_<<Thread, current_proc>>
<1>1. /\ current_proc \in procs /\ current_proc \in Pids /\ regs \in Registers
      /\ Thread[current_proc] = regs
      /\ Pids \subseteq Pids \cup {-1, 0}
  BY DEF CInv, IInv, TypeOK, RegsSound, Thread, ThreadOf
<1>2. CASE TimerInterrupt
  <2>1. CInv' /\ Thread' = Thread
    BY <1>2, TickStep DEF Thread
  <2> QED BY <2>1, RunningAlive DEF T!Next, Thread
<1>3. CASE YieldCall
  <2>1. CInv' /\ Thread' = [Thread EXCEPT ![current_proc] = [regs EXCEPT !.rax = 0]]
    BY <1>3, YieldStep, ThreadStep
  <2>2. T!Answer
    BY <1>1, <2>1 DEF T!Answer, Thread
  <2> QED BY <2>1, <2>2, RunningAlive DEF T!Next, Thread
<1>4. CASE ExitCall
  <2>1. CInv' /\ Thread' = [Thread EXCEPT ![current_proc] = Gone]
    BY <1>4, ExitStep, ThreadStep
  <2>2. T!Exit
    BY <1>4, <2>1 DEF T!Exit, Thread, ExitCall, sys_exit, InUserMode
  <2> QED BY <2>1, <2>2, RunningAlive DEF T!Next, Thread
<1>5. CASE ForkCall
  <2>1. /\ CInv' /\ next_pid \in Pids \ procs
        /\ \A p \in Pids :
                ThreadOf(p)' = IF p = next_pid THEN [regs EXCEPT !.rax = 0]
                               ELSE IF p # current_proc THEN ThreadOf(p)
                               ELSE [regs EXCEPT !.rax = next_pid]
    BY <1>5, ForkStep
  <2>2. Thread[next_pid] = NotYet
    BY <2>1 DEF Thread, ThreadOf
  <2>3. Thread' = [Thread EXCEPT ![next_pid] = [Thread[current_proc] EXCEPT !.rax = 0],
                                 ![current_proc] = [regs EXCEPT !.rax = next_pid]]
    BY <1>1, <2>1 DEF Thread
  <2>4. T!Fork
    BY <1>1, <2>1, <2>2, <2>3 DEF T!Fork, Thread
  <2> QED BY <2>1, <2>4, RunningAlive DEF T!Next, Thread
<1>6. CASE ForkCallFails \/ OtherCall
  <2>1. PICK v \in Pids \cup {-1} : Answers(v) /\ ~dead /\ UNCHANGED <<procs, proc_state, current_proc, context>>
    BY <1>1, <1>6, KnownRegisters DEF ForkCallFails, OtherCall, sys_fork_fails, InUserMode, vars, cpu
  <2>2. regs' = [regs EXCEPT !.rax = v] /\ regs' \in Registers /\ kstack' = kstack
    BY <2>1, AnswersIs
  <2>3. CInv' /\ \A p \in Pids : ThreadOf(p)' = IF p # current_proc THEN ThreadOf(p) ELSE regs'
    BY <2>1, <2>2, RegsStep
  <2>4. Thread' = [Thread EXCEPT ![current_proc] = [regs EXCEPT !.rax = v]]
    BY <2>2, <2>3, ThreadStep
  <2>5. T!Answer
    BY <1>1, <2>4 DEF T!Answer, Thread
  <2> QED BY <2>3, <2>5, RunningAlive DEF T!Next, Thread
<1>7. CASE ForkCallNoPcb \/ Fault \/ CreateInitNoPcb
  <2>1. /\ ~dead /\ UNCHANGED <<procs, proc_state, current_proc, context>> /\ regs' = regs
        /\ kstack' = kstack \/ (dead' /\ kstack' = Entered)
    BY <1>7 DEF ForkCallNoPcb, Fault, CreateInitNoPcb, sys_fork_no_pcb, init_userproc_no_pcb,
       PcbFault, InUserMode, IdleRuns, cpu
  <2>2. CInv' /\ \A p \in Pids : ThreadOf(p)' = IF p # current_proc THEN ThreadOf(p) ELSE regs'
    BY <1>1, <2>1, RegsStep
  <2>3. Thread' = [Thread EXCEPT ![current_proc] = regs]
    BY <2>1, <2>2, ThreadStep
  <2>4. Thread' = Thread
    BY <1>1, <2>3 DEF Thread
  <2> QED BY <2>1, <2>2, <2>4
<1>8. CASE ExecveCall
  <2>1. /\ ~dead /\ UNCHANGED <<procs, proc_state, current_proc, context>>
        /\ regs' = [regs EXCEPT !.rip = "entry", !.rax = 0] /\ kstack' = kstack
    <3>1. ~dead /\ UNCHANGED <<procs, proc_state, current_proc, context>>
      BY <1>8 DEF ExecveCall, InUserMode, vars
    <3> QED BY <1>8, <3>1, EnteredIs DEF ExecveCall
  <2>2. regs' = [Fresh EXCEPT !.rax = 0] /\ regs' \in Registers
    <3>1. /\ Fresh \in Registers /\ Fresh.rip = "entry"
          /\ [Fresh EXCEPT !.rax = 0] \in Registers
      BY KnownRegisters, AnswerInRegisters DEF Fresh
    <3>2. regs' \in Registers /\ regs'.rip = "entry" /\ regs'.rax = 0
      BY <1>1, <2>1, KnownRegisters, UserRipsAssumption DEF Registers
    <3> HIDE DEF Fresh
    <3>3. [Fresh EXCEPT !.rax = 0].rip = "entry" /\ [Fresh EXCEPT !.rax = 0].rax = 0
      BY <3>1 DEF Registers
    <3> QED BY <3>1, <3>2, <3>3, SameRegisters
  <2>3. CInv' /\ \A p \in Pids : ThreadOf(p)' = IF p # current_proc THEN ThreadOf(p) ELSE regs'
    BY <2>1, <2>2, RegsStep
  <2>4. Thread' = [Thread EXCEPT ![current_proc] = [Fresh EXCEPT !.rax = 0]]
    BY <2>2, <2>3, ThreadStep
  <2>5. T!Exec
    BY <2>4 DEF T!Exec, Thread
  <2> QED BY <2>3, <2>5, RunningAlive DEF T!Next, Thread
<1>9. CASE UserStep \/ CreateInitFails
  <2>1. /\ ~dead /\ UNCHANGED <<procs, proc_state, current_proc, context>>
        /\ regs' \in Registers /\ kstack' = kstack
    BY <1>1, <1>9 DEF UserStep, CreateInitFails, init_userproc_fails, InUserMode, IdleRuns,
       vars, cpu, Registers
  <2>2. CInv' /\ \A p \in Pids : ThreadOf(p)' = IF p # current_proc THEN ThreadOf(p) ELSE regs'
    BY <2>1, RegsStep
  <2>3. Thread' = [Thread EXCEPT ![current_proc] = regs']
    BY <2>2, ThreadStep
  <2>4. T!Step
    BY <2>1, <2>3 DEF T!Step, Thread
  <2> QED BY <2>2, <2>4, RunningAlive DEF T!Next, Thread
<1>10. CASE CreateInit
  <2>1. /\ CInv' /\ next_pid \in Pids \ procs /\ regs' \in Registers
        /\ \A p \in Pids :
             ThreadOf(p)' = IF p = next_pid THEN Fresh
                            ELSE IF p # current_proc THEN ThreadOf(p) ELSE regs'
    BY <1>10, CreateInitStep
  <2>2. Thread[next_pid] = NotYet
    BY <2>1 DEF Thread, ThreadOf
  <2>3. Thread' = [Thread EXCEPT ![next_pid] = Fresh, ![current_proc] = regs']
    BY <1>1, <2>1 DEF Thread
  <2>4. T!Spawn
    BY <1>10, <2>1, <2>2, <2>3 DEF T!Spawn, Thread, CreateInit, init_userproc, IdleRuns
  <2> QED BY <2>1, <2>4, RunningAlive DEF T!Next, Thread
<1>11. CASE KmainSchedules
  <2>1. CInv' /\ Thread' = [Thread EXCEPT ![current_proc] = [Boot EXCEPT !.rip = "loop"]]
    BY <1>11, KmainStep, ThreadStep
  <2>2. T!Step
    BY <2>1, KnownRegisters DEF T!Step, Thread
  <2> QED BY <2>1, <2>2, RunningAlive DEF T!Next, Thread
<1>12. CASE Stopped \/ UNCHANGED cvars
  <2>1. UNCHANGED cvars
    BY <1>12 DEF Stopped
  <2>2. CInv'
    <3>1. IInv'
      BY StepIsScheduled, NextIInv DEF CInv
    <3>2. RegsSound' /\ FramesSound'
      BY <2>1 DEF CInv, RegsSound, FramesSound, cvars, vars
    <3> QED BY <3>1, <3>2 DEF CInv
  <2>3. \A p \in Pids : ThreadOf(p)' = ThreadOf(p)
    BY <2>1 DEF ThreadOf, Saved, cvars, vars
  <2> QED BY <2>1, <2>2, <2>3 DEF Thread, cvars, vars
<1> QED BY <1>2, <1>3, <1>4, <1>5, <1>6, <1>7, <1>8, <1>9, <1>10, <1>11, <1>12 DEF CNext

\* Registers and frames are in order whatever the order of traps and switches.
THEOREM ContextInvariant == CSpec => []CInv
<1>1. CInv /\ [CNext]_cvars => CInv'
  BY StepImplements
<1> QED BY <1>1, InitCInv, PTL DEF CSpec

\* Every kernel stack is used from its top: empty in ring 3, one context and at
\* most one trap frame otherwise, however often the process was switched.
THEOREM ContextStackDiscipline == CSpec => []StackDiscipline
<1>1. CInv => StackDiscipline
  <2> SUFFICES ASSUME CInv, ~dead, NEW p \in procs, p # current_proc
               PROVE  /\ context[p] = [stack |-> p, depth |-> Len(kstack[p])]
                      /\ Len(kstack[p]) \in {1, 2}
                      /\ Top(kstack[p]).kind = "context"
    BY DEF StackDiscipline, CInv, FramesSound
  <2>1. /\ kstack[p] \in SavedFrames(p)
        /\ context[p] = [stack |-> p, depth |-> Len(kstack[p])]
    BY DEF CInv, FramesSound
  <2> QED BY <2>1, FramesResume
<1> QED BY <1>1, ContextInvariant, PTL

\* No tick changes a register of any thread, whether it switches or not.
THEOREM ContextTicksInvisible == CSpec => TicksInvisible
<1>1. CInv => [TimerInterrupt => \A p \in procs : ThreadOf(p)' = ThreadOf(p)]_cvars
  BY TickStep DEF CInv, IInv, TypeOK
<1> QED BY <1>1, ContextInvariant, PTL DEF TicksInvisible

\* Traps, switches, fork, execve and exit together give every process the
\* registers a thread of its own would have.
THEOREM ContextImplementsThreads == CSpec => ImplementsThreads
<1>1. CInv /\ [CNext]_cvars => [T!Next]_<<[p \in Pids |-> ThreadOf(p)], current_proc>>
  BY StepImplements DEF Thread
<1> QED BY <1>1, InitCInv, ContextInvariant, PTL DEF CSpec, ImplementsThreads, T!Spec
=============================================================================
