------------------------------- MODULE RamFS -------------------------------
(***************************************************************************)
(* The in-memory file system, kernel/src/fs/ramfs.c, as processes use it   *)
(* through system calls, with fork and exit as far as they touch it.       *)
(*                                                                         *)
(* System calls run with interrupts off, so each is one action; calls of   *)
(* several processes come in any order.  Nothing is ever deleted.          *)
(*                                                                         *)
(* A path is a record [abs, comps].  Components are names, ".", ".." and   *)
(* "/", which stands for a further slash at that place.  Of the bytes of a *)
(* name only their number is kept, and which name a part of it is.  Bytes  *)
(* of a file are left out; sizes, offsets and counts are kept.             *)
(***************************************************************************)
EXTENDS Integers, Sequences, FiniteSets, FiniteSetsExt

CONSTANTS
    MAX_FILES,      \* inodes, 64
    MAX_OPEN,       \* MAX_SYSTEM_OPEN_FILES, 128
    MAX_FD,         \* descriptors of a process, 16; the first three are taken
    CAP,            \* bytes of a file's buffer, 4096
    NAME_SIZE,      \* bytes for a name with its end, 32
    PATH_SIZE,      \* bytes for a path with its end in resolve_path, 128
    WORD,           \* values of a uint64_t, 2^64
    Procs,          \* bound: process numbers, 1 is init
    NameLen(_),     \* the bytes of a name
    CutName(_, _),  \* the first bytes of a name, themselves a name
    Paths,          \* the paths that are used
    Counts,         \* the counts read, write and getdents64 are called with
    MaxCalls        \* bound: system calls

ASSUME RamFSAssumption ==
    /\ MAX_FILES \in Nat /\ MAX_FILES >= 7
    /\ MAX_OPEN \in Nat \ {0} /\ MAX_FD \in Nat \ {0, 1, 2, 3}
    /\ CAP \in Nat \ {0}
    /\ Counts \subseteq Int
    /\ WORD \in Nat /\ \A n \in Counts : CAP + n < WORD /\ CAP - n < WORD
    /\ NAME_SIZE \in Nat /\ PATH_SIZE \in Nat /\ NAME_SIZE <= PATH_SIZE
    /\ 1 \in Procs /\ MaxCalls \in Nat

Components == STRING \ {""}

ASSUME PathsAssumption ==
    \A path \in Paths :
        /\ path.abs \in BOOLEAN /\ path.comps \in Seq(Components)
        /\ \A k \in DOMAIN path.comps, n \in 1 .. PATH_SIZE - 1 :
             CutName(path.comps[k], n) \in Components

\* The names the kernel itself gives fit.
ASSUME NamesAssumption ==
    \A name \in {"", "init", "usr", "bin", "lib", "shell.c", "usrmain.c"} :
        NameLen(name) \in 0 .. NAME_SIZE - 1

VARIABLES
    files,              \* inode -> node, or Unused
    global_file_table,  \* handle -> [node, offset], or Closed
    fd_table,           \* process -> descriptor -> handle, 0 for NULL
    cwd_inode,          \* process -> inode of its working directory
    alive,              \* processes that have not exited
    last,               \* the last call: [call, proc, ret]
    due,                \* history: handle -> entries of its directory at open
    listed,             \* history: handle -> inode -> how often getdents64 returned it
    calls,
    dead                \* the kernel stopped in a page fault, or its stack is overwritten

vars == <<files, global_file_table, fd_table, cwd_inode, alive, last, due, listed, calls, dead>>

tree == <<files, cwd_inode>>

Inodes == 0 .. MAX_FILES - 1
Handles == 1 .. MAX_OPEN
Fds == 3 .. MAX_FD - 1

Unused == [name |-> "unused", type |-> "unused", parent |-> 0, size |-> 0, content |-> FALSE]
Closed == [node |-> 0, offset |-> -1]

NoneListed == [i \in Inodes |-> 0]

NewNode(name, type, parent, size, content) ==
    [name |-> name, type |-> type, parent |-> parent, size |-> size, content |-> content]

\* ramfs_init is called without an image of init: /init is empty and has no buffer.
ramfs_init ==
    <<NewNode("", "dir", -1, 0, FALSE),
      NewNode("init", "file", 0, 0, FALSE),
      NewNode("usr", "dir", 0, 0, FALSE),
      NewNode("bin", "dir", 2, 0, FALSE),
      NewNode("lib", "dir", 2, 0, FALSE),
      NewNode("shell.c", "file", 2, 1, TRUE),
      NewNode("usrmain.c", "file", 2, 1, TRUE)>>

Init ==
    /\ files = [i \in Inodes |-> IF i < 7 THEN ramfs_init[i + 1] ELSE Unused]
    /\ global_file_table = [h \in Handles |-> Closed]
    /\ fd_table = [p \in Procs |-> [fd \in Fds |-> 0]]
    /\ cwd_inode = [p \in Procs |-> 0]
    /\ alive = {1}
    /\ last = [call |-> "boot", proc |-> 1, ret |-> 0]
    /\ due = [h \in Handles |-> {}]
    /\ listed = [h \in Handles |-> NoneListed]
    /\ calls = 0
    /\ dead = FALSE

-----------------------------------------------------------------------------
(* Paths.                                                                  *)

Used(i) == files[i] # Unused

\* Mutant: the directory is not compared, only the name.
LookupMutant(dir, name) ==
    LET found == {i \in Inodes : Used(i) /\ files[i].name = name}
    IN  IF found = {} THEN -1 ELSE Min(found)

\* The inode with a name in a directory, or -1.
Lookup(dir, name) ==
    LET found == {i \in Inodes : Used(i) /\ files[i].parent = dir /\ files[i].name = name}
    IN  IF found = {} THEN -1 ELSE Min(found)

\* One component of a path.  Only a component with nothing at all behind it is
\* the last one; "." and ".." never are.
ResolveStep(r, comps, k) ==
    LET name == comps[k]
        found == Lookup(r.curr, name)
    IN  CASE r.done \/ name \in {".", "/"} -> r
          [] ~r.done /\ name = ".." ->
               IF files[r.curr].parent # -1 THEN [r EXCEPT !.curr = files[r.curr].parent] ELSE r
          [] ~r.done /\ name \notin {".", "/", ".."} /\ k < Len(comps) ->
               IF found = -1 \/ files[found].type # "dir"
               THEN [r EXCEPT !.done = TRUE, !.inode = -1]
               ELSE [r EXCEPT !.curr = found]
          [] OTHER -> [r EXCEPT !.done = TRUE, !.inode = found, !.parent = r.curr, !.name = name]

\* Bytes of a path without its leading slash: a slash stands between two
\* components, and the last of several slashes at the end counts.
PathLen(comps) ==
    LET bytes[k \in 0 .. Len(comps)] == IF k = 0 THEN 0 ELSE bytes[k - 1] + NameLen(comps[k]) + 1
    IN  bytes[Len(comps)] - IF comps = <<>> \/ comps[Len(comps)] = "/" THEN 0 ELSE 1

\* The part of a path that fits into temp_path: whole components, and the
\* beginning of the next one where bytes are left behind the slash before it.
Cut(comps) ==
    LET whole == {j \in 1 .. Len(comps) : PathLen(SubSeq(comps, 1, j)) \in 0 .. PATH_SIZE - 1}
        k == Cardinality(whole)
        left == PATH_SIZE - 1 - PathLen(SubSeq(comps, 1, k)) - IF k = 0 \/ comps[k] = "/" THEN 0 ELSE 1
    IN  IF PathLen(comps) \in 0 .. PATH_SIZE - 1 THEN comps
        ELSE SubSeq(comps, 1, k)
               \o IF left \in 1 .. PATH_SIZE - 1 THEN <<CutName(comps[k + 1], left)>> ELSE <<>>

\* The walk along a path from a directory: the inode or -1, with its parent
\* and its name where there is one.
Walk(cwd, path) ==
    LET walk[k \in 0 .. Len(path.comps)] ==
            IF k = 0 THEN [curr |-> IF path.abs THEN 0 ELSE cwd, done |-> FALSE,
                           inode |-> -1, parent |-> -1, name |-> ""]
            ELSE ResolveStep(walk[k - 1], path.comps, k)
        r == walk[Len(path.comps)]
    IN  IF r.done THEN r
        ELSE [r EXCEPT !.inode = r.curr, !.parent = files[r.curr].parent]

\* resolve_path walks along what it copied of the path.
resolve_path(cwd, path) == Walk(cwd, [abs |-> path.abs, comps |-> Cut(path.comps)])

\* The last component does not fit into the name[32] of the caller.
Overruns(r) == NameLen(r.name) \notin 0 .. NAME_SIZE - 1

FreeInodes == {i \in Inodes : ~Used(i)}

FreeHandles == {h \in Handles : global_file_table[h] = Closed}

FreeFds(p) == {fd \in Fds : fd_table[p][fd] = 0}

Children(dir) == {i \in Inodes : Used(i) /\ files[i].parent = dir}

-----------------------------------------------------------------------------
(* System calls.  Each notes its result.                                   *)

Calls(p) ==
    /\ ~dead
    /\ p \in alive
    /\ calls < MaxCalls
    /\ calls' = calls + 1

Result(call, p, value) == last' = [call |-> call, proc |-> p, ret |-> value]

File(p, fd) == global_file_table[fd_table[p][fd]]

NodeOf(p, fd) == files[File(p, fd).node]

\* The descriptor is open, for a node of a type.
IsOpen(p, fd, type) == fd_table[p][fd] # 0 /\ NodeOf(p, fd).type = type

\* Mutant: the new handle stays taken when the process has no free descriptor.
OpenHandlesMutant(p, inode) ==
    LET h == Min(FreeHandles)
    IN  [global_file_table EXCEPT ![h] = [node |-> inode, offset |-> 0]]

\* A handle for an inode; it is given back when no descriptor is free.
OpenHandles(p, inode) ==
    LET h == Min(FreeHandles)
    IN  IF FreeFds(p) = {} THEN global_file_table
        ELSE [global_file_table EXCEPT ![h] = [node |-> inode, offset |-> 0]]

\* The second half of ramfs_open, which finds the inode in the tree fs.
OpenInode(p, inode, fs) ==
    IF FreeHandles = {}
    THEN /\ Result("open", p, -1)
         /\ UNCHANGED <<global_file_table, fd_table, due, listed>>
    ELSE LET h == Min(FreeHandles)
             fd == Min(FreeFds(p))
         IN  /\ global_file_table' = OpenHandles(p, inode)
             /\ due' = [due EXCEPT ![h] = {i \in Inodes : fs[i] # Unused /\ fs[i].parent = inode}]
             /\ listed' = [listed EXCEPT ![h] = NoneListed]
             /\ IF FreeFds(p) = {}
                THEN Result("open", p, -1) /\ UNCHANGED fd_table
                ELSE Result("open", p, fd) /\ fd_table' = [fd_table EXCEPT ![p][fd] = h]

ramfs_open_existing(p, path) ==
    /\ Calls(p)
    /\ LET r == resolve_path(cwd_inode[p], path)
       IN  /\ r.inode # -1 /\ ~Overruns(r)
           /\ OpenInode(p, r.inode, files)
    /\ UNCHANGED <<files, cwd_inode, alive, dead>>

\* O_CREAT of a path that is not there.  When kmalloc has no memory for it, the
\* kernel clears page 0: it stops there, or the process has it mapped and the
\* file has no buffer.
ramfs_open_create(p, path) ==
    /\ Calls(p)
    /\ LET r == resolve_path(cwd_inode[p], path)
       IN  /\ r.inode = -1 /\ r.parent # -1 /\ ~Overruns(r)
           /\ FreeInodes # {}
           /\ \E content \in BOOLEAN :
                files' = [files EXCEPT ![Min(FreeInodes)] =
                                         NewNode(r.name, "file", r.parent, 0, content)]
           /\ \/ OpenInode(p, Min(FreeInodes), files') /\ UNCHANGED dead
              \/ dead' = TRUE /\ UNCHANGED <<global_file_table, fd_table, last, due, listed>>
    /\ UNCHANGED <<cwd_inode, alive>>

ramfs_open_fails(p, path, O_CREAT) ==
    /\ Calls(p)
    /\ LET r == resolve_path(cwd_inode[p], path)
       IN  r.inode = -1 /\ (O_CREAT => r.parent = -1 \/ FreeInodes = {}) /\ ~Overruns(r)
    /\ Result("open", p, -1)
    /\ UNCHANGED <<files, global_file_table, fd_table, cwd_inode, alive, due, listed, dead>>

\* open or mkdir of a name that is too long: strcpy writes over the stack of the
\* kernel, and what follows is not modelled.
name_overrun(p, path) ==
    /\ Calls(p)
    /\ Overruns(resolve_path(cwd_inode[p], path))
    /\ dead' = TRUE
    /\ UNCHANGED <<files, global_file_table, fd_table, cwd_inode, alive, last, due, listed>>

\* The sum of an offset and a count that was converted to uint64_t.
Sum64(offset, count) == (offset + count) % WORD

\* A call on a descriptor that is not open, or of the wrong type.
BadFd(p, fd, call, type) ==
    /\ Calls(p)
    /\ ~IsOpen(p, fd, type)
    /\ Result(call, p, -1)
    /\ UNCHANGED <<files, global_file_table, fd_table, cwd_inode, alive, due, listed, dead>>

\* Mutant: the count is added without the conversion, so a negative one fits
\* and a long one is cut to the size of the file.
ReadLenMutant(offset, size, count) == IF offset + count > size THEN size ELSE count

\* What is left of a count at the end of the file.
ReadLen(offset, size, count) ==
    IF Sum64(offset, count) > size THEN size - offset ELSE count

ramfs_read(p, fd, count) ==
    /\ Calls(p)
    /\ IsOpen(p, fd, "file")
    /\ LET f == File(p, fd)
           n == IF f.offset >= NodeOf(p, fd).size THEN 0
                ELSE ReadLen(f.offset, NodeOf(p, fd).size, count)
       IN  /\ Result("read", p, n)
           /\ global_file_table' =
                [global_file_table EXCEPT ![fd_table[p][fd]].offset = @ + Max({n, 0})]
    /\ UNCHANGED <<files, fd_table, cwd_inode, alive, due, listed, dead>>

\* What is left of a count at the end of the buffer.
WriteLen(offset, count) == IF Sum64(offset, count) > CAP THEN CAP - offset ELSE count

ramfs_write(p, fd, count) ==
    /\ Calls(p)
    /\ IsOpen(p, fd, "file")
    /\ LET f == File(p, fd)
           n == WriteLen(f.offset, count)
           moved == IF n > 0 /\ NodeOf(p, fd).content THEN n ELSE 0
       IN  /\ Result("write", p, n)
           /\ global_file_table' =
                [global_file_table EXCEPT ![fd_table[p][fd]].offset = @ + moved]
           /\ files' = IF moved = 0 THEN files
                       ELSE [files EXCEPT ![f.node].size = Max({@, f.offset + moved})]
    /\ UNCHANGED <<fd_table, cwd_inode, alive, due, listed, dead>>

ramfs_close(p, fd) ==
    /\ Calls(p)
    /\ Result("close", p, 0)
    /\ IF fd_table[p][fd] = 0
       THEN UNCHANGED <<global_file_table, fd_table>>
       ELSE /\ global_file_table' = [global_file_table EXCEPT ![fd_table[p][fd]] = Closed]
            /\ fd_table' = [fd_table EXCEPT ![p][fd] = 0]
    /\ UNCHANGED <<files, cwd_inode, alive, due, listed, dead>>

\* The entries that fit: the first count of them.
Fitting(rest, count) == {i \in rest : Cardinality({j \in rest : j < i}) < count}

\* Mutant: the entry that did not fit is skipped.
NextSearchMutant(rest, fit) == IF fit = rest THEN MAX_FILES ELSE Min(rest \ fit) + 1

\* Where the next getdents64 goes on: at the first entry that did not fit.
NextSearch(rest, fit) == IF fit = rest THEN MAX_FILES ELSE Min(rest \ fit)

\* Entries are counted in records; count of them fit.
ramfs_getdents64(p, fd, count) ==
    /\ Calls(p)
    /\ IsOpen(p, fd, "dir")
    /\ LET h == fd_table[p][fd]
           rest == {i \in Children(File(p, fd).node) : i >= File(p, fd).offset}
           fit == Fitting(rest, count)
       IN  /\ Result("getdents64", p, Cardinality(fit))
           /\ global_file_table' = [global_file_table EXCEPT ![h].offset = NextSearch(rest, fit)]
           /\ listed' = [listed EXCEPT ![h] = [i \in Inodes |-> @[i] + IF i \in fit THEN 1 ELSE 0]]
    /\ UNCHANGED <<files, fd_table, cwd_inode, alive, due, dead>>

\* Mutant: a name that is taken is not refused.
MayMakeMutant(r) == r.parent # -1 /\ FreeInodes # {}

MayMake(r) == r.inode = -1 /\ r.parent # -1 /\ FreeInodes # {}

ramfs_mkdir(p, path) ==
    /\ Calls(p)
    /\ LET r == resolve_path(cwd_inode[p], path)
       IN  /\ ~Overruns(r)
           /\ IF MayMake(r)
              THEN /\ files' = [files EXCEPT ![Min(FreeInodes)] =
                                               NewNode(r.name, "dir", r.parent, 0, FALSE)]
                   /\ Result("mkdir", p, 0)
              ELSE Result("mkdir", p, -1) /\ UNCHANGED files
    /\ UNCHANGED <<global_file_table, fd_table, cwd_inode, alive, due, listed, dead>>

MayEnter(inode) == inode # -1 /\ files[inode].type = "dir"

ramfs_chdir(p, path) ==
    /\ Calls(p)
    /\ LET r == resolve_path(cwd_inode[p], path)
       IN  IF MayEnter(r.inode)
           THEN cwd_inode' = [cwd_inode EXCEPT ![p] = r.inode] /\ Result("chdir", p, 0)
           ELSE Result("chdir", p, -1) /\ UNCHANGED cwd_inode
    /\ UNCHANGED <<files, global_file_table, fd_table, alive, due, listed, dead>>

\* ramfs_fstat looks up the name of the open file as a path; the answer is an
\* inode number.
FstatAnswer(p, fd) ==
    LET name == NodeOf(p, fd).name
    IN  resolve_path(cwd_inode[p],
                     [abs |-> FALSE, comps |-> IF name = "" THEN <<>> ELSE <<name>>]).inode

\* The names ramfs_getcwd collects on the way to the root.
CwdNames ==
    LET names[i \in Inodes] ==
          IF i = 0 THEN <<>> ELSE Append(names[files[i].parent], files[i].name)
    IN  names

\* Mutant: the buffer is taken to be long enough.
ramfs_getcwdMutant(i, size) == TRUE

\* ramfs_getcwd answers these names for a directory, and not NULL, when they fit
\* into the buffer with the slash before and the zero behind them.
ramfs_getcwd(i, size) == PathLen(CwdNames[i]) \in 0 .. size - 2

-----------------------------------------------------------------------------
(* Processes.                                                              *)

\* fork copies the working directory and gives the child no descriptor.
sys_fork(p, child) ==
    /\ Calls(p)
    /\ child \notin alive /\ \A fd \in Fds : fd_table[child][fd] = 0
    /\ cwd_inode' = [cwd_inode EXCEPT ![child] = cwd_inode[p]]
    /\ alive' = alive \cup {child}
    /\ Result("fork", p, child)
    /\ UNCHANGED <<files, global_file_table, fd_table, due, listed, dead>>

\* exit closes nothing.
sys_exit(p) ==
    /\ Calls(p)
    /\ alive' = alive \ {p}
    /\ Result("exit", p, 0)
    /\ UNCHANGED <<files, global_file_table, fd_table, cwd_inode, due, listed, dead>>

Stopped ==
    /\ dead \/ alive = {} \/ calls = MaxCalls
    /\ UNCHANGED vars

Next ==
    \/ \E p \in alive :
         \/ \E path \in Paths :
              \/ ramfs_open_existing(p, path)
              \/ ramfs_open_create(p, path)
              \/ \E O_CREAT \in BOOLEAN : ramfs_open_fails(p, path, O_CREAT)
              \/ name_overrun(p, path)
              \/ ramfs_mkdir(p, path)
              \/ ramfs_chdir(p, path)
         \/ \E fd \in Fds :
              \/ BadFd(p, fd, "read", "file")
              \/ BadFd(p, fd, "write", "file")
              \/ BadFd(p, fd, "getdents64", "dir")
              \/ ramfs_close(p, fd)
              \/ \E count \in Counts :
                   \/ ramfs_read(p, fd, count)
                   \/ ramfs_write(p, fd, count)
                   \/ ramfs_getdents64(p, fd, count)
         \/ \E child \in Procs \ alive : sys_fork(p, child)
         \/ sys_exit(p)
    \/ Stopped

Spec == Init /\ [][Next]_vars

-----------------------------------------------------------------------------
(* Properties.                                                             *)

\* The inodes form a tree of directories: no call makes a cycle, an entry
\* below a file, or a second entry with the same name in a directory.
TreeSound ==
    /\ \A i \in Inodes \ {0} : Used(i) =>
         /\ files[i].parent \in 0 .. i - 1
         /\ Used(files[i].parent) /\ files[files[i].parent].type = "dir"
    /\ \A i, j \in Inodes :
         (Used(i) /\ Used(j) /\ files[i].parent = files[j].parent /\ files[i].name = files[j].name)
         => i = j

\* What getcwd answers leads back to the working directory, for every process
\* at every time, whatever the others created meanwhile and however deep it
\* went: an answer that fits into a buffer one byte longer than temp_path, and
\* so into the shell's 128 bytes, is never cut when it is resolved.
CwdRoundTrip ==
    \A p \in alive :
        /\ files[cwd_inode[p]].type = "dir"
        /\ \A size \in 0 .. PATH_SIZE + 1 :
             ramfs_getcwd(cwd_inode[p], size) =>
                 resolve_path(0, [abs |-> TRUE, comps |-> CwdNames[cwd_inode[p]]]).inode
                   = cwd_inode[p]

\* A handle in use belongs to one descriptor of one process, and a descriptor
\* to a handle in use: closing or failing to open never leaves one behind and
\* never takes one from somebody else.
HandlesOwned ==
    \A h \in Handles :
        Cardinality({o \in Procs \X Fds : fd_table[o[1]][o[2]] = h})
          = (IF global_file_table[h] = Closed THEN 0 ELSE 1)

\* The offset of an open file is inside the file and the file inside its
\* buffer, with any counts, negative ones too, and several handles on a file.
OffsetsInside ==
    \A h \in Handles :
        LET f == global_file_table[h]
        IN  (f # Closed /\ files[f.node].type = "file")
            => f.offset <= files[f.node].size /\ files[f.node].size <= CAP

\* getdents64 returns no entry twice, however the listing is cut in calls and
\* whatever is created meanwhile, and at the end of the directory it has
\* returned every entry that was there when it was opened.
ListsEachOnce ==
    \A h \in Handles :
        LET f == global_file_table[h]
        IN  (f # Closed /\ files[f.node].type = "dir") =>
              /\ \A i \in Inodes : listed[h][i] <= 1
              /\ f.offset = MAX_FILES => \A i \in due[h] : listed[h][i] = 1

\* fstat resolves the bare name of the open file in the working directory: it
\* describes the file that is open if and only if that directory holds it (for
\* the root, whose name is empty, if it is the root), whatever was created and
\* wherever the process went since it opened the file.
FstatByName ==
    \A p \in alive, fd \in Fds :
        fd_table[p][fd] # 0 =>
            LET n == File(p, fd).node
            IN  FstatAnswer(p, fd) = n <=> cwd_inode[p] = IF n = 0 THEN 0 ELSE files[n].parent

-----------------------------------------------------------------------------
(* What comments and documents say and the code does not do.               *)

\* interrupts.c:24: execve gets the size of the file it opened from
\* ramfs_fstat.  The name is looked up in the working directory, so the answer
\* is about another file or there is none.
FstatOfOpenFile ==
    \A p \in alive, fd \in Fds :
        fd_table[p][fd] # 0 => FstatAnswer(p, fd) = File(p, fd).node

\* ramfs.c:82: the copy of the path is safe and prevents an overflow.  A longer
\* path is resolved as the path its first 127 bytes spell, and a component that
\* was copied whole overflows the caller's name (name_overrun).
PathsWhole ==
    \A p \in alive, path \in Paths :
        resolve_path(cwd_inode[p], path) = Walk(cwd_inode[p], path)

\* README.md:1410: writing beyond the space allocated updates the size.  It is
\* cut off there, and a write to /init is reported and not done.
WriteAdvances ==
    [][\A p \in alive, fd \in Fds, count \in Counts :
         (count > 0 /\ ramfs_write(p, fd, count))
         => files'[File(p, fd).node].size >= File(p, fd).offset + count]_vars

\* ramfs.c:7: MAX_SYSTEM_OPEN_FILES handles may be open at the same time.
\* Handles of processes that exited are never given back.
HandlesForTheLiving ==
    (alive # {} /\ FreeHandles = {})
    => MAX_OPEN <= Cardinality({o \in alive \X Fds : fd_table[o[1]][o[2]] # 0})
=============================================================================
