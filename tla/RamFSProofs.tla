---------------------------- MODULE RamFSProofs ----------------------------
(***************************************************************************)
(* Proofs about RamFS for tables of any size, any paths and counts, any    *)
(* processes and any number of calls.                                      *)
(***************************************************************************)
EXTENDS RamFS, WellFoundedInduction, FiniteSetTheorems, SequenceTheorems, TLAPS

-----------------------------------------------------------------------------
(* Induction: the least counterexample.                                    *)

\* A non-empty set of naturals has a least element.
LEMMA LeastNatural ==
    ASSUME NEW S, S \subseteq Nat, S # {}
    PROVE  \E x \in S : \A y \in S : x <= y
<1> DEFINE Below == {p \in Nat \X Nat : p[1] < p[2]}
<1>1. IsWellFoundedOn(Below, Nat)
  BY NatLessThanWellFounded DEF OpToRel
<1>2. PICK x \in S : \A y \in S : ~(<<y, x>> \in Below)
  <2> HIDE DEF Below
  <2> QED BY <1>1, WFMin
<1>3. \A y \in S : ~(y < x)
  BY <1>2
<1> QED BY <1>3

-----------------------------------------------------------------------------
(* Path resolution.                                                        *)

Start(cwd, path) ==
    [curr |-> IF path.abs THEN 0 ELSE cwd, done |-> FALSE, inode |-> -1, parent |-> -1, name |-> ""]

\* w holds what is known of a path after each of its first n components.
IsWalk(w, n, start, comps) ==
    w = [k \in 0 .. n |-> IF k = 0 THEN start ELSE ResolveStep(w[k - 1], comps, k)]

\* There is such a walk, so the recursion of Walk is well defined.
LEMMA WalkExists ==
    ASSUME NEW n \in Nat, NEW start, NEW comps
    PROVE  \E w : IsWalk(w, n, start, comps)
<1> DEFINE Bad == {m \in Nat : ~\E w : IsWalk(w, m, start, comps)}
<1>1. SUFFICES ASSUME Bad # {} PROVE FALSE
  OBVIOUS
<1>2. PICK m \in Bad : \A l \in Bad : m <= l
  <2>1. Bad \subseteq Nat
    OBVIOUS
  <2> HIDE DEF Bad
  <2> QED BY <1>1, <2>1, LeastNatural
<1>3. m \in Nat /\ ~\E w : IsWalk(w, m, start, comps)
  OBVIOUS
<1>4. CASE m = 0
  <2> DEFINE w == [k \in 0 .. 0 |-> start]
  <2>1. w = [k \in 0 .. 0 |-> IF k = 0 THEN start ELSE ResolveStep(w[k - 1], comps, k)]
    OBVIOUS
  <2>2. IsWalk(w, 0, start, comps)
    BY <2>1 DEF IsWalk
  <2> QED BY <1>3, <1>4, <2>2
<1>5. CASE m # 0
  <2>1. m - 1 \in Nat /\ ~(m <= m - 1)
    BY <1>3, <1>5
  <2>2. m - 1 \notin Bad
    <3> HIDE DEF Bad
    <3> QED BY <1>2, <2>1
  <2>3. PICK v : IsWalk(v, m - 1, start, comps)
    BY <2>1, <2>2
  <2> DEFINE w == [k \in 0 .. m |-> IF k = m THEN ResolveStep(v[m - 1], comps, m) ELSE v[k]]
  <2>4. \A k \in 0 .. m - 1 : v[k] = IF k = 0 THEN start ELSE ResolveStep(v[k - 1], comps, k)
    BY <2>3 DEF IsWalk
  <2>5. \A k \in 0 .. m : w[k] = IF k = m THEN ResolveStep(v[m - 1], comps, m) ELSE v[k]
    OBVIOUS
  <2>6. ASSUME NEW k \in 0 .. m
        PROVE  w[k] = IF k = 0 THEN start ELSE ResolveStep(w[k - 1], comps, k)
    <3> HIDE DEF w
    <3>1. CASE k = 0
      <4>1. k \in 0 .. m - 1 /\ k # m
        BY <2>1, <1>3, <1>5, <3>1
      <4> QED BY <2>4, <2>5, <3>1, <4>1
    <3>2. CASE k # 0
      <4>1. k - 1 \in 0 .. m /\ k - 1 # m /\ (k # m => k \in 0 .. m - 1)
        BY <1>3, <3>2
      <4>2. w[k - 1] = v[k - 1]
        BY <2>5, <4>1
      <4> QED BY <2>4, <2>5, <3>2, <4>1, <4>2
    <3> QED BY <3>1, <3>2
  <2>7. w = [k \in 0 .. m |-> IF k = 0 THEN start ELSE ResolveStep(w[k - 1], comps, k)]
    <3>1. w = [k \in 0 .. m |-> w[k]]
      OBVIOUS
    <3> HIDE DEF w
    <3> QED BY <2>6, <3>1
  <2>8. IsWalk(w, m, start, comps)
    <3> HIDE DEF w
    <3> QED BY <2>7 DEF IsWalk
  <2> QED BY <1>3, <2>8
<1> QED BY <1>4, <1>5

\* What Walk returns, by the walk it makes.
LEMMA ResolveIsWalk ==
    ASSUME NEW cwd, NEW path, Len(path.comps) \in Nat
    PROVE  \E w : /\ IsWalk(w, Len(path.comps), Start(cwd, path), path.comps)
                  /\ LET r == w[Len(path.comps)]
                     IN  Walk(cwd, path) =
                           IF r.done THEN r
                           ELSE [r EXCEPT !.inode = r.curr, !.parent = files[r.curr].parent]
<1> DEFINE n == Len(path.comps)
           walk[k \in 0 .. n] ==
             IF k = 0 THEN [curr |-> IF path.abs THEN 0 ELSE cwd, done |-> FALSE,
                            inode |-> -1, parent |-> -1, name |-> ""]
             ELSE ResolveStep(walk[k - 1], path.comps, k)
<1>1. \E w : w = [k \in 0 .. n |->
                    IF k = 0 THEN [curr |-> IF path.abs THEN 0 ELSE cwd, done |-> FALSE,
                                   inode |-> -1, parent |-> -1, name |-> ""]
                    ELSE ResolveStep(w[k - 1], path.comps, k)]
  <2>0. n \in Nat
    OBVIOUS
  <2>1. \E w : IsWalk(w, n, Start(cwd, path), path.comps)
    <3> DEFINE a == Start(cwd, path)
               b == path.comps
    <3> HIDE DEF n, a, b
    <3>1. \E w : IsWalk(w, n, a, b)
      BY <2>0, WalkExists
    <3> QED BY <3>1 DEF a, b
  <2> QED BY <2>1 DEF IsWalk, Start
<1>2. walk = [k \in 0 .. n |->
                IF k = 0 THEN [curr |-> IF path.abs THEN 0 ELSE cwd, done |-> FALSE,
                               inode |-> -1, parent |-> -1, name |-> ""]
                ELSE ResolveStep(walk[k - 1], path.comps, k)]
  BY <1>1
<1>3. Walk(cwd, path) =
        IF walk[n].done THEN walk[n]
        ELSE [walk[n] EXCEPT !.inode = walk[n].curr, !.parent = files[walk[n].curr].parent]
  BY DEF Walk
<1>4. IsWalk(walk, n, Start(cwd, path), path.comps)
  <2> HIDE DEF walk
  <2> QED BY <1>2 DEF IsWalk, Start
<1> HIDE DEF walk
<1> QED BY <1>3, <1>4

-----------------------------------------------------------------------------
(* The length of short paths.                                              *)

\* The room for a name is not empty: the root's name fits.
LEMMA Positive == NAME_SIZE \in Nat /\ PATH_SIZE \in Nat /\ NAME_SIZE >= 1 /\ NAME_SIZE <= PATH_SIZE
<1>1. NameLen("") \in 0 .. NAME_SIZE - 1
  BY NamesAssumption, Zenon
<1>2. PICK n : n = NameLen("")
  OBVIOUS
<1>3. n \in 0 .. NAME_SIZE - 1
  BY <1>1, <1>2, Zenon
<1> QED BY ONLY <1>3, RamFSAssumption

LEMMA EmptyLen == ASSUME NEW comps, comps = <<>> PROVE PathLen(comps) = 0
<1> DEFINE bytes[k \in 0 .. Len(comps)] ==
             IF k = 0 THEN 0 ELSE bytes[k - 1] + NameLen(comps[k]) + 1
<1>0. Len(comps) = 0
  OBVIOUS
<1>1. \E f : f = [k \in 0 .. Len(comps) |-> IF k = 0 THEN 0 ELSE f[k - 1] + NameLen(comps[k]) + 1]
  <2> DEFINE g == [k \in 0 .. 0 |-> 0]
  <2>1. g = [k \in 0 .. 0 |-> IF k = 0 THEN 0 ELSE g[k - 1] + NameLen(comps[k]) + 1]
    OBVIOUS
  <2> HIDE DEF g
  <2> QED BY <1>0, <2>1
<1>2. bytes = [k \in 0 .. Len(comps) |->
                 IF k = 0 THEN 0 ELSE bytes[k - 1] + NameLen(comps[k]) + 1]
  BY <1>1
<1>3. PathLen(comps) = bytes[Len(comps)] - IF comps = <<>> \/ comps[Len(comps)] = "/" THEN 0 ELSE 1
  BY DEF PathLen
<1> HIDE DEF bytes
<1>4. bytes[0] = 0
  BY <1>0, <1>2
<1> QED BY <1>0, <1>3, <1>4

LEMMA NameLength ==
    ASSUME NEW name, NameLen(name) \in Nat, name # "/", NEW comps, comps = <<name>>
    PROVE  PathLen(comps) = NameLen(name)
<1> DEFINE bytes[k \in 0 .. Len(comps)] ==
             IF k = 0 THEN 0 ELSE bytes[k - 1] + NameLen(comps[k]) + 1
<1>0. Len(comps) = 1 /\ comps[1] = name /\ comps # <<>>
  OBVIOUS
<1>1. \E f : f = [k \in 0 .. Len(comps) |-> IF k = 0 THEN 0 ELSE f[k - 1] + NameLen(comps[k]) + 1]
  <2> DEFINE g == [k \in 0 .. 1 |-> IF k = 0 THEN 0 ELSE 0 + NameLen(comps[k]) + 1]
  <2>1. g[0] = 0
    OBVIOUS
  <2>2. g = [k \in 0 .. 1 |-> IF k = 0 THEN 0 ELSE g[k - 1] + NameLen(comps[k]) + 1]
    <3>1. \A k \in 0 .. 1 : k # 0 => k = 1 /\ k - 1 = 0
      OBVIOUS
    <3>2. ASSUME NEW k \in 0 .. 1
          PROVE  (IF k = 0 THEN 0 ELSE 0 + NameLen(comps[k]) + 1)
                   = IF k = 0 THEN 0 ELSE g[k - 1] + NameLen(comps[k]) + 1
      BY <2>1, <3>1
    <3> QED BY <3>2
  <2> HIDE DEF g
  <2> QED BY <1>0, <2>2
<1>2. bytes = [k \in 0 .. Len(comps) |->
                 IF k = 0 THEN 0 ELSE bytes[k - 1] + NameLen(comps[k]) + 1]
  BY <1>1
<1>3. PathLen(comps) = bytes[Len(comps)] - IF comps = <<>> \/ comps[Len(comps)] = "/" THEN 0 ELSE 1
  BY DEF PathLen
<1> HIDE DEF bytes
<1>4. bytes[0] = 0
  BY <1>0, <1>2
<1>5. bytes[1] = NameLen(name) + 1
  <2>1. bytes[1] = bytes[1 - 1] + NameLen(comps[1]) + 1
    BY <1>0, <1>2
  <2> QED BY <1>0, <1>4, <2>1
<1> QED BY <1>0, <1>3, <1>5

\* A path that fits is resolved whole.
LEMMA Uncut ==
    ASSUME NEW cwd, NEW abs, NEW comps, PathLen(comps) \in 0 .. PATH_SIZE - 1
    PROVE  resolve_path(cwd, [abs |-> abs, comps |-> comps]) = Walk(cwd, [abs |-> abs, comps |-> comps])
<1>1. Cut(comps) = comps
  BY DEF Cut
<1> QED BY <1>1 DEF resolve_path

-----------------------------------------------------------------------------
(* The invariant.                                                          *)

\* The names there are: of ramfs_init and of paths.
Names == Components \cup {"", "init", "usr", "bin", "lib", "shell.c", "usrmain.c"}

\* Names that are not treated specially by path resolution.
Plain == Names \ {"", ".", "/", ".."}

Nodes == [name : Names, type : {"file", "dir"}, parent : Int, size : Nat, content : BOOLEAN]

IsDir(i) == i \in Inodes /\ Used(i) /\ files[i].type = "dir"

\* Entries are below directories that were there before them.
TreeUp ==
    \A i \in Inodes \ {0} : Used(i) =>
        files[i].parent \in 0 .. i - 1 /\ IsDir(files[i].parent) /\ files[i].name \in Plain

\* Inodes are taken in order.
TreePacked == \A i, j \in Inodes : i < j /\ Used(j) => Used(i)

TreeNames ==
    \A i, j \in Inodes :
        (Used(i) /\ Used(j) /\ files[i].parent = files[j].parent /\ files[i].name = files[j].name)
        => i = j

TreeInv ==
    /\ files \in [Inodes -> Nodes \cup {Unused}]
    /\ IsDir(0) /\ files[0].parent = -1 /\ files[0].name = ""
    /\ TreeUp /\ TreePacked /\ TreeNames

CwdInv ==
    /\ cwd_inode \in [Procs -> Inodes]
    /\ \A p \in Procs : IsDir(cwd_inode[p])
    /\ alive \subseteq Procs

OpenFiles == [node : Inodes, offset : Nat]

HandleInv ==
    /\ global_file_table \in [Handles -> OpenFiles \cup {Closed}]
    /\ fd_table \in [Procs -> [Fds -> 0 .. MAX_OPEN]]
    /\ \A h \in Handles : global_file_table[h] # Closed => Used(global_file_table[h].node)
    /\ \A p \in Procs, fd \in Fds :
         fd_table[p][fd] # 0 => global_file_table[fd_table[p][fd]] # Closed
    /\ \A h \in Handles : global_file_table[h] # Closed =>
         \E p \in Procs, fd \in Fds : fd_table[p][fd] = h
    /\ \A p, q \in Procs, fd, fe \in Fds :
         (fd_table[p][fd] # 0 /\ fd_table[p][fd] = fd_table[q][fe]) => p = q /\ fd = fe

\* Sizes fit into buffers and names into their fields.
Sizes ==
    \A i \in Inodes : Used(i) =>
        files[i].size <= CAP /\ NameLen(files[i].name) \in 0 .. NAME_SIZE - 1

\* A handle on a node of a type.
HandleOn(h, type) ==
    global_file_table[h] # Closed /\ files[global_file_table[h].node].type = type

Offsets ==
    \A h \in Handles : HandleOn(h, "file") =>
        global_file_table[h].offset <= files[global_file_table[h].node].size

\* Of a handle on a directory: what was listed lies before the offset, each
\* entry once, and so does what was to be listed, completely.
Listing(h) ==
    LET f == global_file_table[h]
    IN  /\ f.offset <= MAX_FILES
        /\ \A i \in Inodes : listed[h][i] <= 1 /\ (listed[h][i] = 1 => i < f.offset)
        /\ \A i \in due[h] : Used(i) /\ files[i].parent = f.node
        /\ \A i \in due[h] : i < f.offset => listed[h][i] = 1

ListInv ==
    /\ due \in [Handles -> SUBSET Inodes]
    /\ listed \in [Handles -> [Inodes -> Nat]]
    /\ \A h \in Handles : HandleOn(h, "dir") => Listing(h)

RInv == TreeInv /\ CwdInv /\ HandleInv /\ Sizes /\ Offsets /\ ListInv

-----------------------------------------------------------------------------
(* Lookups and the results of path resolution.                             *)

LEMMA LeastIs ==
    ASSUME NEW S, S \subseteq Nat, S # {}
    PROVE  Min(S) \in S /\ \A x \in S : Min(S) <= x
<1>1. \E x \in S : \A y \in S : x =< y
  BY LeastNatural
<1> QED BY <1>1 DEF Min

LEMMA InodesNat == Inodes \subseteq Nat /\ 0 \in Inodes /\ -1 \notin Inodes
BY RamFSAssumption DEF Inodes

LEMMA LookupIs ==
    ASSUME NEW dir, NEW name
    PROVE  \/ /\ Lookup(dir, name) = -1
              /\ \A i \in Inodes : ~(Used(i) /\ files[i].parent = dir /\ files[i].name = name)
           \/ /\ Lookup(dir, name) \in Inodes
              /\ Used(Lookup(dir, name)) /\ files[Lookup(dir, name)].parent = dir
              /\ files[Lookup(dir, name)].name = name
<1> DEFINE found == {i \in Inodes : Used(i) /\ files[i].parent = dir /\ files[i].name = name}
<1>1. Lookup(dir, name) = IF found = {} THEN -1 ELSE Min(found)
  BY DEF Lookup
<1>2. CASE found = {}
  BY <1>1, <1>2
<1>3. CASE found # {}
  <2>1. Min(found) \in found
    <3>1. found \subseteq Nat
      BY InodesNat
    <3> HIDE DEF found
    <3> QED BY <1>3, <3>1, LeastIs
  <2>2. Lookup(dir, name) \in found
    BY <1>1, <1>3, <2>1
  <2> QED BY <2>2
<1> QED BY <1>2, <1>3

\* In a sound tree a lookup finds an entry that is there.
LEMMA LookupFinds ==
    ASSUME TreeInv, NEW i \in Inodes, Used(i)
    PROVE  Lookup(files[i].parent, files[i].name) = i
<1> DEFINE j == Lookup(files[i].parent, files[i].name)
<1>1. j \in Inodes /\ Used(j) /\ files[j].parent = files[i].parent /\ files[j].name = files[i].name
  BY LookupIs
<1> HIDE DEF j
<1>2. j = i
  BY <1>1 DEF TreeInv, TreeNames
<1> QED BY <1>2 DEF j

\* What is known of a path while it is resolved.
States == [curr : Inodes, done : BOOLEAN, inode : Inodes \cup {-1},
           parent : Inodes \cup {-1}, name : Names]

WalkOK(r) ==
    /\ r \in States
    /\ IsDir(r.curr)
    /\ \/ r.inode = -1 /\ r.parent = -1
       \/ /\ r.done /\ IsDir(r.parent) /\ r.name \in Plain
          /\ r.inode = Lookup(r.parent, r.name)

LEMMA StepOK ==
    ASSUME TreeInv, NEW r, WalkOK(r), NEW comps \in Seq(Components), NEW k \in 1 .. Len(comps)
    PROVE  WalkOK(ResolveStep(r, comps, k))
<1> DEFINE name == comps[k]
           found == Lookup(r.curr, name)
           s == ResolveStep(r, comps, k)
<1> SUFFICES WalkOK(s)
  OBVIOUS
<1>0. name \in Names /\ name # "" /\ r.done \in BOOLEAN /\ r.curr \in Inodes
  <2>1. name \in Components
    OBVIOUS
  <2>2. r.done \in BOOLEAN /\ r.curr \in Inodes
    BY DEF WalkOK, States
  <2>3. name \in Names
    BY <2>1 DEF Names
  <2> QED BY <2>1, <2>2, <2>3 DEF Components
<1>1. \/ found = -1
      \/ found \in Inodes /\ Used(found)
  BY LookupIs
<1> HIDE DEF name, found
<1>2. CASE r.done \/ name \in {".", "/"}
  <2>1. s = r
    BY <1>2 DEF ResolveStep, name, found
  <2> QED BY <2>1
<1>3. CASE ~r.done /\ name = ".."
  <2>1. s = IF files[r.curr].parent # -1 THEN [r EXCEPT !.curr = files[r.curr].parent] ELSE r
    BY <1>3 DEF ResolveStep, name, found
  <2>2. CASE files[r.curr].parent = -1
    BY <2>1, <2>2
  <2>3. CASE files[r.curr].parent # -1
    <3> DEFINE d == files[r.curr].parent
    <3>1. IsDir(d) /\ d \in Inodes
      BY <2>3 DEF TreeInv, TreeUp, WalkOK, IsDir
    <3> HIDE DEF d
    <3>2. s = [r EXCEPT !.curr = d]
      BY <2>1, <2>3 DEF d
    <3>3. /\ s \in States /\ s.curr = d /\ s.done = r.done /\ s.inode = r.inode
          /\ s.parent = r.parent /\ s.name = r.name
      BY <3>1, <3>2 DEF WalkOK, States
    <3> HIDE DEF s
    <3> QED BY <1>3, <3>1, <3>3 DEF WalkOK
  <2> QED BY <2>2, <2>3
<1>4. CASE ~r.done /\ name \notin {".", "/", ".."} /\ k < Len(comps)
  <2>1. s = IF found = -1 \/ files[found].type # "dir"
            THEN [r EXCEPT !.done = TRUE, !.inode = -1]
            ELSE [r EXCEPT !.curr = found]
    BY <1>4 DEF ResolveStep, name, found
  <2>2. CASE found = -1 \/ files[found].type # "dir"
    <3>1. s = [r EXCEPT !.done = TRUE, !.inode = -1]
      BY <2>1, <2>2
    <3>2. /\ s \in States /\ s.curr = r.curr /\ s.inode = -1 /\ s.parent = r.parent
      BY <3>1 DEF WalkOK, States
    <3> HIDE DEF s
    <3> QED BY <1>4, <3>2 DEF WalkOK
  <2>3. CASE ~(found = -1 \/ files[found].type # "dir")
    <3>1. s = [r EXCEPT !.curr = found]
      BY <2>1, <2>3
    <3>2. /\ s \in States /\ s.curr = found /\ s.inode = r.inode /\ s.parent = r.parent
          /\ s.done = r.done /\ s.name = r.name
      BY <1>1, <2>3, <3>1 DEF WalkOK, States
    <3> HIDE DEF s
    <3> QED BY <1>1, <1>4, <2>3, <3>2 DEF WalkOK, IsDir
  <2> QED BY <2>2, <2>3
<1>5. CASE ~r.done /\ name \notin {".", "/", ".."} /\ ~(k < Len(comps))
  <2>1. s = [r EXCEPT !.done = TRUE, !.inode = found, !.parent = r.curr, !.name = name]
    BY <1>5 DEF ResolveStep, name, found
  <2>2. /\ s \in States /\ s.curr = r.curr /\ s.inode = found /\ s.parent = r.curr
        /\ s.done = TRUE /\ s.name = name
    BY <1>0, <1>1, <2>1 DEF WalkOK, States
  <2>3. found = Lookup(r.curr, name)
    BY DEF found
  <2> HIDE DEF s
  <2> QED BY <1>0, <1>5, <2>2, <2>3 DEF WalkOK, Plain
<1> QED BY <1>2, <1>3, <1>4, <1>5

\* What the callers of resolve_path rely on: an inode that is in use, or, for
\* a name that is not there, the directory to create it in.
Resolved(r) ==
    /\ r.inode = -1 \/ (r.inode \in Inodes /\ Used(r.inode))
    /\ (r.inode = -1 /\ r.parent # -1) =>
         IsDir(r.parent) /\ r.name \in Plain /\ Lookup(r.parent, r.name) = -1

LEMMA WalkSound ==
    ASSUME TreeInv, NEW cwd, IsDir(cwd), NEW path, path.abs \in BOOLEAN,
           path.comps \in Seq(Components)
    PROVE  Resolved(Walk(cwd, path))
<1> DEFINE n == Len(path.comps)
<1>0. n \in Nat
  OBVIOUS
<1>1. PICK w : /\ IsWalk(w, n, Start(cwd, path), path.comps)
               /\ Walk(cwd, path) =
                    IF w[n].done THEN w[n]
                    ELSE [w[n] EXCEPT !.inode = w[n].curr, !.parent = files[w[n].curr].parent]
  BY <1>0, ResolveIsWalk
<1> HIDE DEF n
<1>2. /\ w[0] = Start(cwd, path)
      /\ \A k \in 1 .. n : w[k] = ResolveStep(w[k - 1], path.comps, k)
  BY <1>0, <1>1 DEF IsWalk
<1>3. WalkOK(Start(cwd, path))
  <2> DEFINE r == Start(cwd, path)
  <2>1. cwd \in Inodes /\ 0 \in Inodes /\ IsDir(0)
    BY InodesNat DEF TreeInv, IsDir
  <2>2. r \in States /\ r.inode = -1 /\ r.parent = -1 /\ (r.curr = 0 \/ r.curr = cwd)
    <3>1. "" \in Names
      BY DEF Names
    <3> QED BY <2>1, <3>1 DEF Start, States
  <2> HIDE DEF r
  <2> QED BY <2>1, <2>2 DEF WalkOK, r
<1>4. WalkOK(w[n])
  <2> DEFINE Bad == {k \in 0 .. n : ~WalkOK(w[k])}
  <2>1. SUFFICES ASSUME Bad # {} PROVE FALSE
    BY <1>0
  <2>2. PICK k \in Bad : \A l \in Bad : k <= l
    <3>1. Bad \subseteq Nat
      BY <1>0
    <3> HIDE DEF Bad
    <3> QED BY <2>1, <3>1, LeastNatural
  <2>3. k \in 0 .. n /\ ~WalkOK(w[k])
    OBVIOUS
  <2>4. k # 0
    BY <1>2, <1>3, <2>3
  <2>5. k \in 1 .. n /\ k - 1 \in 0 .. n /\ ~(k <= k - 1)
    BY <1>0, <2>3, <2>4
  <2>6. k - 1 \notin Bad
    <3> HIDE DEF Bad
    <3> QED BY <2>2, <2>5
  <2>7. WalkOK(w[k - 1])
    BY <2>5, <2>6
  <2>8. w[k] = ResolveStep(w[k - 1], path.comps, k)
    BY <1>2, <2>5
  <2>9. WalkOK(ResolveStep(w[k - 1], path.comps, k))
    <3> DEFINE v == w[k - 1]
               cs == path.comps
    <3>1. WalkOK(v) /\ cs \in Seq(Components) /\ k \in 1 .. Len(cs)
      BY <2>5, <2>7 DEF n
    <3> HIDE DEF v, cs
    <3>2. WalkOK(ResolveStep(v, cs, k))
      BY <3>1, StepOK
    <3> QED BY <3>2 DEF v, cs
  <2> QED BY <2>3, <2>8, <2>9
<1>5. CASE w[n].done
  <2>1. Walk(cwd, path) = w[n]
    BY <1>1, <1>5
  <2> QED BY <1>4, <2>1, LookupIs DEF WalkOK, Resolved
<1>6. CASE ~w[n].done
  <2> DEFINE r == w[n]
             q == [r EXCEPT !.inode = r.curr, !.parent = files[r.curr].parent]
  <2>1. Walk(cwd, path) = q
    BY <1>1, <1>6
  <2>2. q.inode = r.curr
    BY <1>4 DEF WalkOK, States
  <2>3. IsDir(r.curr)
    BY <1>4 DEF WalkOK
  <2> HIDE DEF q, r
  <2>4. Resolved(q)
    BY <2>2, <2>3, InodesNat DEF Resolved, IsDir
  <2> QED BY <2>1, <2>4
<1> QED BY <1>5, <1>6

-----------------------------------------------------------------------------
(* The inodes.                                                             *)

\* No call takes an inode out of use, renames it, moves it or shortens it.
FilesKept ==
    \A i \in Inodes : Used(i) =>
        /\ files'[i] # Unused
        /\ files'[i].type = files[i].type /\ files'[i].parent = files[i].parent
        /\ files'[i].name = files[i].name /\ files'[i].size >= files[i].size

\* An entry is created under a name its directory does not have.
LEMMA CreateStep ==
    ASSUME TreeInv, Sizes,
           FreeInodes # {}, NEW r, IsDir(r.parent), r.name \in Plain, Lookup(r.parent, r.name) = -1,
           ~Overruns(r),
           NEW type \in {"file", "dir"}, NEW content \in BOOLEAN,
           files' = [files EXCEPT ![Min(FreeInodes)] = NewNode(r.name, type, r.parent, 0, content)]
    PROVE  /\ TreeInv' /\ FilesKept
           /\ Sizes'
           /\ Min(FreeInodes) \in Inodes /\ files'[Min(FreeInodes)] # Unused
           /\ files'[Min(FreeInodes)].type = type /\ files'[Min(FreeInodes)].size = 0
<1> DEFINE n == Min(FreeInodes)
           new == NewNode(r.name, type, r.parent, 0, content)
<1>1. /\ n \in Inodes /\ ~Used(n)
      /\ \A i \in Inodes : i < n => Used(i)
  <2>1. FreeInodes \subseteq Nat
    BY InodesNat DEF FreeInodes
  <2>2. n \in FreeInodes /\ \A x \in FreeInodes : n <= x
    BY <2>1, LeastIs
  <2> HIDE DEF n
  <2>3. n \in Inodes /\ n \in Nat
    BY <2>1, <2>2 DEF FreeInodes
  <2>4. ASSUME NEW i \in Inodes, i < n PROVE Used(i)
    <3>1. i \in Nat /\ ~(n <= i)
      BY <2>3, <2>4, InodesNat
    <3> QED BY <2>2, <3>1 DEF FreeInodes
  <2> QED BY <2>2, <2>3, <2>4 DEF FreeInodes
<1>a. r.parent \in Inodes /\ \A i \in Inodes : i \in Nat
  BY InodesNat DEF IsDir
<1>b. r.name \in Names
  BY DEF Plain
<1>2. r.parent \in Nat /\ n \in Nat
  BY <1>1, <1>a
<1>3. /\ new \in Nodes /\ new # Unused /\ new.name = r.name /\ new.type = type
      /\ new.parent = r.parent /\ new.size = 0
  <2>1. /\ new \in Nodes /\ new.name = r.name /\ new.type = type
        /\ new.parent = r.parent /\ new.size = 0
    BY <1>2, <1>b DEF NewNode, Nodes
  <2>2. Unused.type = "unused"
    BY DEF Unused
  <2> HIDE DEF new
  <2> QED BY <2>1, <2>2
<1> HIDE DEF n, new
<1>4. files \in [Inodes -> Nodes \cup {Unused}]
  BY DEF TreeInv
<1>5. /\ files' \in [Inodes -> Nodes \cup {Unused}]
      /\ files'[n] = new
      /\ \A i \in Inodes : i # n => files'[i] = files[i]
  BY <1>1, <1>3, <1>4 DEF n, new
<1>6. \A i \in Inodes : Used(i) => i # n /\ i < n
  <2> SUFFICES ASSUME NEW i \in Inodes, Used(i) PROVE i # n /\ i < n
    OBVIOUS
  <2>1. i # n
    BY <1>1
  <2>2. ~(n < i)
    BY <1>1 DEF TreeInv, TreePacked
  <2>3. i \in Nat
    BY <1>a
  <2> QED BY <1>2, <2>1, <2>2, <2>3
<1>7. \A i \in Inodes : (files'[i] # Unused) <=> (Used(i) \/ i = n)
  BY <1>3, <1>5, <1>6 DEF Used
<1>8. FilesKept
  <2> SUFFICES ASSUME NEW i \in Inodes, Used(i) PROVE files'[i] # Unused /\ files'[i] = files[i] /\ files[i].size \in Nat
    BY DEF FilesKept
  <2>1. files[i] \in Nodes
    BY <1>4 DEF Used
  <2> QED BY <1>5, <1>6, <1>7, <2>1 DEF Nodes
<1>9. TreeInv'
  <2>1. \A d \in Inodes : IsDir(d) => IsDir(d)'
    BY <1>5, <1>6, <1>7 DEF IsDir, Used
  <2>2. r.parent \in 0 .. n - 1
    <3>1. r.parent < n
      BY <1>6, <1>a DEF IsDir
    <3> QED BY <1>2, <3>1
  <2>3. 0 \in Inodes /\ IsDir(0) /\ files[0].parent = -1 /\ files[0].name = ""
    BY InodesNat DEF TreeInv
  <2>4. IsDir(0)' /\ files'[0].parent = -1 /\ files'[0].name = ""
    BY <1>5, <1>6, <2>1, <2>3 DEF IsDir
  <2>5. ASSUME NEW i \in Inodes \ {0}, files'[i] # Unused
        PROVE  /\ files'[i].parent \in 0 .. i - 1 /\ files'[i].name \in Plain
               /\ \E d : files'[i].parent = d /\ IsDir(d)'
    <3>1. CASE i = n
      BY <1>a, <1>3, <1>5, <2>1, <2>2, <3>1
    <3>2. CASE i # n
      <4>1. files'[i] = files[i] /\ Used(i)
        BY <1>5, <1>7, <2>5, <3>2
      <4>2. files[i].parent \in 0 .. i - 1 /\ IsDir(files[i].parent) /\ files[i].name \in Plain
        BY <4>1 DEF TreeInv, TreeUp
      <4>3. files[i].parent \in Inodes
        BY <4>2 DEF IsDir
      <4> QED BY <2>1, <4>1, <4>2, <4>3
    <3> QED BY <3>1, <3>2
  <2>6. ASSUME NEW i \in Inodes, NEW j \in Inodes, i < j, files'[j] # Unused PROVE files'[i] # Unused
    <3>1. Used(j) => Used(i)
      BY <2>6 DEF TreeInv, TreePacked
    <3>2. j = n => Used(i)
      BY <1>1, <2>6
    <3> QED BY <1>7, <2>6, <3>1, <3>2
  <2>7. ASSUME NEW i \in Inodes, NEW j \in Inodes, files'[i] # Unused, files'[j] # Unused,
               files'[i].parent = files'[j].parent, files'[i].name = files'[j].name
        PROVE  i = j
    <3>1. \A x \in Inodes : ~(Used(x) /\ files[x].parent = r.parent /\ files[x].name = r.name)
      <4>1. Lookup(r.parent, r.name) \notin Inodes
        BY InodesNat
      <4> QED BY <4>1, LookupIs
    <3>2. CASE i = n /\ j # n
      BY <1>3, <1>5, <1>7, <2>7, <3>1, <3>2
    <3>3. CASE i # n /\ j = n
      BY <1>3, <1>5, <1>7, <2>7, <3>1, <3>3
    <3>4. CASE i # n /\ j # n
      <4>1. Used(i) /\ Used(j) /\ files'[i] = files[i] /\ files'[j] = files[j]
        BY <1>5, <1>7, <2>7, <3>4
      <4> QED BY <2>7, <4>1 DEF TreeInv, TreeNames
    <3> QED BY <3>2, <3>3, <3>4
  <2>8. TreeUp'
    BY <2>5 DEF TreeUp, Used, IsDir
  <2>9. TreePacked'
    BY <2>6 DEF TreePacked, Used
  <2>10. TreeNames'
    BY <2>7 DEF TreeNames, Used
  <2> QED BY <1>5, <2>4, <2>8, <2>9, <2>10 DEF TreeInv
<1>10. ASSUME NEW i \in Inodes, files'[i] # Unused
       PROVE  files'[i].size <= CAP /\ NameLen(files'[i].name) \in 0 .. NAME_SIZE - 1
  <2>1. CASE i = n
    <3>1. NameLen(r.name) \in 0 .. NAME_SIZE - 1
      BY DEF Overruns
    <3> QED BY <1>3, <1>5, <2>1, <3>1, RamFSAssumption
  <2>2. CASE i # n
    BY <1>5, <1>7, <1>10, <2>2 DEF Sizes
  <2> QED BY <2>1, <2>2
<1> QED BY <1>1, <1>3, <1>5, <1>8, <1>9, <1>10 DEF Used, Sizes, n

\* A file grows.
LEMMA SizeStep ==
    ASSUME TreeInv, Sizes,
           NEW n \in Inodes, Used(n), NEW z \in Nat, files[n].size <= z, z <= CAP,
           files' = [files EXCEPT ![n].size = z]
    PROVE  /\ TreeInv' /\ FilesKept
           /\ Sizes'
           /\ files'[n].size = z
           /\ \A i \in Inodes : i # n => files'[i] = files[i]
<1>1. files \in [Inodes -> Nodes \cup {Unused}] /\ files[n] \in Nodes
  BY DEF TreeInv, Used
<1> DEFINE new == [files[n] EXCEPT !.size = z]
<1>2. /\ new \in Nodes /\ new.name = files[n].name /\ new.type = files[n].type
      /\ new.parent = files[n].parent /\ new.size = z
  BY <1>1 DEF Nodes
<1>3. files' = [files EXCEPT ![n] = new]
  OBVIOUS
<1>4. new # Unused
  <2>1. Unused.type = "unused" /\ files[n].type # "unused"
    BY <1>1 DEF Unused, Nodes
  <2> HIDE DEF new
  <2> QED BY <1>2, <2>1
<1> HIDE DEF new
<1>5. /\ files' \in [Inodes -> Nodes \cup {Unused}]
      /\ files'[n] = new
      /\ \A i \in Inodes : i # n => files'[i] = files[i]
  BY <1>1, <1>2, <1>3
<1>6. /\ \A i \in Inodes : (files'[i] # Unused) <=> Used(i)
      /\ \A i \in Inodes : /\ files'[i].type = files[i].type /\ files'[i].parent = files[i].parent
                           /\ files'[i].name = files[i].name
  BY <1>2, <1>4, <1>5 DEF Used
<1>7. FilesKept
  <2> SUFFICES ASSUME NEW i \in Inodes, Used(i) PROVE files'[i].size >= files[i].size
    BY <1>6 DEF FilesKept
  <2>1. files[i] \in Nodes
    BY <1>1 DEF Used
  <2>2. files[i].size \in Nat
    BY <2>1 DEF Nodes
  <2> QED BY <1>2, <1>5, <2>2
<1>8. \A d : IsDir(d) <=> IsDir(d)'
  BY <1>6 DEF IsDir, Used
<1>9. TreeInv'
  <2>1. 0 \in Inodes /\ IsDir(0)' /\ files'[0].parent = -1 /\ files'[0].name = ""
    BY <1>6, <1>8, InodesNat DEF TreeInv
  <2>2. ASSUME NEW i \in Inodes \ {0}, files'[i] # Unused
        PROVE  /\ files'[i].parent \in 0 .. i - 1 /\ files'[i].name \in Plain
               /\ \E d : files'[i].parent = d /\ IsDir(d)'
    <3>1. Used(i)
      BY <1>6, <2>2
    <3>2. files[i].parent \in 0 .. i - 1 /\ IsDir(files[i].parent) /\ files[i].name \in Plain
      BY <3>1 DEF TreeInv, TreeUp
    <3> QED BY <1>6, <1>8, <3>2
  <2>3. ASSUME NEW i \in Inodes, NEW j \in Inodes, i < j, files'[j] # Unused PROVE files'[i] # Unused
    BY <1>6, <2>3 DEF TreeInv, TreePacked
  <2>4. ASSUME NEW i \in Inodes, NEW j \in Inodes, files'[i] # Unused, files'[j] # Unused,
               files'[i].parent = files'[j].parent, files'[i].name = files'[j].name
        PROVE  i = j
    BY <1>6, <2>4 DEF TreeInv, TreeNames
  <2>5. TreeUp'
    BY <2>2 DEF TreeUp, Used, IsDir
  <2>6. TreePacked'
    BY <2>3 DEF TreePacked, Used
  <2>7. TreeNames'
    BY <2>4 DEF TreeNames, Used
  <2> QED BY <1>5, <2>1, <2>5, <2>6, <2>7 DEF TreeInv
<1>10. ASSUME NEW i \in Inodes, files'[i] # Unused
       PROVE  files'[i].size <= CAP /\ NameLen(files'[i].name) \in 0 .. NAME_SIZE - 1
  BY <1>2, <1>5, <1>6, <1>10 DEF Sizes
<1> QED BY <1>2, <1>5, <1>7, <1>9, <1>10 DEF Used, Sizes

-----------------------------------------------------------------------------
(* Handles and descriptors.                                                *)

LEMMA KeptNothing == ASSUME TreeInv, UNCHANGED files PROVE FilesKept
<1> SUFFICES ASSUME NEW i \in Inodes, Used(i) PROVE files[i].size \in Nat
  BY DEF FilesKept, Used
<1>1. files[i] \in Nodes
  BY DEF TreeInv, Used
<1> QED BY <1>1 DEF Nodes

LEMMA OpenIs ==
    ASSUME HandleInv, NEW h \in Handles, global_file_table[h] # Closed
    PROVE  /\ global_file_table[h] \in OpenFiles /\ global_file_table[h].node \in Inodes
           /\ global_file_table[h].offset \in Nat /\ Used(global_file_table[h].node)
<1>1. global_file_table[h] \in OpenFiles
  BY DEF HandleInv
<1> QED BY <1>1 DEF HandleInv, OpenFiles

\* What the invariant says of one handle.
HandleFacts(h) ==
    /\ global_file_table[h] # Closed => Used(global_file_table[h].node)
    /\ HandleOn(h, "file") =>
         global_file_table[h].offset <= files[global_file_table[h].node].size
    /\ HandleOn(h, "dir") => Listing(h)

\* A call that leaves a handle alone keeps what is known of it.
LEMMA KeepHandle ==
    ASSUME RInv, FilesKept, TreeInv', NEW h \in Handles,
           global_file_table'[h] = global_file_table[h], due'[h] = due[h], listed'[h] = listed[h]
    PROVE  HandleFacts(h)'
<1> DEFINE f == global_file_table[h]
           n == f.node
<1>0. SUFFICES ASSUME f # Closed PROVE HandleFacts(h)'
  BY DEF HandleFacts, HandleOn
<1>1. f \in OpenFiles /\ n \in Inodes /\ Used(n) /\ f.offset \in Nat
  BY <1>0, OpenIs DEF RInv
<1>2. files'[n] # Unused /\ files'[n].type = files[n].type /\ files'[n].size >= files[n].size
  BY <1>1 DEF FilesKept
<1>3. files[n] \in Nodes /\ files'[n] \in Nodes
  BY <1>1, <1>2 DEF RInv, TreeInv, Used
<1>4. files[n].size \in Nat /\ files'[n].size \in Nat
  BY <1>3 DEF Nodes
<1>5. ASSUME files[n].type = "file" PROVE f.offset <= files'[n].size
  <2>1. f.offset <= files[n].size
    BY <1>0, <1>5 DEF RInv, Offsets, HandleOn
  <2> QED BY <1>1, <1>2, <1>4, <2>1
<1>6. ASSUME files[n].type = "dir" PROVE Listing(h)'
  <2>1. Listing(h)
    BY <1>0, <1>6 DEF RInv, ListInv, HandleOn
  <2>2. due[h] \subseteq Inodes
    BY DEF RInv, ListInv
  <2>3. \A i \in due[h] : files'[i] # Unused /\ files'[i].parent = files[i].parent
    BY <2>1, <2>2 DEF Listing, FilesKept
  <2> QED BY <2>1, <2>3 DEF Listing, Used
<1> QED BY <1>2, <1>5, <1>6 DEF HandleFacts, HandleOn, Used

\* The parts about each handle make up the whole.
LEMMA HandleFactsAll ==
    ASSUME \A h \in Handles : HandleFacts(h)'
    PROVE  /\ Offsets' /\ \A h \in Handles : HandleOn(h, "dir")' => Listing(h)'
           /\ \A h \in Handles : global_file_table'[h] # Closed
                 => files'[global_file_table'[h].node] # Unused
BY DEF HandleFacts, Offsets, Used

LEMMA KeepHandles ==
    ASSUME RInv, FilesKept, TreeInv', UNCHANGED <<global_file_table, fd_table, due, listed>>
    PROVE  HandleInv' /\ Offsets' /\ ListInv'
<1>1. \A h \in Handles : HandleFacts(h)'
  BY KeepHandle
<1>2. HandleInv'
  BY <1>1, HandleFactsAll DEF RInv, HandleInv, Used
<1> QED BY <1>1, <1>2, HandleFactsAll DEF RInv, ListInv

LEMMA KeepCwd ==
    ASSUME TreeInv, CwdInv, FilesKept, UNCHANGED <<cwd_inode, alive>>
    PROVE  CwdInv'
<1>1. ASSUME NEW d \in Inodes, IsDir(d) PROVE IsDir(d)'
  BY <1>1 DEF IsDir, FilesKept, Used
<1>2. ASSUME NEW p \in Procs PROVE IsDir(cwd_inode[p])'
  <2> DEFINE d == cwd_inode[p]
  <2>1. d \in Inodes /\ IsDir(d)
    BY DEF CwdInv
  <2>2. cwd_inode'[p] = d
    OBVIOUS
  <2> QED BY <1>1, <2>1, <2>2 DEF IsDir, Used
<1> QED BY <1>2 DEF CwdInv

\* ramfs_open takes the handle and the descriptor it finds, or neither.
LEMMA OpenStep ==
    ASSUME RInv, FilesKept, TreeInv', NEW p \in Procs, NEW inode \in Inodes, NEW fs, fs = files',
           files'[inode] # Unused, OpenInode(p, inode, fs)
    PROVE  HandleInv' /\ Offsets' /\ ListInv'
<1> DEFINE least == Min(FreeHandles)
           fd == Min(FreeFds(p))
           dues == {i \in Inodes : fs[i] # Unused /\ fs[i].parent = inode}
<1>1. CASE FreeHandles = {}
  <2>1. UNCHANGED <<global_file_table, fd_table, due, listed>>
    BY <1>1 DEF OpenInode
  <2> QED BY <2>1, KeepHandles
<1>2. CASE FreeHandles # {}
  <2>1. PICK h \in Handles : /\ h = least /\ global_file_table[h] = Closed
                             /\ \A q \in Procs, fe \in Fds : fd_table[q][fe] # h
    <3>1. FreeHandles \subseteq Nat /\ FreeHandles \subseteq Handles
      BY DEF FreeHandles, Handles
    <3>2. least \in FreeHandles
      BY <1>2, <3>1, LeastIs
    <3>3. least \in Handles /\ global_file_table[least] = Closed /\ least # 0
      BY <3>2 DEF FreeHandles, Handles
    <3> HIDE DEF least
    <3> QED BY <3>3 DEF RInv, HandleInv
  <2>2. /\ global_file_table' = OpenHandles(p, inode)
        /\ due' = [due EXCEPT ![h] = dues]
        /\ listed' = [listed EXCEPT ![h] = NoneListed]
        /\ FreeFds(p) = {} => fd_table' = fd_table
        /\ FreeFds(p) # {} => fd_table' = [fd_table EXCEPT ![p][fd] = h]
    BY <1>2, <2>1 DEF OpenInode
  <2>3. /\ FreeFds(p) = {} => global_file_table' = global_file_table
        /\ FreeFds(p) # {} => global_file_table' =
             [global_file_table EXCEPT ![h] = [node |-> inode, offset |-> 0]]
    BY <2>1, <2>2 DEF OpenHandles
  <2>4. FreeFds(p) # {} => fd \in Fds /\ fd_table[p][fd] = 0
    <3>1. FreeFds(p) \subseteq Nat
      BY RamFSAssumption DEF FreeFds, Fds
    <3>2. FreeFds(p) # {} => fd \in FreeFds(p)
      BY <3>1, LeastIs
    <3> QED BY <3>2 DEF FreeFds
  <2> HIDE DEF least, fd, dues
  <2>5. /\ global_file_table \in [Handles -> OpenFiles \cup {Closed}]
        /\ fd_table \in [Procs -> [Fds -> 0 .. MAX_OPEN]]
        /\ due \in [Handles -> SUBSET Inodes] /\ listed \in [Handles -> [Inodes -> Nat]]
    BY DEF RInv, HandleInv, ListInv
  <2>6. dues \in SUBSET Inodes /\ NoneListed \in [Inodes -> Nat]
    BY DEF dues, NoneListed
  <2>7. due' \in [Handles -> SUBSET Inodes] /\ listed' \in [Handles -> [Inodes -> Nat]]
    BY <2>1, <2>2, <2>5, <2>6
  <2>8. /\ due'[h] = dues /\ listed'[h] = NoneListed
        /\ \A g \in Handles : g # h =>
             /\ due'[g] = due[g] /\ listed'[g] = listed[g]
             /\ global_file_table'[g] = global_file_table[g]
    BY <2>1, <2>2, <2>3, <2>5
  <2>9. \A g \in Handles : g # h => HandleFacts(g)'
    BY <2>8, KeepHandle
  <2>10. CASE FreeFds(p) = {}
    <3>1. global_file_table' = global_file_table /\ fd_table' = fd_table
      BY <2>2, <2>3, <2>10
    <3>2. HandleFacts(h)'
      BY <2>1, <3>1 DEF HandleFacts, HandleOn
    <3>3. \A g \in Handles : HandleFacts(g)'
      BY <2>9, <3>2
    <3>4. HandleInv'
      BY <3>1, <3>3, HandleFactsAll DEF RInv, HandleInv, Used
    <3> QED BY <2>7, <3>3, <3>4, HandleFactsAll DEF ListInv
  <2>11. CASE FreeFds(p) # {}
    <3> DEFINE f == [node |-> inode, offset |-> 0]
    <3>1. /\ f \in OpenFiles /\ f # Closed /\ f.node = inode /\ f.offset = 0
      BY DEF OpenFiles, Closed
    <3>2. /\ global_file_table' = [global_file_table EXCEPT ![h] = f]
          /\ fd_table' = [fd_table EXCEPT ![p][fd] = h] /\ fd \in Fds /\ fd_table[p][fd] = 0
      BY <2>2, <2>3, <2>4, <2>11
    <3> HIDE DEF f
    <3>3. /\ global_file_table' \in [Handles -> OpenFiles \cup {Closed}]
          /\ global_file_table'[h] = f
      BY <2>1, <2>5, <3>1, <3>2
    <3>4. /\ fd_table' \in [Procs -> [Fds -> 0 .. MAX_OPEN]]
          /\ fd_table'[p][fd] = h
          /\ \A q \in Procs, fe \in Fds : ~(q = p /\ fe = fd) => fd_table'[q][fe] = fd_table[q][fe]
      <4>1. h \in 0 .. MAX_OPEN
        BY <2>1 DEF Handles
      <4> QED BY <2>5, <3>2, <4>1
    <3>5. HandleFacts(h)'
      <4>1. Used(f.node)'
        BY <3>1 DEF Used
      <4>2. 0 <= files'[inode].size
        <5>1. files'[inode] \in Nodes
          BY DEF TreeInv
        <5> QED BY <5>1 DEF Nodes
      <4>3. Listing(h)'
        <5>1. \A i \in Inodes : NoneListed[i] = 0
          BY DEF NoneListed
        <5>2. \A i \in dues : i \in Inodes /\ files'[i] # Unused /\ files'[i].parent = inode
          BY DEF dues
        <5>3. \A i \in Inodes : ~(i < 0)
          BY InodesNat
        <5>4. 0 <= MAX_FILES
          BY RamFSAssumption
        <5> QED BY <2>8, <3>1, <3>3, <5>1, <5>2, <5>3, <5>4 DEF Listing, Used
      <4> QED BY <3>1, <3>3, <4>1, <4>2, <4>3 DEF HandleFacts, HandleOn
    <3>6. \A g \in Handles : HandleFacts(g)'
      BY <2>9, <3>5
    <3>7. \A q \in Procs, fe \in Fds :
            fd_table'[q][fe] # 0 => global_file_table'[fd_table'[q][fe]] # Closed
      <4> SUFFICES ASSUME NEW q \in Procs, NEW fe \in Fds, fd_table'[q][fe] # 0
                   PROVE  global_file_table'[fd_table'[q][fe]] # Closed
        OBVIOUS
      <4>1. CASE q = p /\ fe = fd
        BY <3>1, <3>3, <3>4, <4>1
      <4>2. CASE ~(q = p /\ fe = fd)
        <5>1. fd_table'[q][fe] = fd_table[q][fe] /\ fd_table[q][fe] # h
          BY <2>1, <3>4, <4>2
        <5>2. fd_table[q][fe] \in Handles /\ global_file_table[fd_table[q][fe]] # Closed
          BY <2>5, <5>1 DEF RInv, HandleInv, Handles
        <5> QED BY <2>8, <5>1, <5>2
      <4> QED BY <4>1, <4>2
    <3>8. \A g \in Handles : global_file_table'[g] # Closed =>
            \E q \in Procs, fe \in Fds : fd_table'[q][fe] = g
      <4> SUFFICES ASSUME NEW g \in Handles, global_file_table'[g] # Closed
                   PROVE  \E q \in Procs, fe \in Fds : fd_table'[q][fe] = g
        OBVIOUS
      <4>1. CASE g = h
        BY <3>2, <3>4, <4>1
      <4>2. CASE g # h
        <5>1. PICK q \in Procs, fe \in Fds : fd_table[q][fe] = g
          BY <2>8, <4>2 DEF RInv, HandleInv
        <5>2. g # 0
          BY DEF Handles
        <5> QED BY <3>2, <3>4, <5>1, <5>2
      <4> QED BY <4>1, <4>2
    <3>9. ASSUME NEW q \in Procs, NEW v \in Procs, NEW fe \in Fds, NEW ff \in Fds,
                 fd_table'[q][fe] # 0, fd_table'[q][fe] = fd_table'[v][ff]
          PROVE  q = v /\ fe = ff
      <4>1. CASE q = p /\ fe = fd
        BY <2>1, <3>4, <3>9, <4>1
      <4>2. CASE v = p /\ ff = fd
        BY <2>1, <3>4, <3>9, <4>2
      <4>3. CASE ~(q = p /\ fe = fd) /\ ~(v = p /\ ff = fd)
        BY <3>4, <3>9, <4>3 DEF RInv, HandleInv
      <4> QED BY <4>1, <4>2, <4>3
    <3>10. HandleInv'
      BY <3>3, <3>4, <3>6, <3>7, <3>8, <3>9, HandleFactsAll DEF HandleInv, Used
    <3> QED BY <2>7, <3>6, <3>10, HandleFactsAll DEF ListInv
  <2> QED BY <2>10, <2>11
<1> QED BY <1>1, <1>2

\* A call moves the offset of one handle, and may note what it listed.
LEMMA MoveStep ==
    ASSUME RInv, FilesKept, TreeInv', NEW h \in Handles, global_file_table[h] # Closed,
           NEW to \in Nat, global_file_table' = [global_file_table EXCEPT ![h].offset = to],
           UNCHANGED <<fd_table, due>>,
           listed' \in [Handles -> [Inodes -> Nat]],
           \A g \in Handles : g # h => listed'[g] = listed[g],
           files[global_file_table[h].node].type = "file" =>
               to <= files'[global_file_table[h].node].size,
           files[global_file_table[h].node].type = "dir" => Listing(h)'
    PROVE  HandleInv' /\ Offsets' /\ ListInv'
<1> DEFINE f == global_file_table[h]
           n == f.node
           e == [f EXCEPT !.offset = to]
<1>1. f \in OpenFiles /\ n \in Inodes /\ Used(n)
  BY OpenIs DEF RInv
<1>2. e \in OpenFiles /\ e.node = n /\ e.offset = to
  BY <1>1 DEF OpenFiles
<1>3. e # Closed
  <2>1. Closed.offset = -1
    BY DEF Closed
  <2> HIDE DEF e
  <2> QED BY <1>2, <2>1
<1>4. global_file_table' = [global_file_table EXCEPT ![h] = e]
  OBVIOUS
<1> HIDE DEF e
<1>5. global_file_table \in [Handles -> OpenFiles \cup {Closed}]
  BY DEF RInv, HandleInv
<1>6. /\ global_file_table' \in [Handles -> OpenFiles \cup {Closed}]
      /\ global_file_table'[h] = e
      /\ \A g \in Handles : g # h => global_file_table'[g] = global_file_table[g]
      /\ \A g \in Handles : global_file_table'[g] # Closed <=> global_file_table[g] # Closed
  BY <1>2, <1>3, <1>4, <1>5
<1>7. HandleFacts(h)'
  <2>1. files'[n] # Unused /\ files'[n].type = files[n].type
    BY <1>1 DEF FilesKept
  <2> QED BY <1>2, <1>6, <2>1 DEF HandleFacts, HandleOn, Used
<1>8. \A g \in Handles : HandleFacts(g)'
  <2> SUFFICES ASSUME NEW g \in Handles, g # h PROVE HandleFacts(g)'
    BY <1>7
  <2> QED BY <1>6, KeepHandle
<1>9. HandleInv'
  <2>1. \A g \in Handles : global_file_table'[g] # Closed => files'[global_file_table'[g].node] # Unused
    BY <1>8, HandleFactsAll
  <2>2. fd_table \in [Procs -> [Fds -> 0 .. MAX_OPEN]]
    BY DEF RInv, HandleInv
  <2>3. \A q \in Procs, fe \in Fds : fd_table[q][fe] # 0 => fd_table[q][fe] \in Handles
    BY <2>2 DEF Handles
  <2> QED BY <1>6, <2>1, <2>2, <2>3 DEF RInv, HandleInv, Used
<1> QED BY <1>8, <1>9, HandleFactsAll DEF RInv, ListInv

\* ramfs_close gives back the handle of the descriptor.
LEMMA CloseStep ==
    ASSUME RInv, NEW p \in Procs, NEW fd \in Fds, fd_table[p][fd] # 0,
           global_file_table' = [global_file_table EXCEPT ![fd_table[p][fd]] = Closed],
           fd_table' = [fd_table EXCEPT ![p][fd] = 0],
           UNCHANGED <<files, due, listed>>
    PROVE  HandleInv' /\ Offsets' /\ ListInv'
<1>1. PICK h \in Handles : h = fd_table[p][fd] /\ h # 0
  BY DEF RInv, HandleInv, Handles
<1>2. /\ global_file_table \in [Handles -> OpenFiles \cup {Closed}]
      /\ fd_table \in [Procs -> [Fds -> 0 .. MAX_OPEN]]
  BY DEF RInv, HandleInv
<1>3. /\ global_file_table' \in [Handles -> OpenFiles \cup {Closed}]
      /\ global_file_table'[h] = Closed
      /\ \A g \in Handles : g # h => global_file_table'[g] = global_file_table[g]
  BY <1>1, <1>2
<1>4. /\ fd_table' \in [Procs -> [Fds -> 0 .. MAX_OPEN]]
      /\ fd_table'[p][fd] = 0
      /\ \A q \in Procs, fe \in Fds : ~(q = p /\ fe = fd) => fd_table'[q][fe] = fd_table[q][fe]
  <2>1. 0 \in 0 .. MAX_OPEN
    BY RamFSAssumption
  <2> QED BY <1>2, <2>1
<1>5. TreeInv' /\ FilesKept
  <2>1. TreeInv'
    BY DEF RInv, TreeInv, TreeUp, TreePacked, TreeNames, IsDir, Used
  <2> QED BY <2>1, KeptNothing DEF RInv
<1>6. \A g \in Handles : HandleFacts(g)'
  <2> SUFFICES ASSUME NEW g \in Handles PROVE HandleFacts(g)'
    OBVIOUS
  <2>1. CASE g = h
    BY <1>3, <2>1 DEF HandleFacts, HandleOn
  <2>2. CASE g # h
    BY <1>3, <1>5, <2>2, KeepHandle
  <2> QED BY <2>1, <2>2
<1>7. \A q \in Procs, fe \in Fds : fd_table[q][fe] = h => q = p /\ fe = fd
  BY <1>1 DEF RInv, HandleInv
<1>8. \A q \in Procs, fe \in Fds :
        fd_table'[q][fe] # 0 => global_file_table'[fd_table'[q][fe]] # Closed
  <2> SUFFICES ASSUME NEW q \in Procs, NEW fe \in Fds, fd_table'[q][fe] # 0
               PROVE  global_file_table'[fd_table'[q][fe]] # Closed
    OBVIOUS
  <2>1. fd_table'[q][fe] = fd_table[q][fe] /\ fd_table[q][fe] # h
    BY <1>4, <1>7
  <2>2. fd_table[q][fe] \in Handles /\ global_file_table[fd_table[q][fe]] # Closed
    BY <1>2, <2>1 DEF RInv, HandleInv, Handles
  <2> QED BY <1>3, <2>1, <2>2
<1>9. ASSUME NEW g \in Handles, global_file_table'[g] # Closed
      PROVE  \E q \in Procs, fe \in Fds : fd_table'[q][fe] = g
  <2>1. g # h /\ global_file_table[g] # Closed
    BY <1>3, <1>9
  <2>2. PICK q \in Procs, fe \in Fds : fd_table[q][fe] = g
    BY <2>1 DEF RInv, HandleInv
  <2> QED BY <1>1, <1>4, <2>1, <2>2
<1>10. ASSUME NEW q \in Procs, NEW v \in Procs, NEW fe \in Fds, NEW ff \in Fds,
              fd_table'[q][fe] # 0, fd_table'[q][fe] = fd_table'[v][ff]
       PROVE  q = v /\ fe = ff
  <2>1. fd_table'[q][fe] = fd_table[q][fe] /\ fd_table'[v][ff] = fd_table[v][ff]
    BY <1>4, <1>10
  <2> QED BY <1>10, <2>1 DEF RInv, HandleInv
<1>11. HandleInv'
  BY <1>3, <1>4, <1>6, <1>8, <1>9, <1>10, HandleFactsAll DEF HandleInv, Used
<1> QED BY <1>6, <1>11, HandleFactsAll DEF RInv, ListInv

-----------------------------------------------------------------------------
(* Counts.                                                                 *)

LEMMA GreaterOf ==
    ASSUME NEW a \in Int, NEW b \in Int, NEW S, S = {a, b}
    PROVE  Max(S) \in S /\ Max(S) >= a /\ Max(S) >= b
<1>1. \E x \in S : \A y \in S : x >= y
  <2>1. CASE a >= b
    BY <2>1
  <2>2. CASE b >= a
    BY <2>2
  <2> QED BY <2>1, <2>2
<1> QED BY <1>1 DEF Max

\* Reading stops at the end of the file, writing at the end of the buffer.
LEMMA CountsCut ==
    ASSUME NEW offset \in Nat, NEW limit \in Nat, offset <= limit, limit <= CAP, NEW count \in Counts,
           NEW n, n = IF Sum64(offset, count) > limit THEN limit - offset ELSE count
    PROVE  n \in Int /\ (n >= 0 => offset + n <= limit)
<1>1. count \in Int /\ CAP \in Nat /\ WORD \in Nat /\ CAP + count < WORD
  BY RamFSAssumption
<1>2. \A x, y \in Nat : x < y => x % y = x
  OBVIOUS
<1>3. CASE count < 0
  BY <1>1, <1>3
<1>4. CASE count >= 0
  <2> DEFINE s == offset + count
  <2>1. s \in Nat /\ s < WORD
    BY <1>1, <1>4
  <2>2. Sum64(offset, count) = s
    <3>1. Sum64(offset, count) = s % WORD
      BY DEF Sum64
    <3> HIDE DEF s
    <3> QED BY <1>1, <1>2, <2>1, <3>1
  <2> QED BY <1>1, <1>4, <2>2
<1> QED BY <1>1, <1>3, <1>4

\* The entries that fit are those before the place where the next call goes on.
LEMMA FittingCut ==
    ASSUME NEW rest \in SUBSET Inodes, NEW count \in Int, NEW fit, NEW to,
           fit = Fitting(rest, count), to = NextSearch(rest, fit)
    PROVE  /\ fit \subseteq rest
           /\ to \in 0 .. MAX_FILES
           /\ \A i \in rest : i < to <=> i \in fit
           /\ to = MAX_FILES \/ to \in rest
<1> DEFINE Before(i) == {j \in rest : j < i}
<1>1. \A i : i \in fit <=> i \in rest /\ Cardinality(Before(i)) < count
  BY DEF Fitting
<1>2. \A i \in Inodes : i \in Nat /\ i < MAX_FILES
  BY RamFSAssumption DEF Inodes
<1>3. CASE fit = rest
  <2>1. to = MAX_FILES
    BY <1>3 DEF NextSearch
  <2> QED BY <1>2, <1>3, <2>1, RamFSAssumption
<1>4. CASE fit # rest
  <2> DEFINE m == Min(rest \ fit)
  <2>1. m \in rest \ fit /\ \A x \in rest \ fit : m <= x
    <3>1. rest \ fit \subseteq Nat /\ rest \ fit # {}
      BY <1>1, <1>2, <1>4
    <3> QED BY <3>1, LeastIs
  <2>2. to = m
    BY <1>4 DEF NextSearch
  <2> HIDE DEF m
  <2>3. m \in rest /\ m \in Nat /\ m < MAX_FILES /\ m \notin fit
    BY <1>2, <2>1
  <2>4. ASSUME NEW i \in fit PROVE i < m
    <3>1. i \in rest /\ i \in Nat /\ i # m /\ Cardinality(Before(i)) < count
      BY <1>1, <1>2, <2>3
    <3>2. SUFFICES ASSUME m < i PROVE FALSE
      BY <2>3, <3>1
    <3>3. Before(m) \subseteq Before(i)
      <4> SUFFICES ASSUME NEW j \in rest, j < m PROVE j < i
        OBVIOUS
      <4>1. j \in Nat
        BY <1>2
      <4> QED BY <2>3, <3>1, <3>2, <4>1
    <3>4. IsFiniteSet(Before(i))
      <4>1. IsFiniteSet(Inodes)
        BY RamFSAssumption, FS_Interval DEF Inodes
      <4>2. Before(i) \subseteq Inodes
        OBVIOUS
      <4> QED BY <4>1, <4>2, FS_Subset
    <3>5. /\ Cardinality(Before(m)) <= Cardinality(Before(i))
          /\ Cardinality(Before(m)) \in Nat /\ Cardinality(Before(i)) \in Nat
      <4> DEFINE S == Before(m)
                 T == Before(i)
      <4> HIDE DEF S, T
      <4>1. S \subseteq T /\ IsFiniteSet(T)
        BY <3>3, <3>4 DEF S, T
      <4>2. IsFiniteSet(S) /\ Cardinality(S) <= Cardinality(T)
        BY <4>1, FS_Subset
      <4>3. Cardinality(S) \in Nat /\ Cardinality(T) \in Nat
        BY <4>1, <4>2, FS_CardinalityType
      <4> QED BY <4>2, <4>3 DEF S, T
    <3>6. Cardinality(Before(m)) < count
      BY <3>1, <3>5
    <3> QED BY <1>1, <2>3, <3>6
  <2>5. ASSUME NEW i \in rest, i < m PROVE i \in fit
    <3>1. i \in Nat /\ ~(m <= i)
      BY <1>2, <2>3, <2>5
    <3> QED BY <2>1, <3>1
  <2>6. m \in 0 .. MAX_FILES
    BY <2>3, RamFSAssumption
  <2>7. fit \subseteq rest
    BY <1>1
  <2> QED BY <2>2, <2>3, <2>4, <2>5, <2>6, <2>7
<1> QED BY <1>3, <1>4

\* One getdents64 keeps what is known of the listing.
LEMMA ListStep ==
    ASSUME RInv, UNCHANGED <<files, due>>, NEW h \in Handles, HandleOn(h, "dir"),
           NEW count \in Int, NEW rest, NEW fit, NEW to,
           rest = {i \in Children(global_file_table[h].node) : i >= global_file_table[h].offset},
           fit = Fitting(rest, count), to = NextSearch(rest, fit),
           global_file_table'[h].offset = to,
           global_file_table'[h].node = global_file_table[h].node,
           \A i \in Inodes : listed'[h][i] = listed[h][i] + IF i \in fit THEN 1 ELSE 0
    PROVE  Listing(h)'
<1> DEFINE f == global_file_table[h]
           n == f.node
<1>1. f.offset \in Nat /\ Listing(h)
  BY OpenIs DEF RInv, ListInv, HandleOn
<1>2. /\ listed[h] \in [Inodes -> Nat] /\ due[h] \subseteq Inodes
  BY DEF RInv, ListInv
<1>3. /\ rest \subseteq Inodes
      /\ \A i \in Inodes : i \in rest <=> Used(i) /\ files[i].parent = n /\ i >= f.offset
  BY DEF Children
<1>4. /\ fit \subseteq rest
      /\ to \in 0 .. MAX_FILES
      /\ \A i \in rest : i < to <=> i \in fit
      /\ to = MAX_FILES \/ to \in rest
  <2>1. rest \in SUBSET Inodes /\ fit = Fitting(rest, count) /\ to = NextSearch(rest, fit)
    BY <1>3
  <2> QED BY ONLY <2>1, count \in Int, FittingCut
<1>5. to \in Nat /\ f.offset <= to /\ to <= MAX_FILES
  <2>1. f.offset <= MAX_FILES
    BY <1>1 DEF Listing
  <2>2. to \in rest => to >= f.offset
    BY <1>3
  <2> QED BY <1>1, <1>4, <2>1, <2>2, RamFSAssumption
<1>6. ASSUME NEW i \in Inodes
      PROVE  /\ listed'[h][i] <= 1 /\ (listed'[h][i] = 1 => i < to)
             /\ (i \in due[h] /\ i < to) => listed'[h][i] = 1
  <2>1. /\ i \in Nat /\ listed[h][i] \in Nat
        /\ listed[h][i] <= 1 /\ (listed[h][i] = 1 => i < f.offset)
        /\ (i \in due[h] /\ i < f.offset) => listed[h][i] = 1
    BY <1>1, <1>2, InodesNat DEF Listing
  <2>2. i \in due[h] => Used(i) /\ files[i].parent = n
    BY <1>1 DEF Listing
  <2>3. CASE i \in fit
    <3>1. i >= f.offset /\ i < to /\ listed'[h][i] = listed[h][i] + 1
      BY <1>3, <1>4, <2>3
    <3> QED BY <1>1, <2>1, <3>1
  <2>4. CASE i \notin fit
    <3>1. listed'[h][i] = listed[h][i]
      BY <2>1, <2>4
    <3>2. (i \in due[h] /\ i < to) => i < f.offset
      BY <1>1, <1>3, <1>4, <2>1, <2>2, <2>4
    <3> QED BY <1>1, <1>5, <2>1, <3>1, <3>2
  <2> QED BY <2>3, <2>4
<1> HIDE DEF f, n
<1>7. \A i \in due[h] : Used(i) /\ files[i].parent = global_file_table[h].node
  BY <1>1 DEF Listing
<1> QED BY <1>2, <1>5, <1>6, <1>7 DEF Listing, Used

-----------------------------------------------------------------------------
(* The steps.                                                              *)

LEMMA NodeIs ==
    ASSUME TreeInv, NEW i \in Inodes, Used(i)
    PROVE  files[i] \in Nodes /\ files[i].size \in Nat
<1>1. files[i] \in Nodes
  BY DEF TreeInv, Used
<1> QED BY <1>1 DEF Nodes

\* What is copied of a path consists of components.
LEMMA CutComps ==
    ASSUME NEW comps \in Seq(Components),
           \A k \in DOMAIN comps, n \in 1 .. PATH_SIZE - 1 : CutName(comps[k], n) \in Components
    PROVE  Cut(comps) \in Seq(Components)
<1>1. PICK whole, k, left :
        /\ whole = {j \in 1 .. Len(comps) : PathLen(SubSeq(comps, 1, j)) \in 0 .. PATH_SIZE - 1}
        /\ k = Cardinality(whole)
        /\ left = PATH_SIZE - 1 - PathLen(SubSeq(comps, 1, k))
                    - IF k = 0 \/ comps[k] = "/" THEN 0 ELSE 1
  OBVIOUS
<1>2. Cut(comps) =
        IF PathLen(comps) \in 0 .. PATH_SIZE - 1 THEN comps
        ELSE SubSeq(comps, 1, k)
               \o IF left \in 1 .. PATH_SIZE - 1 THEN <<CutName(comps[k + 1], left)>> ELSE <<>>
  BY <1>1 DEF Cut
<1>3. CASE PathLen(comps) \in 0 .. PATH_SIZE - 1
  BY <1>2, <1>3
<1>4. CASE PathLen(comps) \notin 0 .. PATH_SIZE - 1
  <2>1. PICK n \in Nat : n = Len(comps)
    OBVIOUS
  <2>2. IsFiniteSet(1 .. n) /\ Cardinality(1 .. n) = n
    <3>1. PICK one \in Int : one = 1
      OBVIOUS
    <3>2. /\ IsFiniteSet(one .. n)
          /\ Cardinality(one .. n) = IF one > n THEN 0 ELSE n - one + 1
      BY FS_Interval
    <3> QED BY <3>1, <3>2
  <2>3. whole \subseteq 1 .. n
    BY <1>1, <2>1
  <2>4. k \in Nat /\ k <= n /\ (k = n => whole = 1 .. n)
    <3>1. PICK all : all = 1 .. n
      OBVIOUS
    <3>2. IsFiniteSet(all) /\ whole \subseteq all
      BY <2>2, <2>3, <3>1
    <3>3. /\ IsFiniteSet(whole) /\ Cardinality(whole) <= Cardinality(all)
          /\ Cardinality(whole) = Cardinality(all) => whole = all
      BY <3>2, FS_Subset
    <3>4. Cardinality(whole) \in Nat
      BY <3>3, FS_CardinalityType
    <3> QED BY <1>1, <2>2, <3>1, <3>3, <3>4
  <2>5. k < n \/ n = 0
    <3>1. SUFFICES ASSUME n # 0, k = n PROVE FALSE
      BY <2>1, <2>4
    <3>2. n \in whole
      BY <2>1, <2>4, <3>1
    <3>3. PathLen(SubSeq(comps, 1, n)) \in 0 .. PATH_SIZE - 1
      BY <1>1, <3>2
    <3>4. SubSeq(comps, 1, n) = comps
      BY <2>1
    <3> QED BY <1>4, <3>3, <3>4
  <2>6. n # 0
    <3>1. SUFFICES ASSUME n = 0 PROVE FALSE
      OBVIOUS
    <3>2. comps = <<>>
      BY <2>1, <3>1, EmptySeq
    <3>3. PathLen(comps) = 0
      BY <3>2, EmptyLen
    <3> QED BY <1>4, <3>3, RamFSAssumption, Positive
  <2>7. SubSeq(comps, 1, k) \in Seq(Components)
    BY <2>1, <2>4
  <2>8. CASE left \in 1 .. PATH_SIZE - 1
    <3>1. k + 1 \in DOMAIN comps
      BY <2>1, <2>4, <2>5, <2>6
    <3>2. PICK c : c = CutName(comps[k + 1], left)
      OBVIOUS
    <3>3. c \in Components
      BY <2>8, <3>1, <3>2
    <3>4. Cut(comps) = SubSeq(comps, 1, k) \o <<c>>
      BY <1>2, <1>4, <2>8, <3>2
    <3> QED BY <2>7, <3>3, <3>4
  <2>9. CASE left \notin 1 .. PATH_SIZE - 1
    <3>1. Cut(comps) = SubSeq(comps, 1, k) \o <<>>
      BY <1>2, <1>4, <2>9
    <3> QED BY <2>7, <3>1
  <2> QED BY <2>8, <2>9
<1> QED BY <1>3, <1>4

\* A path that a process uses is resolved soundly.
LEMMA PathFacts ==
    ASSUME RInv, NEW p \in alive, NEW path \in Paths
    PROVE  p \in Procs /\ Resolved(resolve_path(cwd_inode[p], path))
<1> DEFINE cwd == cwd_inode[p]
<1>1. p \in Procs /\ TreeInv
  BY DEF RInv, CwdInv
<1>2. IsDir(cwd)
  BY <1>1 DEF RInv, CwdInv
<1>3. path.abs \in BOOLEAN /\ path.comps \in Seq(Components)
  BY PathsAssumption
<1> HIDE DEF cwd
<1>4. Resolved(resolve_path(cwd, path))
  <2>1. PICK q : q = [abs |-> path.abs, comps |-> Cut(path.comps)]
    OBVIOUS
  <2>2. q.abs \in BOOLEAN /\ q.comps \in Seq(Components)
    <3>1. PICK comps : comps = path.comps
      OBVIOUS
    <3>2. comps \in Seq(Components)
      BY <1>3, <3>1
    <3>3. \A k \in DOMAIN comps, n \in 1 .. PATH_SIZE - 1 : CutName(comps[k], n) \in Components
      BY <3>1, PathsAssumption
    <3>4. Cut(comps) \in Seq(Components)
      BY <3>2, <3>3, CutComps
    <3> QED BY <1>3, <2>1, <3>1, <3>4
  <2>3. Resolved(Walk(cwd, q))
    BY <1>1, <1>2, <2>2, WalkSound
  <2> QED BY <2>1, <2>3 DEF resolve_path
<1> QED BY <1>1, <1>4 DEF cwd

\* The handle behind an open descriptor.
LEMMA OpenFd ==
    ASSUME RInv, NEW p \in Procs, NEW fd \in Fds, NEW type, IsOpen(p, fd, type)
    PROVE  \E h \in Handles : /\ h = fd_table[p][fd] /\ HandleOn(h, type)
                              /\ File(p, fd) = global_file_table[h]
                              /\ NodeOf(p, fd) = files[global_file_table[h].node]
<1> DEFINE h == fd_table[p][fd]
<1>1. h # 0 /\ files[global_file_table[h].node].type = type
  BY DEF IsOpen, NodeOf, File
<1>2. h \in Handles /\ global_file_table[h] # Closed
  BY <1>1 DEF RInv, HandleInv, Handles
<1> QED BY <1>1, <1>2 DEF HandleOn, NodeOf, File

\* A call that leaves the inodes alone.
LEMMA SameFiles ==
    ASSUME RInv, UNCHANGED files
    PROVE  TreeInv' /\ FilesKept /\ Sizes'
<1>1. TreeInv'
  BY DEF RInv, TreeInv, TreeUp, TreePacked, TreeNames, IsDir, Used
<1>2. Sizes'
  BY DEF RInv, Sizes, Used
<1> QED BY <1>1, <1>2, KeptNothing DEF RInv

LEMMA OpenExistingStep ==
    ASSUME RInv, NEW p \in alive, NEW path \in Paths, ramfs_open_existing(p, path)
    PROVE  RInv'
<1>1. /\ UNCHANGED <<files, cwd_inode, alive>>
      /\ resolve_path(cwd_inode[p], path).inode # -1
      /\ OpenInode(p, resolve_path(cwd_inode[p], path).inode, files)
  BY DEF ramfs_open_existing
<1>2. p \in Procs /\ Resolved(resolve_path(cwd_inode[p], path))
  BY PathFacts
<1>3. PICK inode \in Inodes : OpenInode(p, inode, files) /\ Used(inode)
  BY <1>1, <1>2 DEF Resolved
<1>4. TreeInv' /\ FilesKept /\ Sizes'
  BY <1>1, SameFiles
<1>5. HandleInv' /\ Offsets' /\ ListInv'
  <2>1. PICK fs : fs = files
    OBVIOUS
  <2>2. fs = files' /\ OpenInode(p, inode, fs) /\ files'[inode] # Unused
    BY <1>1, <1>3, <2>1 DEF Used
  <2> QED BY <1>2, <1>4, <2>2, OpenStep
<1>6. CwdInv'
  BY <1>1, <1>4, KeepCwd DEF RInv
<1> QED BY <1>4, <1>5, <1>6 DEF RInv

LEMMA OpenCreateStep ==
    ASSUME RInv, NEW p \in alive, NEW path \in Paths, ramfs_open_create(p, path)
    PROVE  RInv'
<1>1. PICK r : r = resolve_path(cwd_inode[p], path)
  OBVIOUS
<1>2. PICK n : n = Min(FreeInodes)
  OBVIOUS
<1>3. /\ UNCHANGED <<cwd_inode, alive>>
      /\ r.inode = -1 /\ r.parent # -1 /\ FreeInodes # {} /\ ~Overruns(r)
      /\ \E content \in BOOLEAN :
           files' = [files EXCEPT ![Min(FreeInodes)] = NewNode(r.name, "file", r.parent, 0, content)]
      /\ OpenInode(p, n, files') \/ UNCHANGED <<global_file_table, fd_table, due, listed>>
  BY <1>1, <1>2 DEF ramfs_open_create
<1>4. p \in Procs /\ IsDir(r.parent) /\ r.name \in Plain /\ Lookup(r.parent, r.name) = -1
  BY <1>1, <1>3, PathFacts DEF Resolved
<1>5. /\ TreeInv' /\ FilesKept /\ Sizes'
      /\ n \in Inodes /\ files'[n] # Unused
  <2>1. PICK type \in {"file", "dir"} : type = "file"
    OBVIOUS
  <2>2. PICK content \in BOOLEAN :
          files' = [files EXCEPT ![Min(FreeInodes)] = NewNode(r.name, type, r.parent, 0, content)]
    BY <1>3, <2>1
  <2> QED BY <1>2, <1>3, <1>4, <2>2, CreateStep DEF RInv
<1>6. HandleInv' /\ Offsets' /\ ListInv'
  <2>1. CASE OpenInode(p, n, files')
    <3>1. PICK fs : fs = files'
      OBVIOUS
    <3>2. OpenInode(p, n, fs)
      BY <2>1, <3>1
    <3> QED BY <1>4, <1>5, <3>1, <3>2, OpenStep
  <2>2. CASE UNCHANGED <<global_file_table, fd_table, due, listed>>
    BY <1>5, <2>2, KeepHandles
  <2> QED BY <1>3, <2>1, <2>2
<1>7. CwdInv'
  BY <1>3, <1>5, KeepCwd DEF RInv
<1> QED BY <1>5, <1>6, <1>7 DEF RInv

LEMMA MkdirStep ==
    ASSUME RInv, NEW p \in alive, NEW path \in Paths, ramfs_mkdir(p, path)
    PROVE  RInv'
<1>1. PICK r : r = resolve_path(cwd_inode[p], path)
  OBVIOUS
<1>2. /\ UNCHANGED <<global_file_table, fd_table, cwd_inode, alive, due, listed>>
      /\ \/ UNCHANGED files
         \/ /\ r.inode = -1 /\ r.parent # -1 /\ FreeInodes # {} /\ ~Overruns(r)
            /\ files' = [files EXCEPT ![Min(FreeInodes)] = NewNode(r.name, "dir", r.parent, 0, FALSE)]
  BY <1>1 DEF ramfs_mkdir, MayMake
<1>3. TreeInv' /\ FilesKept /\ Sizes'
  <2>1. CASE UNCHANGED files
    BY <2>1, SameFiles
  <2>2. CASE ~UNCHANGED files
    <3>1. IsDir(r.parent) /\ r.name \in Plain /\ Lookup(r.parent, r.name) = -1
      BY <1>1, <1>2, <2>2, PathFacts DEF Resolved
    <3>2. PICK type \in {"file", "dir"}, content \in BOOLEAN : type = "dir" /\ content = FALSE
      OBVIOUS
    <3>3. files' = [files EXCEPT ![Min(FreeInodes)] = NewNode(r.name, type, r.parent, 0, content)]
      BY <1>2, <2>2, <3>2
    <3> QED BY <1>2, <2>2, <3>1, <3>3, CreateStep DEF RInv
  <2> QED BY <2>1, <2>2
<1>4. HandleInv' /\ Offsets' /\ ListInv'
  BY <1>2, <1>3, KeepHandles
<1>5. CwdInv'
  BY <1>2, <1>3, KeepCwd DEF RInv
<1> QED BY <1>3, <1>4, <1>5 DEF RInv

\* A call that changes neither inodes nor handles nor a working directory.
LEMMA QuietStep ==
    ASSUME RInv, UNCHANGED <<files, global_file_table, fd_table, cwd_inode, due, listed>>,
           alive' \subseteq Procs
    PROVE  RInv'
<1>1. TreeInv' /\ FilesKept /\ Sizes'
  BY SameFiles
<1>2. HandleInv' /\ Offsets' /\ ListInv'
  BY <1>1, KeepHandles
<1>3. CwdInv'
  BY DEF RInv, CwdInv, IsDir, Used
<1> QED BY <1>1, <1>2, <1>3 DEF RInv

\* A process gets a directory as its working directory, by chdir or fork.
LEMMA EnterStep ==
    ASSUME RInv, NEW p \in Procs, NEW d, IsDir(d), cwd_inode' = [cwd_inode EXCEPT ![p] = d],
           UNCHANGED <<files, global_file_table, fd_table, due, listed>>, alive' \subseteq Procs
    PROVE  RInv'
<1>1. TreeInv' /\ FilesKept /\ Sizes'
  BY SameFiles
<1>2. HandleInv' /\ Offsets' /\ ListInv'
  BY <1>1, KeepHandles
<1>3. d \in Inodes /\ cwd_inode \in [Procs -> Inodes]
  BY DEF RInv, CwdInv, IsDir
<1>4. CwdInv'
  <2>1. cwd_inode' \in [Procs -> Inodes]
    BY <1>3
  <2>2. ASSUME NEW q \in Procs PROVE IsDir(cwd_inode'[q])
    BY <1>3 DEF RInv, CwdInv
  <2> QED BY <2>1, <2>2 DEF CwdInv, IsDir, Used
<1> QED BY <1>1, <1>2, <1>4 DEF RInv

LEMMA ChdirStep ==
    ASSUME RInv, NEW p \in alive, NEW path \in Paths, ramfs_chdir(p, path)
    PROVE  RInv'
<1>1. PICK d : d = resolve_path(cwd_inode[p], path).inode
  OBVIOUS
<1>2. /\ UNCHANGED <<files, global_file_table, fd_table, alive, due, listed>>
      /\ \/ UNCHANGED cwd_inode
         \/ d # -1 /\ files[d].type = "dir" /\ cwd_inode' = [cwd_inode EXCEPT ![p] = d]
  BY <1>1 DEF ramfs_chdir, MayEnter
<1>3. p \in Procs /\ (d = -1 \/ (d \in Inodes /\ Used(d)))
  BY <1>1, PathFacts DEF Resolved
<1>4. alive' \subseteq Procs
  BY <1>2 DEF RInv, CwdInv
<1>5. CASE UNCHANGED cwd_inode
  BY <1>2, <1>4, <1>5, QuietStep
<1>6. CASE ~UNCHANGED cwd_inode
  <2>1. IsDir(d)
    BY <1>2, <1>3, <1>6 DEF IsDir
  <2> QED BY <1>2, <1>3, <1>4, <1>6, <2>1, EnterStep
<1> QED BY <1>5, <1>6

LEMMA ForkStep ==
    ASSUME RInv, NEW p \in alive, NEW child \in Procs \ alive, sys_fork(p, child)
    PROVE  RInv'
<1>1. PICK d : d = cwd_inode[p]
  OBVIOUS
<1>2. /\ cwd_inode' = [cwd_inode EXCEPT ![child] = d] /\ alive' = alive \cup {child}
      /\ UNCHANGED <<files, global_file_table, fd_table, due, listed>>
  BY <1>1 DEF sys_fork
<1>3. IsDir(d) /\ alive' \subseteq Procs
  BY <1>1, <1>2 DEF RInv, CwdInv
<1> QED BY <1>2, <1>3, EnterStep

LEMMA CloseCallStep ==
    ASSUME RInv, NEW p \in alive, NEW fd \in Fds, ramfs_close(p, fd)
    PROVE  RInv'
<1>1. UNCHANGED <<files, cwd_inode, alive, due, listed>> /\ p \in Procs /\ alive' \subseteq Procs
  BY DEF ramfs_close, RInv, CwdInv
<1>2. CASE fd_table[p][fd] = 0
  <2>1. UNCHANGED <<global_file_table, fd_table>>
    BY <1>2 DEF ramfs_close
  <2> QED BY <1>1, <2>1, QuietStep
<1>3. CASE fd_table[p][fd] # 0
  <2>1. /\ global_file_table' = [global_file_table EXCEPT ![fd_table[p][fd]] = Closed]
        /\ fd_table' = [fd_table EXCEPT ![p][fd] = 0]
    BY <1>3 DEF ramfs_close
  <2>2. HandleInv' /\ Offsets' /\ ListInv'
    BY <1>1, <1>3, <2>1, CloseStep
  <2>3. TreeInv' /\ FilesKept /\ Sizes'
    BY <1>1, SameFiles
  <2>4. CwdInv'
    BY <1>1, <2>3, KeepCwd DEF RInv
  <2> QED BY <2>2, <2>3, <2>4 DEF RInv
<1> QED BY <1>2, <1>3

LEMMA ReadStep ==
    ASSUME RInv, NEW p \in alive, NEW fd \in Fds, NEW count \in Counts, ramfs_read(p, fd, count)
    PROVE  RInv'
<1>1. /\ UNCHANGED <<files, fd_table, cwd_inode, alive, due, listed>> /\ p \in Procs
      /\ IsOpen(p, fd, "file")
  BY DEF ramfs_read, RInv, CwdInv
<1>2. PICK h \in Handles : /\ h = fd_table[p][fd] /\ HandleOn(h, "file")
                           /\ File(p, fd) = global_file_table[h]
                           /\ NodeOf(p, fd) = files[global_file_table[h].node]
  BY <1>1, OpenFd
<1>3. TreeInv' /\ FilesKept /\ Sizes'
  BY <1>1, SameFiles
<1>4. PICK f, size : f = global_file_table[h] /\ size = files[f.node].size
  OBVIOUS
<1>5. /\ f # Closed /\ f.node \in Inodes /\ Used(f.node) /\ f.offset \in Nat
      /\ f.offset <= size
  BY <1>2, <1>4, OpenIs DEF RInv, Offsets, HandleOn
<1>6. size \in Nat /\ size <= CAP
  BY <1>4, <1>5, NodeIs DEF RInv, Sizes
<1>7. PICK n : n = IF f.offset >= size THEN 0 ELSE ReadLen(f.offset, size, count)
  OBVIOUS
<1>8. n \in Int /\ (n >= 0 => f.offset + n <= size)
  <2>1. CASE f.offset >= size
    BY <1>5, <1>6, <1>7, <2>1
  <2>2. CASE ~(f.offset >= size)
    <3>1. n = IF Sum64(f.offset, count) > size THEN size - f.offset ELSE count
      BY <1>7, <2>2 DEF ReadLen
    <3>2. PICK o : o = f.offset
      OBVIOUS
    <3> QED BY <1>5, <1>6, <3>1, <3>2, CountsCut
  <2> QED BY <2>1, <2>2
<1>9. PICK to : to = f.offset + Max({n, 0})
  OBVIOUS
<1>10. to \in Nat /\ to <= size
  <2>1. PICK zero \in Int : zero = 0
    OBVIOUS
  <2>a. PICK S : S = {n, zero}
    OBVIOUS
  <2>2. Max(S) \in S /\ Max(S) >= zero
    BY <1>8, <2>a, GreaterOf
  <2>3. PICK m : m \in S /\ m >= 0 /\ to = f.offset + m
    BY <1>9, <2>1, <2>a, <2>2
  <2> QED BY <1>5, <1>6, <1>8, <2>1, <2>a, <2>3
<1>11. global_file_table' = [global_file_table EXCEPT ![h].offset = to]
  BY <1>2, <1>4, <1>7, <1>9 DEF ramfs_read
<1>12. HandleInv' /\ Offsets' /\ ListInv'
  <2>1. files[f.node].type = "file"
    BY <1>2, <1>4 DEF HandleOn
  <2>2. listed' \in [Handles -> [Inodes -> Nat]]
    BY <1>1 DEF RInv, ListInv
  <2> QED BY <1>1, <1>3, <1>4, <1>5, <1>10, <1>11, <2>1, <2>2, MoveStep
<1>13. CwdInv'
  BY <1>1, <1>3, KeepCwd DEF RInv
<1> QED BY <1>3, <1>12, <1>13 DEF RInv

LEMMA WriteStep ==
    ASSUME RInv, NEW p \in alive, NEW fd \in Fds, NEW count \in Counts, ramfs_write(p, fd, count)
    PROVE  RInv'
<1>1. /\ UNCHANGED <<fd_table, cwd_inode, alive, due, listed>> /\ p \in Procs
      /\ IsOpen(p, fd, "file")
  BY DEF ramfs_write, RInv, CwdInv
<1>2. PICK h \in Handles : /\ h = fd_table[p][fd] /\ HandleOn(h, "file")
                           /\ File(p, fd) = global_file_table[h]
                           /\ NodeOf(p, fd) = files[global_file_table[h].node]
  BY <1>1, OpenFd
<1>3. PICK f, size, node : f = global_file_table[h] /\ node = f.node /\ size = files[f.node].size
  OBVIOUS
<1>4. /\ f # Closed /\ node \in Inodes /\ Used(node) /\ f.offset \in Nat
      /\ f.offset <= size
  BY <1>2, <1>3, OpenIs DEF RInv, Offsets, HandleOn
<1>5. size \in Nat /\ size <= CAP /\ CAP \in Nat
  BY <1>3, <1>4, NodeIs, RamFSAssumption DEF RInv, Sizes
<1>6. PICK n : n = WriteLen(f.offset, count)
  OBVIOUS
<1>7. n \in Int /\ (n >= 0 => f.offset + n <= CAP)
  <2>1. n = IF Sum64(f.offset, count) > CAP THEN CAP - f.offset ELSE count
    BY <1>6 DEF WriteLen
  <2>2. PICK o : o = f.offset
    OBVIOUS
  <2>3. o \in Nat /\ o <= CAP /\ CAP <= CAP
    BY <1>4, <1>5, <2>2
  <2> QED BY <1>5, <2>1, <2>2, <2>3, CountsCut
<1>8. PICK moved : moved = IF n > 0 /\ files[node].content THEN n ELSE 0
  OBVIOUS
<1>9. moved \in Nat /\ f.offset + moved <= CAP
  BY <1>4, <1>5, <1>7, <1>8
<1>10. PICK to : to = f.offset + moved
  OBVIOUS
<1>11. to \in Nat /\ to <= CAP /\ (moved = 0 => to <= size)
  BY <1>4, <1>5, <1>9, <1>10
<1>12. /\ global_file_table' = [global_file_table EXCEPT ![h].offset = to]
       /\ files' = IF moved = 0 THEN files ELSE [files EXCEPT ![node].size = Max({size, to})]
  BY <1>2, <1>3, <1>6, <1>8, <1>10 DEF ramfs_write
<1>13. TreeInv' /\ FilesKept /\ Sizes' /\ to <= files'[node].size
  <2>1. CASE moved = 0
    BY <1>3, <1>11, <1>12, <2>1, SameFiles
  <2>2. CASE moved # 0
    <3>1. PICK z, S : S = {size, to} /\ z = Max(S)
      OBVIOUS
    <3>2. z \in Nat /\ size <= z /\ z <= CAP /\ to <= z
      <4>1. z \in S /\ z >= size /\ z >= to
        BY <1>5, <1>11, <3>1, GreaterOf
      <4> QED BY <1>5, <1>11, <3>1, <4>1
    <3>3. files' = [files EXCEPT ![node].size = z]
      BY <1>12, <2>2, <3>1
    <3>4. TreeInv /\ Sizes /\ files[node].size <= z
      BY <1>3, <3>2 DEF RInv
    <3> QED BY <1>4, <3>2, <3>3, <3>4, SizeStep
  <2> QED BY <2>1, <2>2
<1>14. HandleInv' /\ Offsets' /\ ListInv'
  <2>1. files[node].type = "file"
    BY <1>2, <1>3 DEF HandleOn
  <2>2. listed' \in [Handles -> [Inodes -> Nat]]
    BY <1>1 DEF RInv, ListInv
  <2> QED BY <1>1, <1>3, <1>4, <1>11, <1>12, <1>13, <2>1, <2>2, MoveStep
<1>15. CwdInv'
  BY <1>1, <1>13, KeepCwd DEF RInv
<1> QED BY <1>13, <1>14, <1>15 DEF RInv

LEMMA GetdentsStep ==
    ASSUME RInv, NEW p \in alive, NEW fd \in Fds, NEW count \in Counts,
           ramfs_getdents64(p, fd, count)
    PROVE  RInv'
<1>1. /\ UNCHANGED <<files, fd_table, cwd_inode, alive, due>> /\ p \in Procs
      /\ IsOpen(p, fd, "dir") /\ count \in Int
  BY RamFSAssumption DEF ramfs_getdents64, RInv, CwdInv
<1>2. PICK h \in Handles : /\ h = fd_table[p][fd] /\ HandleOn(h, "dir")
                           /\ File(p, fd) = global_file_table[h]
  BY <1>1, OpenFd
<1>3. TreeInv' /\ FilesKept /\ Sizes'
  BY <1>1, SameFiles
<1>4. PICK rest : rest = {i \in Children(global_file_table[h].node) : i >= global_file_table[h].offset}
  OBVIOUS
<1>5. PICK fit : fit = Fitting(rest, count)
  OBVIOUS
<1>6. PICK to : to = NextSearch(rest, fit)
  OBVIOUS
<1>7. /\ global_file_table' = [global_file_table EXCEPT ![h].offset = to]
      /\ listed' = [listed EXCEPT ![h] = [i \in Inodes |-> @[i] + IF i \in fit THEN 1 ELSE 0]]
  BY <1>2, <1>4, <1>5, <1>6 DEF ramfs_getdents64
<1>8. rest \in SUBSET Inodes
  BY <1>4 DEF Children
<1>9. fit \subseteq rest /\ to \in 0 .. MAX_FILES
  BY ONLY <1>1, <1>5, <1>6, <1>8, FittingCut
<1>10. to \in Nat
  BY <1>9, RamFSAssumption
<1>11. /\ global_file_table \in [Handles -> OpenFiles \cup {Closed}]
       /\ listed \in [Handles -> [Inodes -> Nat]]
  BY DEF RInv, HandleInv, ListInv
<1>12. /\ listed' \in [Handles -> [Inodes -> Nat]]
       /\ \A g \in Handles : g # h => listed'[g] = listed[g]
       /\ \A i \in Inodes : listed'[h][i] = listed[h][i] + IF i \in fit THEN 1 ELSE 0
  <2> DEFINE new == [i \in Inodes |-> listed[h][i] + IF i \in fit THEN 1 ELSE 0]
  <2>1. new \in [Inodes -> Nat]
    BY <1>11
  <2>2. listed' = [listed EXCEPT ![h] = new]
    BY <1>7
  <2>3. \A i \in Inodes : new[i] = listed[h][i] + IF i \in fit THEN 1 ELSE 0
    OBVIOUS
  <2> HIDE DEF new
  <2> QED BY <1>11, <2>1, <2>2, <2>3
<1>13. global_file_table[h] \in OpenFiles /\ global_file_table[h] # Closed
  BY <1>2, OpenIs DEF RInv, HandleOn
<1>14. global_file_table'[h].offset = to /\ global_file_table'[h].node = global_file_table[h].node
  BY <1>7, <1>11, <1>13 DEF OpenFiles
<1>15. Listing(h)'
  BY ONLY RInv, <1>1, <1>2, <1>4, <1>5, <1>6, <1>12, <1>14, ListStep
<1>16. HandleInv' /\ Offsets' /\ ListInv'
  <2>1. files[global_file_table[h].node].type = "dir"
    BY <1>2 DEF HandleOn
  <2> QED BY <1>1, <1>3, <1>7, <1>10, <1>12, <1>13, <1>15, <2>1, MoveStep
<1>17. CwdInv'
  BY <1>1, <1>3, KeepCwd DEF RInv
<1> QED BY <1>3, <1>16, <1>17 DEF RInv

LEMMA NextStep ==
    ASSUME RInv, [Next]_vars
    PROVE  RInv'
<1>0. alive \subseteq Procs
  BY DEF RInv, CwdInv
<1>1. ASSUME NEW p \in alive, NEW path \in Paths, ramfs_open_existing(p, path) PROVE RInv'
  BY <1>1, OpenExistingStep
<1>2. ASSUME NEW p \in alive, NEW path \in Paths, ramfs_open_create(p, path) PROVE RInv'
  BY <1>2, OpenCreateStep
<1>3. ASSUME NEW p \in alive, NEW path \in Paths, NEW O_CREAT \in BOOLEAN,
             ramfs_open_fails(p, path, O_CREAT)
      PROVE  RInv'
  <2>1. UNCHANGED <<files, global_file_table, fd_table, cwd_inode, alive, due, listed>>
    BY <1>3 DEF ramfs_open_fails
  <2> QED BY <1>0, <2>1, QuietStep
<1>4. ASSUME NEW p \in alive, NEW path \in Paths, ramfs_mkdir(p, path) PROVE RInv'
  BY <1>4, MkdirStep
<1>14. ASSUME NEW p \in alive, NEW path \in Paths, name_overrun(p, path) PROVE RInv'
  <2>1. UNCHANGED <<files, global_file_table, fd_table, cwd_inode, alive, due, listed>>
    BY <1>14 DEF name_overrun
  <2> QED BY <1>0, <2>1, QuietStep
<1>5. ASSUME NEW p \in alive, NEW path \in Paths, ramfs_chdir(p, path) PROVE RInv'
  BY <1>5, ChdirStep
<1>6. ASSUME NEW p \in alive, NEW fd \in Fds, NEW call, NEW type, BadFd(p, fd, call, type) PROVE RInv'
  <2>1. UNCHANGED <<files, global_file_table, fd_table, cwd_inode, alive, due, listed>>
    BY <1>6 DEF BadFd
  <2> QED BY <1>0, <2>1, QuietStep
<1>7. ASSUME NEW p \in alive, NEW fd \in Fds, ramfs_close(p, fd) PROVE RInv'
  BY <1>7, CloseCallStep
<1>8. ASSUME NEW p \in alive, NEW fd \in Fds, NEW count \in Counts, ramfs_read(p, fd, count) PROVE RInv'
  BY <1>8, ReadStep
<1>9. ASSUME NEW p \in alive, NEW fd \in Fds, NEW count \in Counts, ramfs_write(p, fd, count) PROVE RInv'
  BY <1>9, WriteStep
<1>10. ASSUME NEW p \in alive, NEW fd \in Fds, NEW count \in Counts, ramfs_getdents64(p, fd, count)
       PROVE  RInv'
  BY <1>10, GetdentsStep
<1>11. ASSUME NEW p \in alive, NEW child \in Procs \ alive, sys_fork(p, child) PROVE RInv'
  BY <1>11, ForkStep
<1>12. ASSUME NEW p \in alive, sys_exit(p) PROVE RInv'
  <2>1. /\ UNCHANGED <<files, global_file_table, fd_table, cwd_inode, due, listed>>
        /\ alive' \subseteq Procs
    BY <1>0, <1>12 DEF sys_exit
  <2> QED BY <2>1, QuietStep
<1>13. ASSUME UNCHANGED vars PROVE RInv'
  <2>1. UNCHANGED <<files, global_file_table, fd_table, cwd_inode, alive, due, listed>>
    BY <1>13 DEF vars
  <2> QED BY <1>0, <2>1, QuietStep
<1> QED
  BY <1>1, <1>2, <1>3, <1>4, <1>5, <1>6, <1>7, <1>8, <1>9, <1>10, <1>11, <1>12, <1>13, <1>14
  DEF Next, Stopped

LEMMA InitStep == ASSUME Init PROVE RInv
<1>1. /\ \A i \in Inodes : i \in Nat
      /\ 0 \in Inodes /\ 1 \in Inodes /\ 2 \in Inodes /\ 3 \in Inodes
      /\ 4 \in Inodes /\ 5 \in Inodes /\ 6 \in Inodes
  BY RamFSAssumption DEF Inodes
<1>2. \A i \in Inodes : files[i] = IF i < 7 THEN ramfs_init[i + 1] ELSE Unused
  BY DEF Init
<1>3. /\ files[0] = ramfs_init[1] /\ files[1] = ramfs_init[2] /\ files[2] = ramfs_init[3]
      /\ files[3] = ramfs_init[4] /\ files[4] = ramfs_init[5] /\ files[5] = ramfs_init[6]
      /\ files[6] = ramfs_init[7]
  BY <1>1, <1>2
<1>4. ASSUME NEW i \in Inodes, files[i] # Unused
      PROVE  i = 0 \/ i = 1 \/ i = 2 \/ i = 3 \/ i = 4 \/ i = 5 \/ i = 6
  <2>1. i \in Nat /\ i < 7
    BY <1>1, <1>2, <1>4
  <2> QED BY <2>1
<1>a. \A i \in Inodes : Used(i) => i = 0 \/ i = 1 \/ i = 2 \/ i = 3 \/ i = 4 \/ i = 5 \/ i = 6
  BY <1>4 DEF Used
<1>b0. /\ files[0].name = "" /\ files[0].type = "dir" /\ files[0].parent = -1
      /\ files[0].size = 0 /\ files[0] \in Nodes
  <2>1. PICK empty : empty = ""
    OBVIOUS
  <2>2. PICK above \in Int : above = -1
    OBVIOUS
  <2>3. files[0] = [name |-> empty, type |-> "dir", parent |-> above, size |-> 0, content |-> FALSE]
    <3>1. ramfs_init[1] = NewNode("", "dir", -1, 0, FALSE)
      BY DEF ramfs_init
    <3> QED BY <1>3, <2>1, <2>2, <3>1, Zenon DEF NewNode
  <2>4. empty \in Names
    BY <2>1, Zenon DEF Names
  <2>5. files[0] \in Nodes
    BY <2>3, <2>4 DEF Nodes
  <2>6. files[0].name = empty /\ files[0].type = "dir" /\ files[0].parent = above /\ files[0].size = 0
    BY <2>3
  <2> QED BY <2>1, <2>2, <2>5, <2>6, Zenon
<1>b1. /\ files[1].name = "init" /\ files[1].type = "file" /\ files[1].parent = 0
      /\ files[1].size = 0 /\ files[1] \in Nodes
  <2>1. files[1] = [name |-> "init", type |-> "file", parent |-> 0, size |-> 0, content |-> FALSE]
    BY <1>3 DEF ramfs_init, NewNode
  <2>2. "init" \in Names
    BY DEF Names
  <2> QED BY <2>1, <2>2 DEF Nodes
<1>b2. /\ files[2].name = "usr" /\ files[2].type = "dir" /\ files[2].parent = 0
      /\ files[2].size = 0 /\ files[2] \in Nodes
  <2>1. files[2] = [name |-> "usr", type |-> "dir", parent |-> 0, size |-> 0, content |-> FALSE]
    BY <1>3 DEF ramfs_init, NewNode
  <2>2. "usr" \in Names
    BY DEF Names
  <2> QED BY <2>1, <2>2 DEF Nodes
<1>b3. /\ files[3].name = "bin" /\ files[3].type = "dir" /\ files[3].parent = 2
      /\ files[3].size = 0 /\ files[3] \in Nodes
  <2>1. files[3] = [name |-> "bin", type |-> "dir", parent |-> 2, size |-> 0, content |-> FALSE]
    BY <1>3 DEF ramfs_init, NewNode
  <2>2. "bin" \in Names
    BY DEF Names
  <2> QED BY <2>1, <2>2 DEF Nodes
<1>b4. /\ files[4].name = "lib" /\ files[4].type = "dir" /\ files[4].parent = 2
      /\ files[4].size = 0 /\ files[4] \in Nodes
  <2>1. files[4] = [name |-> "lib", type |-> "dir", parent |-> 2, size |-> 0, content |-> FALSE]
    BY <1>3 DEF ramfs_init, NewNode
  <2>2. "lib" \in Names
    BY DEF Names
  <2> QED BY <2>1, <2>2 DEF Nodes
<1>b5. /\ files[5].name = "shell.c" /\ files[5].type = "file" /\ files[5].parent = 2
      /\ files[5].size = 1 /\ files[5] \in Nodes
  <2>1. files[5] = [name |-> "shell.c", type |-> "file", parent |-> 2, size |-> 1, content |-> TRUE]
    BY <1>3 DEF ramfs_init, NewNode
  <2>2. "shell.c" \in Names
    BY DEF Names
  <2> QED BY <2>1, <2>2 DEF Nodes
<1>b6. /\ files[6].name = "usrmain.c" /\ files[6].type = "file" /\ files[6].parent = 2
      /\ files[6].size = 1 /\ files[6] \in Nodes
  <2>1. files[6] = [name |-> "usrmain.c", type |-> "file", parent |-> 2, size |-> 1, content |-> TRUE]
    BY <1>3 DEF ramfs_init, NewNode
  <2>2. "usrmain.c" \in Names
    BY DEF Names
  <2> QED BY <2>1, <2>2 DEF Nodes
<1>5. Used(0) /\ Used(1) /\ Used(2) /\ Used(3) /\ Used(4) /\ Used(5) /\ Used(6)
  <2>1. Unused.type = "unused"
    BY DEF Unused
  <2> QED BY <1>b0, <1>b1, <1>b2, <1>b3, <1>b4, <1>b5, <1>b6, <2>1 DEF Used
<1>6. TreeInv
  <2>1. files \in [Inodes -> Nodes \cup {Unused}]
    <3>1. \A i \in Inodes : files[i] \in Nodes \cup {Unused}
      BY <1>a, <1>b0, <1>b1, <1>b2, <1>b3, <1>b4, <1>b5, <1>b6 DEF Used
    <3> QED BY <3>1 DEF Init
  <2>2. IsDir(0) /\ IsDir(2) /\ files[0].parent = -1 /\ files[0].name = ""
    BY <1>1, <1>5, <1>b0, <1>b2 DEF IsDir
  <2>a. \A d : d = 0 \/ d = 2 => IsDir(d)
    BY <2>2
  <2>3. TreeUp
    <3> SUFFICES ASSUME NEW i \in Inodes \ {0}, Used(i)
                 PROVE  files[i].parent \in 0 .. i - 1 /\ IsDir(files[i].parent) /\ files[i].name \in Plain
      BY DEF TreeUp
    <3>1. i = 1 \/ i = 2 \/ i = 3 \/ i = 4 \/ i = 5 \/ i = 6
      BY <1>a
    <3>2. /\ "init" \in Plain /\ "usr" \in Plain /\ "bin" \in Plain /\ "lib" \in Plain
          /\ "shell.c" \in Plain /\ "usrmain.c" \in Plain
      BY DEF Plain, Names
    <3>c1. CASE i = 1
      <4>1. files[i].parent = 0 /\ files[i].name \in Plain
        BY <3>2, <3>c1, <1>b1
      <4>2. IsDir(files[i].parent)
        BY <2>a, <4>1
      <4> QED BY <3>c1, <4>1, <4>2
    <3>c2. CASE i = 2
      <4>1. files[i].parent = 0 /\ files[i].name \in Plain
        BY <3>2, <3>c2, <1>b2
      <4>2. IsDir(files[i].parent)
        BY <2>a, <4>1
      <4> QED BY <3>c2, <4>1, <4>2
    <3>c3. CASE i = 3
      <4>1. files[i].parent = 2 /\ files[i].name \in Plain
        BY <3>2, <3>c3, <1>b3
      <4>2. IsDir(files[i].parent)
        BY <2>a, <4>1
      <4> QED BY <3>c3, <4>1, <4>2
    <3>c4. CASE i = 4
      <4>1. files[i].parent = 2 /\ files[i].name \in Plain
        BY <3>2, <3>c4, <1>b4
      <4>2. IsDir(files[i].parent)
        BY <2>a, <4>1
      <4> QED BY <3>c4, <4>1, <4>2
    <3>c5. CASE i = 5
      <4>1. files[i].parent = 2 /\ files[i].name \in Plain
        BY <3>2, <3>c5, <1>b5
      <4>2. IsDir(files[i].parent)
        BY <2>a, <4>1
      <4> QED BY <3>c5, <4>1, <4>2
    <3>c6. CASE i = 6
      <4>1. files[i].parent = 2 /\ files[i].name \in Plain
        BY <3>2, <3>c6, <1>b6
      <4>2. IsDir(files[i].parent)
        BY <2>a, <4>1
      <4> QED BY <3>c6, <4>1, <4>2
    <3> QED BY <3>1, <3>c1, <3>c2, <3>c3, <3>c4, <3>c5, <3>c6
  <2>4. TreePacked
    <3> SUFFICES ASSUME NEW i \in Inodes, NEW j \in Inodes, i < j, Used(j) PROVE Used(i)
      BY DEF TreePacked
    <3>1. i \in Nat /\ j < 7 /\ j \in Nat
      BY <1>1, <1>a
    <3>2. i = 0 \/ i = 1 \/ i = 2 \/ i = 3 \/ i = 4 \/ i = 5 \/ i = 6
      BY <3>1
    <3> QED BY <1>5, <3>2
  <2>5. TreeNames
    <3> SUFFICES ASSUME NEW i \in Inodes, NEW j \in Inodes, Used(i), Used(j),
                        files[i].parent = files[j].parent, files[i].name = files[j].name
                 PROVE  i = j
      BY DEF TreeNames
    <3>1. /\ i = 0 \/ i = 1 \/ i = 2 \/ i = 3 \/ i = 4 \/ i = 5 \/ i = 6
          /\ j = 0 \/ j = 1 \/ j = 2 \/ j = 3 \/ j = 4 \/ j = 5 \/ j = 6
      BY <1>a
    <3>2. /\ files[0].name = "" /\ files[1].name = "init" /\ files[2].name = "usr"
          /\ files[3].name = "bin" /\ files[4].name = "lib" /\ files[5].name = "shell.c"
          /\ files[6].name = "usrmain.c"
      BY <1>b0, <1>b1, <1>b2, <1>b3, <1>b4, <1>b5, <1>b6
    <3>c0. CASE i = 0
      BY <3>1, <3>2, <3>c0
    <3>c1. CASE i = 1
      BY <3>1, <3>2, <3>c1
    <3>c2. CASE i = 2
      BY <3>1, <3>2, <3>c2
    <3>c3. CASE i = 3
      BY <3>1, <3>2, <3>c3
    <3>c4. CASE i = 4
      BY <3>1, <3>2, <3>c4
    <3>c5. CASE i = 5
      BY <3>1, <3>2, <3>c5
    <3>c6. CASE i = 6
      BY <3>1, <3>2, <3>c6
    <3> QED BY <3>1, <3>c0, <3>c1, <3>c2, <3>c3, <3>c4, <3>c5, <3>c6
  <2> QED BY <2>1, <2>2, <2>3, <2>4, <2>5 DEF TreeInv
<1>7. CwdInv
  <2>1. IsDir(0) /\ 0 \in Inodes
    BY <1>6, InodesNat DEF TreeInv
  <2> QED BY <2>1, RamFSAssumption DEF Init, CwdInv
<1>8. HandleInv
  <2>1. 0 \in 0 .. MAX_OPEN
    BY RamFSAssumption
  <2>2. Closed \in OpenFiles \cup {Closed}
    OBVIOUS
  <2>3. /\ global_file_table = [h \in Handles |-> Closed]
        /\ fd_table = [q \in Procs |-> [fd \in Fds |-> 0]]
    BY DEF Init
  <2>4. \A q \in Procs, fd \in Fds : fd_table[q][fd] = 0
    BY <2>3
  <2>5. fd_table \in [Procs -> [Fds -> 0 .. MAX_OPEN]]
    BY <2>1, <2>3
  <2> QED BY <2>2, <2>3, <2>4, <2>5 DEF HandleInv
<1>9. Sizes
  <2> SUFFICES ASSUME NEW i \in Inodes, Used(i)
               PROVE  files[i].size <= CAP /\ NameLen(files[i].name) \in 0 .. NAME_SIZE - 1
    BY DEF Sizes
  <2>2. NameLen(files[i].name) \in 0 .. NAME_SIZE - 1
    <3>1. PICK name : name = files[i].name
      OBVIOUS
    <3>2. name \in {"", "init", "usr", "bin", "lib", "shell.c", "usrmain.c"}
      BY <1>a, <1>b0, <1>b1, <1>b2, <1>b3, <1>b4, <1>b5, <1>b6, <3>1
    <3> QED BY <3>1, <3>2, NamesAssumption, Zenon
  <2>1. files[i].size <= 1 /\ files[i].size \in Nat
    <3>1. files[i].size \in Nat
      BY <1>6, NodeIs
    <3>2. i = 0 \/ i = 1 \/ i = 2 \/ i = 3 \/ i = 4 \/ i = 5 \/ i = 6
      BY <1>a
    <3>3. files[i].size = 0 \/ files[i].size = 1
      BY <3>2, <1>b0, <1>b1, <1>b2, <1>b3, <1>b4, <1>b5, <1>b6
    <3> QED BY <3>1, <3>3
  <2>3. files[i].size <= CAP
    BY <2>1, RamFSAssumption
  <2> QED BY <2>2, <2>3
<1>10. Offsets
  BY DEF Init, Offsets, HandleOn
<1>11. ListInv
  <2>1. NoneListed \in [Inodes -> Nat]
    BY DEF NoneListed
  <2>2. \A h \in Handles : ~HandleOn(h, "dir")
    BY DEF Init, HandleOn
  <2> QED BY <2>1, <2>2 DEF Init, ListInv
<1> QED BY <1>6, <1>7, <1>8, <1>9, <1>10, <1>11 DEF RInv

-----------------------------------------------------------------------------
(* What holds of every behaviour.                                          *)

\* The invariant holds always: every call keeps the inodes a tree, the working
\* directories in it, and the handles and listings consistent with it.
THEOREM RamFSInvariant == Spec => []RInv
<1>1. Init => RInv
  BY InitStep
<1>2. RInv /\ [Next]_vars => RInv'
  BY NextStep
<1> QED BY <1>1, <1>2, PTL DEF Spec

\* ramfs_open and ramfs_mkdir keep the inodes a tree of directories, with any
\* paths in any order and a table of any size.
THEOREM RamFSTreeSound == Spec => []TreeSound
<1>1. RInv => TreeSound
  <2> SUFFICES ASSUME RInv PROVE TreeSound
    OBVIOUS
  <2>1. ASSUME NEW i \in Inodes \ {0}, Used(i)
        PROVE  /\ files[i].parent \in 0 .. i - 1
               /\ Used(files[i].parent) /\ files[files[i].parent].type = "dir"
    BY <2>1 DEF RInv, TreeInv, TreeUp, IsDir
  <2> QED BY <2>1 DEF RInv, TreeInv, TreeNames, TreeSound
<1> QED BY <1>1, RamFSInvariant, PTL

\* ramfs_open, ramfs_close, fork and exit: a handle in use belongs to exactly
\* one descriptor, and a handle that is not in use to none.
THEOREM RamFSHandlesOwned == Spec => []HandlesOwned
<1>1. RInv => HandlesOwned
  <2> SUFFICES ASSUME RInv, NEW h \in Handles
               PROVE  Cardinality({o \in Procs \X Fds : fd_table[o[1]][o[2]] = h})
                        = (IF global_file_table[h] = Closed THEN 0 ELSE 1)
    BY DEF HandlesOwned
  <2> DEFINE Owners == {o \in Procs \X Fds : fd_table[o[1]][o[2]] = h}
  <2>1. h # 0
    BY DEF Handles
  <2>2. CASE global_file_table[h] = Closed
    <3>1. \A q \in Procs, fe \in Fds : fd_table[q][fe] # h
      BY <2>1, <2>2 DEF RInv, HandleInv
    <3>2. Owners = {}
      BY <3>1
    <3> HIDE DEF Owners
    <3>3. Cardinality(Owners) = 0
      BY <3>2, FS_EmptySet
    <3> QED BY <2>2, <3>3 DEF Owners
  <2>3. CASE global_file_table[h] # Closed
    <3>1. PICK q \in Procs, fe \in Fds : fd_table[q][fe] = h
      BY <2>3 DEF RInv, HandleInv
    <3>2. \A v \in Procs, ff \in Fds : fd_table[v][ff] = h => v = q /\ ff = fe
      BY <2>1, <3>1 DEF RInv, HandleInv
    <3>3. PICK own : own = <<q, fe>>
      OBVIOUS
    <3>4. Owners = {own}
      BY <3>1, <3>2, <3>3
    <3> HIDE DEF Owners
    <3>5. Cardinality({own}) = 1
      BY FS_Singleton
    <3> QED BY <2>3, <3>4, <3>5 DEF Owners
  <2> QED BY <2>2, <2>3
<1> QED BY <1>1, RamFSInvariant, PTL

\* ramfs_read and ramfs_write, with any counts: the offset of an open file
\* stays inside the file and the file inside its buffer.
THEOREM RamFSOffsetsInside == Spec => []OffsetsInside
<1>1. RInv => OffsetsInside
  <2> SUFFICES ASSUME RInv, NEW h \in Handles, global_file_table[h] # Closed,
                      files[global_file_table[h].node].type = "file"
               PROVE  /\ global_file_table[h].offset <= files[global_file_table[h].node].size
                      /\ files[global_file_table[h].node].size <= CAP
    BY DEF OffsetsInside
  <2>1. global_file_table[h].node \in Inodes /\ Used(global_file_table[h].node)
    BY OpenIs DEF RInv
  <2> QED BY <2>1 DEF RInv, Sizes, Offsets, HandleOn
<1> QED BY <1>1, RamFSInvariant, PTL

\* ramfs_getdents64: a listing returns no entry twice and, at its end, every
\* entry that was there at the open, however it was cut and whatever was
\* created meanwhile.
THEOREM RamFSListsEachOnce == Spec => []ListsEachOnce
<1>1. RInv => ListsEachOnce
  <2> SUFFICES ASSUME RInv, NEW h \in Handles, global_file_table[h] # Closed,
                      files[global_file_table[h].node].type = "dir"
               PROVE  /\ \A i \in Inodes : listed[h][i] <= 1
                      /\ global_file_table[h].offset = MAX_FILES =>
                           \A i \in due[h] : listed[h][i] = 1
    BY DEF ListsEachOnce
  <2>1. Listing(h)
    BY DEF RInv, ListInv, HandleOn
  <2>2. \A i \in due[h] : i < MAX_FILES
    <3>1. due[h] \subseteq Inodes
      BY DEF RInv, ListInv
    <3>2. \A i \in Inodes : i < MAX_FILES
      BY RamFSAssumption DEF Inodes
    <3> QED BY <3>1, <3>2
  <2> QED BY <2>1, <2>2 DEF Listing
<1> QED BY <1>1, RamFSInvariant, PTL

\* What Walk makes of the end of its walk.
Answer(r) ==
    IF r.done THEN r ELSE [r EXCEPT !.inode = r.curr, !.parent = files[r.curr].parent]

\* A component before the last one that leads into directory a.
Into(r, a) == [r EXCEPT !.curr = a]

\* The last component, found as an inode or not found.
Ending(r, inode, name) ==
    [r EXCEPT !.done = TRUE, !.inode = inode, !.parent = r.curr, !.name = name]

LEMMA ResolveEnd ==
    ASSUME NEW cwd, NEW path, NEW n \in Nat, n = Len(path.comps)
    PROVE  \E w : /\ IsWalk(w, n, Start(cwd, path), path.comps)
                  /\ Walk(cwd, path) = Answer(w[n])
<1>1. PICK w : /\ IsWalk(w, n, Start(cwd, path), path.comps)
               /\ Walk(cwd, path) =
                    IF w[n].done THEN w[n]
                    ELSE [w[n] EXCEPT !.inode = w[n].curr, !.parent = files[w[n].curr].parent]
  BY ResolveIsWalk
<1> QED BY <1>1 DEF Answer

\* A path of no component is the directory it starts from.
LEMMA ResolveNone ==
    ASSUME NEW cwd, NEW path, NEW n \in Nat, n = Len(path.comps), n = 0
    PROVE  Walk(cwd, path).inode = IF path.abs THEN 0 ELSE cwd
<1>1. PICK w : /\ IsWalk(w, n, Start(cwd, path), path.comps)
               /\ Walk(cwd, path) = Answer(w[n])
  BY ResolveEnd
<1>2. w[n] = Start(cwd, path)
  BY <1>1 DEF IsWalk
<1>3. Answer(Start(cwd, path)).inode = IF path.abs THEN 0 ELSE cwd
  BY DEF Start, Answer
<1> QED BY <1>1, <1>2, <1>3

\* The last component is looked up.
LEMMA StepLast ==
    ASSUME NEW r, r.done = FALSE, NEW comps, NEW k, NEW name \in Plain, comps[k] = name,
           ~(k < Len(comps))
    PROVE  ResolveStep(r, comps, k) = Ending(r, Lookup(r.curr, name), name)
<1> DEFINE found == Lookup(r.curr, name)
<1>1. name \notin {".", "/", ".."}
  BY DEF Plain
<1> HIDE DEF found
<1>2. ResolveStep(r, comps, k) = Ending(r, found, name)
  BY <1>1 DEF ResolveStep, Ending, found
<1> QED BY <1>2 DEF found

\* A component before the last one that names a directory leads into it.
LEMMA StepInto ==
    ASSUME NEW r, r.done = FALSE, NEW comps, NEW k, NEW name \in Plain, comps[k] = name,
           k < Len(comps), NEW a \in Inodes, a = Lookup(r.curr, name), files[a].type = "dir"
    PROVE  ResolveStep(r, comps, k) = Into(r, a)
<1> DEFINE found == Lookup(r.curr, name)
<1>1. name \notin {".", "/", ".."} /\ found = a /\ a # -1
  BY InodesNat DEF Plain
<1> HIDE DEF found
<1> QED BY <1>1 DEF ResolveStep, Into, found

\* The name of an entry as a path is looked up in the directory it starts from.
LEMMA ResolveName ==
    ASSUME NEW cwd, NEW name \in Plain, NEW path, path.abs = FALSE,
           NEW comps, comps = path.comps, NEW n \in Nat, n = Len(comps), n = 1, comps[n] = name
    PROVE  Walk(cwd, path).inode = Lookup(cwd, name)
<1>1. PICK w : /\ IsWalk(w, n, Start(cwd, path), path.comps)
               /\ Walk(cwd, path) = Answer(w[n])
  BY ResolveEnd
<1>2. PICK r : r = Start(cwd, path)
  OBVIOUS
<1>3. w[n] = ResolveStep(r, comps, n)
  BY <1>1, <1>2 DEF IsWalk
<1>4. r.done = FALSE /\ r.curr = cwd
  BY <1>2 DEF Start
<1>5. ResolveStep(r, comps, n) = Ending(r, Lookup(cwd, name), name)
  <2>1. ~(n < Len(comps))
    OBVIOUS
  <2> QED BY <1>4, <2>1, StepLast
<1>6. Answer(Ending(r, Lookup(cwd, name), name)).inode = Lookup(cwd, name)
  BY <1>2 DEF Start, Answer, Ending
<1> QED BY <1>1, <1>3, <1>5, <1>6

\* ramfs_fstat describes the file that is open if and only if the working
\* directory holds it.
THEOREM RamFSFstatByName == Spec => []FstatByName
<1>1. RInv => FstatByName
  <2> SUFFICES ASSUME RInv, NEW p \in alive, NEW fd \in Fds, fd_table[p][fd] # 0,
                      NEW n, n = File(p, fd).node
               PROVE  FstatAnswer(p, fd) = n <=> cwd_inode[p] = IF n = 0 THEN 0 ELSE files[n].parent
    BY DEF FstatByName
  <2> DEFINE cwd == cwd_inode[p]
             name == files[n].name
  <2>1. p \in Procs /\ cwd \in Inodes /\ TreeInv
    BY DEF RInv, CwdInv
  <2>2. n \in Inodes /\ Used(n)
    <3>1. fd_table[p][fd] \in Handles /\ global_file_table[fd_table[p][fd]] # Closed
      BY <2>1 DEF RInv, HandleInv, Handles
    <3> QED BY <3>1, OpenIs DEF RInv, File
  <2>3. FstatAnswer(p, fd) =
          resolve_path(cwd, [abs |-> FALSE, comps |-> IF name = "" THEN <<>> ELSE <<name>>]).inode
    BY DEF FstatAnswer, NodeOf
  <2> HIDE DEF cwd
  <2>4. CASE n = 0
    <3>1. name = ""
      BY <2>1, <2>4 DEF TreeInv
    <3>2. PICK path : path = [abs |-> FALSE, comps |-> <<>>]
      OBVIOUS
    <3>3. FstatAnswer(p, fd) = Walk(cwd, path).inode
      <4>1. PICK comps : comps = <<>>
        OBVIOUS
      <4>2. PathLen(comps) \in 0 .. PATH_SIZE - 1
        <5>1. PathLen(comps) = 0
          BY <4>1, EmptyLen
        <5> QED BY <5>1, Positive
      <4>3. resolve_path(cwd, [abs |-> FALSE, comps |-> comps]) = Walk(cwd, [abs |-> FALSE, comps |-> comps])
        BY <4>2, Uncut
      <4> QED BY <2>3, <3>1, <3>2, <4>1, <4>3
    <3>4. PICK len \in Nat : len = Len(path.comps) /\ len = 0
      BY <3>2
    <3>5. Walk(cwd, path).inode = cwd
      <4>1. Walk(cwd, path).inode = IF path.abs THEN 0 ELSE cwd
        BY <3>4, ResolveNone
      <4> QED BY <3>2, <4>1
    <3> QED BY <2>4, <3>3, <3>5 DEF cwd
  <2>5. CASE n # 0
    <3>1. name \in Plain
      BY <2>1, <2>2, <2>5 DEF TreeInv, TreeUp
    <3>2. name # ""
      BY <3>1 DEF Plain
    <3>3. FstatAnswer(p, fd) = Lookup(cwd, name)
      <4>1. PICK path : path = [abs |-> FALSE, comps |-> <<name>>]
        OBVIOUS
      <4>2. FstatAnswer(p, fd) = Walk(cwd, path).inode
        <5>1. PICK nm, comps : nm = name /\ comps = <<nm>>
          OBVIOUS
        <5>2. NameLen(nm) \in 0 .. NAME_SIZE - 1
          BY <2>2, <5>1 DEF RInv, Sizes
        <5>3. nm # "/"
          BY <3>1, <5>1 DEF Plain
        <5>4. PathLen(comps) = NameLen(nm)
          <6>1. NameLen(nm) \in Nat
            BY ONLY <5>2, Positive
          <6> QED BY ONLY <5>1, <5>3, <6>1, NameLength
        <5>5. PathLen(comps) \in 0 .. PATH_SIZE - 1
          BY ONLY <5>2, <5>4, Positive
        <5>6. resolve_path(cwd, [abs |-> FALSE, comps |-> comps]) = Walk(cwd, [abs |-> FALSE, comps |-> comps])
          BY <5>5, Uncut
        <5> QED BY <2>3, <3>2, <4>1, <5>1, <5>6
      <4>a. PICK comps : comps = path.comps /\ comps = <<name>>
        BY <4>1
      <4>3. PICK len \in Nat : len = Len(comps) /\ len = 1 /\ comps[len] = name
        BY <4>a
      <4>4. path.abs = FALSE
        BY <4>1
      <4> HIDE DEF name
      <4>5. Walk(cwd, path).inode = Lookup(cwd, name)
        BY ONLY <3>1, <4>a, <4>3, <4>4, ResolveName
      <4> QED BY <4>2, <4>5
    <3>4. Lookup(cwd, name) = n => files[n].parent = cwd
      BY <2>2, LookupIs, InodesNat
    <3>5. files[n].parent = cwd => Lookup(cwd, name) = n
      BY <2>1, <2>2, LookupFinds
    <3> QED BY <2>5, <3>3, <3>4, <3>5 DEF cwd
  <2> QED BY <2>4, <2>5
<1> QED BY <1>1, RamFSInvariant, PTL

-----------------------------------------------------------------------------
(* The way from the root to a directory and back.                          *)

LEMMA ParentBefore ==
    ASSUME TreeInv, NEW i \in Inodes, i # 0
    PROVE  files[i].parent \in 0 .. i - 1 /\ files[i].parent \in Inodes
<1>1. i \in Nat /\ i < MAX_FILES /\ MAX_FILES \in Nat
  BY RamFSAssumption DEF Inodes
<1>2. files[i].parent \in 0 .. i - 1
  <2>1. CASE Used(i)
    BY <2>1 DEF TreeInv, TreeUp
  <2>2. CASE ~Used(i)
    <3>1. files[i].parent = 0
      BY <2>2 DEF Used, Unused
    <3> QED BY <1>1, <3>1
  <2> QED BY <2>1, <2>2
<1> QED BY <1>1, <1>2 DEF Inodes

\* What ramfs_getcwd collects from an inode, from those of the ones before it.
Collected(f, i) == IF i = 0 THEN <<>> ELSE Append(f[files[i].parent], files[i].name)

\* f holds the names collected from the inodes up to n.
IsNames(f, n) == f = [i \in 0 .. n |-> Collected(f, i)]

\* There is such a function: the way up ends at the root.
LEMMA NamesExist ==
    ASSUME TreeInv, NEW n \in Inodes
    PROVE  \E f : IsNames(f, n)
<1> DEFINE Bad == {m \in Inodes : ~\E f : IsNames(f, m)}
<1>1. SUFFICES ASSUME Bad # {} PROVE FALSE
  OBVIOUS
<1>2. PICK m \in Bad : \A l \in Bad : m <= l
  <2>1. Bad \subseteq Nat
    BY InodesNat
  <2> HIDE DEF Bad
  <2> QED BY <1>1, <2>1, LeastNatural
<1>3. m \in Inodes /\ m \in Nat /\ ~\E f : IsNames(f, m)
  BY InodesNat
<1>4. CASE m = 0
  <2> DEFINE f == [i \in 0 .. 0 |-> <<>>]
  <2>1. \A i \in 0 .. 0 : Collected(f, i) = <<>>
    BY DEF Collected
  <2>2. f = [i \in 0 .. 0 |-> Collected(f, i)]
    BY <2>1
  <2>3. IsNames(f, 0)
    BY <2>2 DEF IsNames
  <2> QED BY <1>3, <1>4, <2>3
<1>5. CASE m # 0
  <2>1. m - 1 \in Inodes /\ ~(m <= m - 1)
    BY <1>3, <1>5, RamFSAssumption DEF Inodes
  <2>2. m - 1 \notin Bad
    <3> HIDE DEF Bad
    <3> QED BY <1>2, <2>1
  <2>3. PICK f : IsNames(f, m - 1)
    BY <2>1, <2>2
  <2> DEFINE g == [i \in 0 .. m |-> IF i = m THEN Collected(f, m) ELSE f[i]]
  <2>4. \A i \in 0 .. m - 1 : f[i] = Collected(f, i)
    BY <2>3 DEF IsNames
  <2>5. \A i \in 0 .. m : g[i] = IF i = m THEN Collected(f, m) ELSE f[i]
    OBVIOUS
  <2>6. g = [i \in 0 .. m |-> g[i]]
    OBVIOUS
  <2> HIDE DEF g
  <2>7. ASSUME NEW i \in 0 .. m PROVE g[i] = Collected(g, i)
    <3>1. i \in Inodes /\ i \in Nat
      BY <1>3, RamFSAssumption DEF Inodes
    <3>2. g[i] = Collected(f, i)
      BY <1>3, <2>4, <2>5
    <3>3. CASE i = 0
      BY <3>2, <3>3 DEF Collected
    <3>4. CASE i # 0
      <4>1. files[i].parent \in 0 .. i - 1
        BY <3>1, <3>4, ParentBefore
      <4>2. PICK d : d = files[i].parent
        OBVIOUS
      <4>3. d \in 0 .. m /\ d # m
        BY <1>3, <3>1, <4>1, <4>2
      <4>4. g[d] = f[d]
        BY <2>5, <4>3
      <4> QED BY <3>2, <3>4, <4>2, <4>4 DEF Collected
    <3> QED BY <3>3, <3>4
  <2>8. g = [i \in 0 .. m |-> Collected(g, i)]
    BY <2>6, <2>7
  <2>9. IsNames(g, m)
    BY <2>8 DEF IsNames
  <2> QED BY <1>3, <2>9
<1> QED BY <1>4, <1>5

\* The names on the way to an inode are those on the way to its parent, and
\* its own.
LEMMA CwdNamesIs ==
    ASSUME TreeInv
    PROVE  \A i \in Inodes : CwdNames[i] = Collected(CwdNames, i)
<1> DEFINE names[i \in Inodes] ==
             IF i = 0 THEN <<>> ELSE Append(names[files[i].parent], files[i].name)
<1>1. \E f : f = [i \in Inodes |->
                    IF i = 0 THEN <<>> ELSE Append(f[files[i].parent], files[i].name)]
  <2>1. PICK n \in Inodes : n = MAX_FILES - 1
    BY RamFSAssumption DEF Inodes
  <2>2. PICK f : IsNames(f, n)
    BY NamesExist
  <2>3. 0 .. n = Inodes
    BY <2>1 DEF Inodes
  <2> QED BY <2>2, <2>3 DEF IsNames, Collected
<1>2. names = [i \in Inodes |->
                 IF i = 0 THEN <<>> ELSE Append(names[files[i].parent], files[i].name)]
  BY <1>1
<1>3. CwdNames = names
  BY DEF CwdNames
<1> HIDE DEF names
<1>4. \A i \in Inodes : names[i] = Collected(names, i)
  BY <1>2 DEF Collected
<1> QED BY <1>3, <1>4

LEMMA CwdNamesSeq ==
    ASSUME TreeInv, NEW i \in Inodes, Used(i)
    PROVE  CwdNames[i] \in Seq(Names)
<1> DEFINE Bad == {j \in Inodes : Used(j) /\ CwdNames[j] \notin Seq(Names)}
<1>1. SUFFICES ASSUME Bad # {} PROVE FALSE
  OBVIOUS
<1>2. PICK j \in Bad : \A l \in Bad : j <= l
  <2>1. Bad \subseteq Nat
    BY InodesNat
  <2> HIDE DEF Bad
  <2> QED BY <1>1, <2>1, LeastNatural
<1>3. j \in Inodes /\ j \in Nat /\ Used(j) /\ CwdNames[j] \notin Seq(Names)
  BY InodesNat
<1>4. CwdNames[j] = Collected(CwdNames, j)
  BY <1>3, CwdNamesIs
<1>5. j # 0
  BY <1>3, <1>4 DEF Collected
<1>6. PICK d : d = files[j].parent
  OBVIOUS
<1>7. d \in Inodes /\ Used(d) /\ d \in 0 .. j - 1 /\ files[j].name \in Names
  BY <1>3, <1>5, <1>6 DEF TreeInv, TreeUp, IsDir, Plain
<1>8. ~(j <= d)
  BY <1>3, <1>7
<1>9. d \notin Bad
  <2> HIDE DEF Bad
  <2> QED BY <1>2, <1>8
<1>10. CwdNames[d] \in Seq(Names)
  BY <1>7, <1>9
<1>11. CwdNames[j] = Append(CwdNames[d], files[j].name)
  BY <1>4, <1>5, <1>6 DEF Collected
<1> QED BY <1>3, <1>7, <1>10, <1>11

\* The walk stands in directory a and goes on.
At(r, a) == r \in States /\ r.done = FALSE /\ r.curr = a

\* The path leads through directory a: it begins with the way to a.
Through(comps, n, a) ==
    /\ Len(CwdNames[a]) < n
    /\ \A k \in 1 .. Len(CwdNames[a]) : comps[k] = CwdNames[a][k]

\* The way to an entry goes through its parent and ends with its name.
LEMMA WayTo ==
    ASSUME TreeInv, NEW j \in Inodes, Used(j), j # 0, NEW d, d = files[j].parent
    PROVE  /\ d \in Inodes /\ IsDir(d) /\ d < j /\ files[j].name \in Plain
           /\ Len(CwdNames[d]) \in Nat /\ Len(CwdNames[j]) = Len(CwdNames[d]) + 1
           /\ CwdNames[j][Len(CwdNames[d]) + 1] = files[j].name
           /\ \A k \in 1 .. Len(CwdNames[d]) : CwdNames[j][k] = CwdNames[d][k]
<1>1. /\ d \in Inodes /\ IsDir(d) /\ Used(d) /\ d \in 0 .. j - 1 /\ files[j].name \in Plain
      /\ files[j].name \in Names
  BY DEF TreeInv, TreeUp, IsDir, Plain
<1>2. d < j
  BY <1>1, InodesNat
<1>3. CwdNames[j] = Append(CwdNames[d], files[j].name)
  BY CwdNamesIs DEF Collected
<1>4. CwdNames[d] \in Seq(Names)
  BY <1>1, CwdNamesSeq
<1>5. PICK s \in Seq(Names), name \in Names : s = CwdNames[d] /\ name = files[j].name
  BY <1>1, <1>4
<1>6. /\ Len(s) \in Nat /\ Len(Append(s, name)) = Len(s) + 1
      /\ Append(s, name)[Len(s) + 1] = name
      /\ \A k \in 1 .. Len(s) : Append(s, name)[k] = s[k]
  OBVIOUS
<1> QED BY <1>1, <1>2, <1>3, <1>5, <1>6

\* A path that leads through a directory is there after the way to it.
LEMMA WalkDown ==
    ASSUME TreeInv, NEW comps, NEW n \in Nat, n = Len(comps), NEW start, At(start, 0),
           NEW w, IsWalk(w, n, start, comps), NEW a \in Inodes, IsDir(a), Through(comps, n, a)
    PROVE  At(w[Len(CwdNames[a])], a)
<1> DEFINE Bad == {j \in Inodes : IsDir(j) /\ Through(comps, n, j) /\ ~At(w[Len(CwdNames[j])], j)}
<1>1. SUFFICES ASSUME Bad # {} PROVE FALSE
  OBVIOUS
<1>2. PICK j \in Bad : \A l \in Bad : j <= l
  <2>1. Bad \subseteq Nat
    BY InodesNat
  <2> HIDE DEF Bad
  <2> QED BY <1>1, <2>1, LeastNatural
<1>3. /\ j \in Inodes /\ IsDir(j) /\ Used(j) /\ Through(comps, n, j)
      /\ ~At(w[Len(CwdNames[j])], j)
  BY DEF IsDir
<1>4. j # 0
  <2>1. SUFFICES ASSUME j = 0 PROVE FALSE
    OBVIOUS
  <2>2. CwdNames[j] = <<>>
    BY <1>3, <2>1, CwdNamesIs DEF Collected
  <2>3. PICK len : len = Len(CwdNames[j]) /\ len = 0
    BY <2>2
  <2>4. w[len] = start
    BY <2>3 DEF IsWalk
  <2>5. At(w[len], j)
    BY <2>1, <2>4
  <2> QED BY <1>3, <2>3, <2>5
<1>5. PICK d, len : d = files[j].parent /\ len = Len(CwdNames[d])
  OBVIOUS
<1>6. /\ d \in Inodes /\ IsDir(d) /\ d < j /\ files[j].name \in Plain
      /\ len \in Nat /\ Len(CwdNames[j]) = len + 1
      /\ CwdNames[j][len + 1] = files[j].name
      /\ \A k \in 1 .. len : CwdNames[j][k] = CwdNames[d][k]
  BY <1>3, <1>4, <1>5, WayTo
<1>7. Through(comps, n, d) /\ len + 1 < n /\ comps[len + 1] = files[j].name
  <2>1. len + 1 < n /\ \A k \in 1 .. len + 1 : comps[k] = CwdNames[j][k]
    BY <1>3, <1>6 DEF Through
  <2>2. len < n /\ \A k \in 1 .. len : comps[k] = CwdNames[d][k]
    BY <1>6, <2>1
  <2>3. Through(comps, n, d)
    BY <1>5, <2>2 DEF Through
  <2> QED BY <1>6, <2>1, <2>3
<1>8. At(w[len], d)
  <2>a. d \in Inodes /\ j \in Inodes /\ d < j
    BY <1>3, <1>6
  <2>b. d \in Nat /\ j \in Nat
    BY ONLY <2>a, InodesNat
  <2>1. ~(j <= d)
    BY ONLY <2>a, <2>b
  <2>2. d \notin Bad
    <3> HIDE DEF Bad
    <3> QED BY <1>2, <2>1
  <2> QED BY <1>5, <1>6, <1>7, <2>2
<1>9. PICK r, k, name : r = w[len] /\ k = len + 1 /\ name = files[j].name
  OBVIOUS
<1>10. k \in 1 .. n /\ k - 1 = len
  BY <1>6, <1>7, <1>9
<1>11. w[k] = ResolveStep(r, comps, k)
  <2>1. w[k] = ResolveStep(w[k - 1], comps, k)
    BY <1>10 DEF IsWalk
  <2> QED BY <1>9, <1>10, <2>1
<1>12. ResolveStep(r, comps, k) = Into(r, j)
  <2>1. r.done = FALSE /\ r.curr = d /\ name \in Plain /\ comps[k] = name /\ k < Len(comps)
    BY <1>6, <1>7, <1>8, <1>9 DEF At
  <2>2. j = Lookup(r.curr, name) /\ files[j].type = "dir"
    BY <1>3, <1>5, <1>9, <2>1, LookupFinds DEF IsDir
  <2>3. j \in Inodes
    BY <1>3
  <2> QED BY ONLY <2>1, <2>2, <2>3, StepInto
<1>13. At(Into(r, j), j)
  <2>1. r \in States /\ r.done = FALSE
    BY <1>8, <1>9 DEF At
  <2> QED BY <1>3, <2>1 DEF At, Into, States
<1> QED BY <1>3, <1>6, <1>9, <1>11, <1>12, <1>13

\* A directory is found again by the path ramfs_getcwd answers for it.
LEMMA RoundTrip ==
    ASSUME TreeInv, NEW i \in Inodes, IsDir(i), NEW path, NEW comps,
           path.abs = TRUE, comps = path.comps, comps = CwdNames[i]
    PROVE  Walk(0, path).inode = i
<1>0. Used(i)
  BY DEF IsDir
<1>1. CASE i = 0
  <2>1. comps = <<>>
    BY <1>1, CwdNamesIs DEF Collected
  <2>2. PICK n \in Nat : n = Len(path.comps) /\ n = 0
    BY <2>1
  <2>3. PICK cwd : cwd = 0
    OBVIOUS
  <2>4. Walk(cwd, path).inode = IF path.abs THEN 0 ELSE cwd
    BY ONLY <2>2, ResolveNone
  <2> QED BY <1>1, <2>3, <2>4
<1>2. CASE i # 0
  <2>1. PICK d, len : d = files[i].parent /\ len = Len(CwdNames[d])
    OBVIOUS
  <2>2. /\ d \in Inodes /\ IsDir(d) /\ files[i].name \in Plain
        /\ len \in Nat /\ Len(CwdNames[i]) = len + 1
        /\ CwdNames[i][len + 1] = files[i].name
        /\ \A k \in 1 .. len : CwdNames[i][k] = CwdNames[d][k]
    BY <1>0, <1>2, <2>1, WayTo
  <2>3. PICK n \in Nat : n = len + 1 /\ n = Len(path.comps) /\ n = Len(comps)
    BY <2>2
  <2>4. PICK cwd : cwd = 0
    OBVIOUS
  <2>5. PICK w : /\ IsWalk(w, n, Start(cwd, path), path.comps)
                 /\ Walk(cwd, path) = Answer(w[n])
    BY ONLY <2>3, ResolveEnd
  <2>6. PICK start : start = Start(cwd, path)
    OBVIOUS
  <2>7. At(start, 0)
    <3>1. "" \in Names /\ 0 \in Inodes
      BY InodesNat DEF Names
    <3> QED BY <2>4, <2>6, <3>1 DEF At, Start, States
  <2>8. Through(comps, n, d)
    BY <2>1, <2>2, <2>3 DEF Through
  <2>9. IsWalk(w, n, start, comps)
    BY <2>5, <2>6
  <2>10. At(w[len], d)
    <3>1. At(w[Len(CwdNames[d])], d)
      BY ONLY TreeInv, <2>2, <2>3, <2>7, <2>8, <2>9, WalkDown
    <3> QED BY <2>1, <3>1
  <2>11. PICK r, name : r = w[len] /\ name = files[i].name
    OBVIOUS
  <2>12. w[n] = ResolveStep(r, comps, n)
    <3>1. n \in 0 .. n /\ n # 0 /\ n - 1 = len
      BY <2>2, <2>3
    <3>2. w[n] = ResolveStep(w[n - 1], comps, n)
      BY <2>9, <3>1 DEF IsWalk
    <3> QED BY <2>11, <3>1, <3>2
  <2>13. PICK found : found = Lookup(r.curr, name)
    OBVIOUS
  <2>14. ResolveStep(r, comps, n) = Ending(r, found, name)
    <3>1. r.done = FALSE /\ name \in Plain /\ comps[n] = name /\ ~(n < Len(comps))
      BY <2>2, <2>3, <2>10, <2>11 DEF At
    <3> QED BY <2>13, <3>1, StepLast
  <2>15. found = i
    <3>1. r.curr = d
      BY <2>10, <2>11 DEF At
    <3> QED BY <1>0, <2>1, <2>11, <2>13, <3>1, LookupFinds
  <2>16. Answer(Ending(r, found, name)).inode = found
    <3>1. r \in States
      BY <2>10, <2>11 DEF At
    <3> QED BY <3>1 DEF Answer, Ending, States
  <2> QED BY <2>4, <2>5, <2>12, <2>14, <2>15, <2>16
<1> QED BY <1>1, <1>2

\* What ramfs_getcwd answers leads ramfs_chdir back to the working directory,
\* for every process at every time, names of any length and buffers up to one
\* byte more than the copy of a path in resolve_path.
THEOREM RamFSCwdRoundTrip == Spec => []CwdRoundTrip
<1>1. RInv => CwdRoundTrip
  <2> SUFFICES ASSUME RInv, NEW p \in alive
               PROVE  /\ files[cwd_inode[p]].type = "dir"
                      /\ \A size \in 0 .. PATH_SIZE + 1 :
                           ramfs_getcwd(cwd_inode[p], size) =>
                             resolve_path(0, [abs |-> TRUE, comps |-> CwdNames[cwd_inode[p]]]).inode
                               = cwd_inode[p]
    BY DEF CwdRoundTrip
  <2>1. PICK i \in Inodes : i = cwd_inode[p] /\ IsDir(i)
    BY DEF RInv, CwdInv
  <2>2. PICK comps : comps = CwdNames[i]
    OBVIOUS
  <2>3. ASSUME NEW size \in 0 .. PATH_SIZE + 1, ramfs_getcwd(i, size)
        PROVE  resolve_path(0, [abs |-> TRUE, comps |-> comps]).inode = i
    <3>1. PICK path : path = [abs |-> TRUE, comps |-> comps]
      OBVIOUS
    <3>2. path.abs = TRUE /\ comps = path.comps
      BY <3>1
    <3>3. TreeInv
      BY DEF RInv
    <3>4. Walk(0, path).inode = i
      BY ONLY <2>1, <2>2, <3>2, <3>3, RoundTrip
    <3>5. PathLen(comps) \in 0 .. PATH_SIZE - 1
      <4>1. PICK len : len = PathLen(comps)
        OBVIOUS
      <4>2. len \in 0 .. size - 2
        BY <2>2, <2>3, <4>1 DEF ramfs_getcwd
      <4>3. len \in 0 .. PATH_SIZE - 1
        BY ONLY <4>2, Positive, size \in 0 .. PATH_SIZE + 1
      <4> QED BY <4>1, <4>3
    <3>6. PICK cwd, abs : cwd = 0 /\ abs = TRUE
      OBVIOUS
    <3>7. resolve_path(cwd, [abs |-> abs, comps |-> comps]) = Walk(cwd, [abs |-> abs, comps |-> comps])
      BY <3>5, Uncut
    <3> QED BY <3>1, <3>4, <3>6, <3>7
  <2> QED BY <2>1, <2>2, <2>3 DEF IsDir
<1> QED BY <1>1, RamFSInvariant, PTL
=============================================================================
