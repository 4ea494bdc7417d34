------------------------- MODULE AddressSpaceProofs -------------------------
(***************************************************************************)
(* Theorems about AddressSpace, for any number of frames, processes and    *)
(* calls, any page and table size and any program.                         *)
(***************************************************************************)
EXTENDS AddressSpace, WellFoundedInduction, FiniteSetTheorems, TLAPS

-----------------------------------------------------------------------------
(* Induction: the least counterexample.                                    *)

\* A non-empty set of naturals has a least element.
LEMMA LeastNatural ==
    ASSUME NEW S, S \subseteq Nat, S # {}
    PROVE  \E x \in S : \A y \in S : x <= y
<1> DEFINE Below == {p \in Nat \X Nat : p[1] < p[2]}
<1>1. IsWellFoundedOn(Below, Nat)
  BY NatLessThanWellFounded DEF OpToRel
<1>2. PICK x \in S : \A y \in S : ~(<<y, x>> \in Below)
  <2> HIDE DEF Below
  <2> QED BY <1>1, WFMin
<1>3. \A y \in S : ~(y < x)
  BY <1>2
<1> QED BY <1>3

-----------------------------------------------------------------------------
(* Types.                                                                  *)

\* Functions from a part of D to frames.
Maps(D) == UNION {[S -> Frames] : S \in SUBSET D}

Nodes == (1 .. 3) \X Nat

\* Work on page tables.
Works ==
    [free : SUBSET Frames, tables : Maps(Nodes), pte : Maps(Nat),
     starved : BOOLEAN, failed : BOOLEAN, done : SUBSET Nat]

\* The frames that are free or in use by tables t and entries e.
Holds(f, t, e) == f \cup Range(t) \cup Range(e)

\* No frame has two uses, and none in use is free.
Sound(f, t, e) ==
    /\ \A a, b \in DOMAIN t : t[a] = t[b] => a = b
    /\ \A a, b \in DOMAIN e : e[a] = e[b] => a = b
    /\ \A a \in DOMAIN t : t[a] \notin f /\ \A b \in DOMAIN e : t[a] # e[b]
    /\ \A b \in DOMAIN e : e[b] \notin f

Held(w) == Holds(w.free, w.tables, w.pte)

SoundWork(w) == w \in Works /\ Sound(w.free, w.tables, w.pte)

\* The members of Maps(D) are the functions from a part of D to frames.
LEMMA MapsMember ==
    ASSUME NEW D, NEW t
    PROVE  t \in Maps(D) <=> (t \in [DOMAIN t -> Frames] /\ DOMAIN t \subseteq D)
BY DEF Maps

\* The least of the free frames is one of them.
LEMMA MinFree ==
    ASSUME NEW f \in SUBSET Frames, f # {}
    PROVE  Min(f) \in f /\ Min(f) \in Frames
<1>1. f \subseteq Nat
  BY AddressSpaceAssumption DEF Frames, AddressSpaceAssumption
<1>2. PICK x \in f : \A y \in f : x <= y
  BY <1>1, LeastNatural
<1> QED BY <1>2 DEF Min

\* A written entry.
LEMMA EntryMap ==
    ASSUME NEW D, NEW t \in Maps(D), NEW x \in D, NEW frame \in Frames
    PROVE  /\ Entry(t, x, frame) \in Maps(D)
           /\ DOMAIN Entry(t, x, frame) = DOMAIN t \cup {x}
           /\ Entry(t, x, frame)[x] = frame
           /\ \A y \in DOMAIN t \ {x} : Entry(t, x, frame)[y] = t[y]
<1>1. t \in [DOMAIN t -> Frames] /\ DOMAIN t \subseteq D
  BY MapsMember
<1>2. /\ Entry(t, x, frame) = [y \in DOMAIN t \cup {x} |-> IF y = x THEN frame ELSE t[y]]
      /\ Entry(t, x, frame) \in [DOMAIN t \cup {x} -> Frames]
  BY <1>1 DEF Entry
<1>3. Entry(t, x, frame) \in Maps(D)
  BY <1>1, <1>2 DEF Maps
<1> QED BY <1>2, <1>3

\* A table walk step takes a free frame for a table that is missing, and
\* neither loses nor shares one.
LEMMA NextTable ==
    ASSUME NEW w, SoundWork(w), NEW node \in Nodes
    PROVE  LET x == get_next_table(w, node)
           IN  /\ SoundWork(x)
               /\ x.pte = w.pte /\ x.failed = w.failed /\ x.done = w.done
               /\ x.free \subseteq w.free /\ Held(x) = Held(w)
               /\ DOMAIN w.tables \subseteq DOMAIN x.tables
               /\ DOMAIN x.tables \subseteq DOMAIN w.tables \cup {node}
               /\ w.starved => x.starved /\ x.free = w.free
               /\ x.starved /\ ~w.starved => x.free = {}
               /\ ~x.starved => node \in DOMAIN x.tables
<1> DEFINE x == get_next_table(w, node)
<1>0. w \in Works /\ Sound(w.free, w.tables, w.pte)
  BY DEF SoundWork
<1>1. CASE w.starved \/ node \in DOMAIN w.tables
  <2>1. x = w
    BY <1>1 DEF get_next_table
  <2> QED BY <1>1, <2>1
<1>2. CASE ~w.starved /\ node \notin DOMAIN w.tables /\ w.free = {}
  <2>1. x = [w EXCEPT !.starved = TRUE]
    BY <1>2 DEF get_next_table
  <2>2. /\ x \in Works /\ x.free = w.free /\ x.tables = w.tables /\ x.pte = w.pte
        /\ x.failed = w.failed /\ x.done = w.done /\ x.starved
    BY <1>0, <2>1 DEF Works
  <2> HIDE DEF x
  <2>3. SoundWork(x)
    BY <1>0, <2>2 DEF SoundWork
  <2> QED BY <1>2, <2>2, <2>3 DEF Held, x
<1>3. CASE ~w.starved /\ node \notin DOMAIN w.tables /\ w.free # {}
  <2>0. w.free \in SUBSET Frames /\ w.tables \in Maps(Nodes) /\ w.pte \in Maps(Nat)
    BY <1>0 DEF Works
  <2>1. PICK m : m = Min(w.free)
    OBVIOUS
  <2>2. m \in w.free /\ m \in Frames
    BY <1>3, <2>0, <2>1, MinFree
  <2>3. PICK t : t = Entry(w.tables, node, m)
    OBVIOUS
  <2>4. x = [w EXCEPT !.free = @ \ {m}, !.tables = t]
    BY <1>3, <2>1, <2>3 DEF get_next_table
  <2>5. /\ t \in Maps(Nodes) /\ DOMAIN t = DOMAIN w.tables \cup {node}
        /\ t[node] = m /\ \A y \in DOMAIN w.tables \ {node} : t[y] = w.tables[y]
    <3> HIDE DEF x
    <3>1. PICK old : old = w.tables
      OBVIOUS
    <3>2. old \in Maps(Nodes) /\ t = Entry(old, node, m)
      BY <2>0, <2>3, <3>1
    <3>3. /\ Entry(old, node, m) \in Maps(Nodes)
          /\ DOMAIN Entry(old, node, m) = DOMAIN old \cup {node}
          /\ Entry(old, node, m)[node] = m
          /\ \A y \in DOMAIN old \ {node} : Entry(old, node, m)[y] = old[y]
      BY ONLY <3>2, <2>2, EntryMap, node \in Nodes
    <3> QED BY <3>1, <3>2, <3>3
  <2>6. /\ x \in Works /\ x.free = w.free \ {m} /\ x.tables = t /\ x.pte = w.pte
        /\ x.failed = w.failed /\ x.done = w.done /\ x.starved = w.starved
    BY <1>0, <2>0, <2>4, <2>5 DEF Works
  <2> HIDE DEF x
  <2>7. Sound(x.free, x.tables, x.pte)
    BY <1>0, <1>3, <2>2, <2>5, <2>6 DEF Sound
  <2>8. Range(t) = Range(w.tables) \cup {m}
    BY <1>3, <2>5 DEF Range
  <2>9. Held(x) = Held(w)
    BY <2>2, <2>6, <2>8 DEF Held, Holds
  <2>10. SoundWork(x)
    BY <2>6, <2>7 DEF SoundWork
  <2> QED BY <1>3, <2>5, <2>6, <2>9, <2>10 DEF x
<1> QED BY <1>1, <1>2, <1>3

\* The nodes on the path to a page.
LEMMA NodeType ==
    ASSUME NEW page \in Nat
    PROVE  Node(1, page) \in Nodes /\ Node(2, page) \in Nodes /\ Node(3, page) \in Nodes
<1>1. /\ Node(1, page) = <<1, page \div Span>>
      /\ Node(2, page) = <<2, page \div (Span * Span)>>
      /\ Node(3, page) = <<3, page \div (Span * Span * Span)>>
  BY DEF Node, Reach
<1>2. Span \in Nat \ {0}
  BY AddressSpaceAssumption DEF AddressSpaceAssumption
<1>3. \A a, b \in Nat \ {0} : a * b \in Nat \ {0}
  OBVIOUS
<1>4. Span * Span \in Nat \ {0} /\ Span * Span * Span \in Nat \ {0}
  BY <1>2, <1>3
<1>5. \A a \in Nat, b \in Nat \ {0} : a \div b \in Nat
  OBVIOUS
<1>6. /\ page \div Span \in Nat /\ page \div (Span * Span) \in Nat
      /\ page \div (Span * Span * Span) \in Nat
  BY <1>2, <1>4, <1>5
<1> QED BY <1>1, <1>6 DEF Nodes

\* The tables on the way to a page.
Path(page) == {Node(1, page), Node(2, page), Node(3, page)}

\* vmm_map_page writes one entry, or none when a table is missing; a frame is
\* then lost, as it is when the entry was there.
LEMMA MapPage ==
    ASSUME NEW w, SoundWork(w), NEW page \in Nat, NEW frame \in Frames, frame \notin Held(w)
    PROVE  LET x == vmm_map_page(w, page, frame)
           IN  /\ SoundWork(x)
               /\ x.failed = w.failed /\ x.done = w.done /\ x.free \subseteq w.free
               /\ Held(x) \subseteq Held(w) \cup {frame}
               /\ DOMAIN w.pte \subseteq DOMAIN x.pte
               /\ DOMAIN x.pte \subseteq DOMAIN w.pte \cup {page}
               /\ \A q \in DOMAIN w.pte \ {page} : x.pte[q] = w.pte[q]
               /\ ~x.starved => page \in DOMAIN x.pte /\ Node(3, page) \in DOMAIN x.tables
               /\ ~x.starved /\ page \notin DOMAIN w.pte => Held(w) \cup {frame} \subseteq Held(x)
               /\ w.starved => x.starved /\ x.free = w.free
               /\ x.starved /\ ~w.starved => x.free = {}
               /\ DOMAIN w.tables \subseteq DOMAIN x.tables
               /\ DOMAIN x.tables \subseteq DOMAIN w.tables \cup Path(page)
<1>1. PICK a : a = get_next_table(w, Node(3, page))
  OBVIOUS
<1>2. PICK b : b = get_next_table(a, Node(2, page))
  OBVIOUS
<1>3. PICK c : c = get_next_table(b, Node(1, page))
  OBVIOUS
<1>4. vmm_map_page(w, page, frame)
        = IF c.starved THEN c ELSE [c EXCEPT !.pte = Entry(@, page, frame)]
  BY <1>1, <1>2, <1>3 DEF vmm_map_page
<1>5. Node(1, page) \in Nodes /\ Node(2, page) \in Nodes /\ Node(3, page) \in Nodes
  BY NodeType
<1>6. /\ SoundWork(a) /\ a.pte = w.pte /\ a.failed = w.failed /\ a.done = w.done
      /\ a.free \subseteq w.free /\ Held(a) = Held(w)
      /\ DOMAIN w.tables \subseteq DOMAIN a.tables
      /\ DOMAIN a.tables \subseteq DOMAIN w.tables \cup {Node(3, page)}
      /\ w.starved => a.starved /\ a.free = w.free
      /\ a.starved /\ ~w.starved => a.free = {}
      /\ ~a.starved => Node(3, page) \in DOMAIN a.tables
  BY <1>1, <1>5, NextTable
<1>7. /\ SoundWork(b) /\ b.pte = a.pte /\ b.failed = a.failed /\ b.done = a.done
      /\ b.free \subseteq a.free /\ Held(b) = Held(a)
      /\ DOMAIN a.tables \subseteq DOMAIN b.tables
      /\ DOMAIN b.tables \subseteq DOMAIN a.tables \cup {Node(2, page)}
      /\ a.starved => b.starved /\ b.free = a.free
      /\ b.starved /\ ~a.starved => b.free = {}
  BY <1>2, <1>5, <1>6, NextTable
<1>8. /\ SoundWork(c) /\ c.pte = b.pte /\ c.failed = b.failed /\ c.done = b.done
      /\ c.free \subseteq b.free /\ Held(c) = Held(b)
      /\ DOMAIN b.tables \subseteq DOMAIN c.tables
      /\ DOMAIN c.tables \subseteq DOMAIN b.tables \cup {Node(1, page)}
      /\ b.starved => c.starved /\ c.free = b.free
      /\ c.starved /\ ~b.starved => c.free = {}
  BY <1>3, <1>5, <1>7, NextTable
<1>9. /\ SoundWork(c) /\ c.pte = w.pte /\ c.failed = w.failed /\ c.done = w.done
      /\ c.free \subseteq w.free /\ Held(c) = Held(w)
      /\ w.starved => c.starved /\ c.free = w.free
      /\ c.starved /\ ~w.starved => c.free = {}
      /\ ~c.starved => Node(3, page) \in DOMAIN c.tables
  BY <1>6, <1>7, <1>8
<1>10. /\ DOMAIN w.tables \subseteq DOMAIN c.tables
       /\ DOMAIN c.tables \subseteq DOMAIN w.tables \cup Path(page)
  BY <1>6, <1>7, <1>8 DEF Path
<1> HIDE DEF vmm_map_page
<1>11. CASE c.starved
  <2>1. vmm_map_page(w, page, frame) = c
    BY <1>4, <1>11
  <2> QED BY <2>1, <1>9, <1>10, <1>11
<1>12. CASE ~c.starved
  <2>1. PICK old : old = c.pte
    OBVIOUS
  <2>2. PICK e : e = Entry(old, page, frame)
    OBVIOUS
  <2>3. PICK x : x = [c EXCEPT !.pte = e]
    OBVIOUS
  <2>4. vmm_map_page(w, page, frame) = x
    BY <1>4, <1>12, <2>1, <2>2, <2>3
  <2>5. c \in Works /\ old \in Maps(Nat)
    BY <1>9, <2>1 DEF SoundWork, Works
  <2>6. /\ Entry(old, page, frame) \in Maps(Nat)
        /\ DOMAIN Entry(old, page, frame) = DOMAIN old \cup {page}
        /\ Entry(old, page, frame)[page] = frame
        /\ \A y \in DOMAIN old \ {page} : Entry(old, page, frame)[y] = old[y]
    <3>1. PICK D, p : D = Nat /\ p = page
      OBVIOUS
    <3>2. old \in Maps(D) /\ p \in D
      BY <2>5, <3>1
    <3>3. /\ Entry(old, p, frame) \in Maps(D)
          /\ DOMAIN Entry(old, p, frame) = DOMAIN old \cup {p}
          /\ Entry(old, p, frame)[p] = frame
          /\ \A y \in DOMAIN old \ {p} : Entry(old, p, frame)[y] = old[y]
      BY ONLY <3>2, EntryMap, frame \in Frames
    <3> QED BY <3>1, <3>3
  <2>7. /\ e \in Maps(Nat) /\ DOMAIN e = DOMAIN old \cup {page} /\ e[page] = frame
        /\ \A y \in DOMAIN old \ {page} : e[y] = old[y]
    BY <2>2, <2>6
  <2>8. /\ x \in Works /\ x.free = c.free /\ x.tables = c.tables /\ x.pte = e
        /\ x.starved = c.starved /\ x.failed = c.failed /\ x.done = c.done
    BY <2>3, <2>5, <2>7 DEF Works
  <2>9. frame \notin c.free /\ frame \notin Range(c.tables) /\ frame \notin Range(old)
    BY <1>9, <2>1 DEF Held, Holds
  <2>10. Sound(c.free, c.tables, old)
    BY <1>9, <2>1 DEF SoundWork
  <2>11. Sound(x.free, x.tables, x.pte)
    BY <2>7, <2>8, <2>9, <2>10 DEF Sound, Range
  <2>12. SoundWork(x)
    BY <2>8, <2>11 DEF SoundWork
  <2>13. Range(e) \subseteq Range(old) \cup {frame}
    BY <2>7 DEF Range
  <2>14. page \notin DOMAIN old => Range(e) = Range(old) \cup {frame}
    BY <2>7 DEF Range
  <2>15. Held(x) \subseteq Held(w) \cup {frame}
    BY <1>9, <2>1, <2>8, <2>13 DEF Held, Holds
  <2>16. page \notin DOMAIN w.pte => Held(w) \cup {frame} \subseteq Held(x)
    BY <1>9, <2>1, <2>8, <2>14 DEF Held, Holds
  <2> QED BY <1>9, <1>10, <1>12, <2>1, <2>4, <2>7, <2>8, <2>12, <2>15, <2>16
<1> QED BY <1>11, <1>12

-----------------------------------------------------------------------------
(* Mapping a range.                                                        *)

\* After k turns of the loop that maps pages from first on, starting with free
\* frames f and address space as.
Mapped(f, as, first, k, w) ==
    /\ SoundWork(w)
    /\ w.free \subseteq f
    /\ Held(w) \subseteq Holds(f, as.tables, as.pte)
    /\ w.done \subseteq first .. first + k - 1
    /\ ~w.failed => w.done = first .. first + k - 1
    /\ w.starved \/ w.failed => w.free = {}
    /\ DOMAIN as.pte \subseteq DOMAIN w.pte
    /\ DOMAIN w.pte \subseteq DOMAIN as.pte \cup w.done
    /\ \A q \in DOMAIN as.pte \ w.done : w.pte[q] = as.pte[q]
    /\ ~w.starved => w.done \subseteq DOMAIN w.pte
    /\ ~w.starved /\ w.done \cap DOMAIN as.pte = {} =>
         Holds(f, as.tables, as.pte) \subseteq Held(w)
    /\ DOMAIN as.tables \subseteq DOMAIN w.tables
    /\ \A n \in DOMAIN w.tables \ DOMAIN as.tables :
         \E q \in first .. first + k - 1 : n \in Path(q)
    /\ k # 0 => w.free = {} \/ Node(3, first) \in DOMAIN w.tables
    /\ k # 0 /\ f = {} => w.failed

\* One turn of the loop keeps its invariant.
LEMMA MapTurn ==
    ASSUME NEW f, NEW as, NEW first \in Nat, NEW k \in Nat \ {0}, NEW v,
           Mapped(f, as, first, k - 1, v)
    PROVE  Mapped(f, as, first, k, MapNext(v, first + k - 1))
<1>1. PICK page : page = first + k - 1
  OBVIOUS
<1>2. /\ page \in Nat /\ first .. first + k - 1 = (first .. page - 1) \cup {page}
      /\ page \notin first .. page - 1 /\ first + (k - 1) - 1 = page - 1
      /\ page \in first .. first + k - 1
      /\ k - 1 = 0 => page = first
  BY <1>1
<1>3. PICK before : before = first .. page - 1
  OBVIOUS
<1>4. PICK all : all = first .. first + k - 1
  OBVIOUS
<1>5. all = before \cup {page} /\ page \notin before
  BY <1>2, <1>3, <1>4
<1>6. /\ SoundWork(v) /\ v.free \subseteq f
      /\ Held(v) \subseteq Holds(f, as.tables, as.pte)
      /\ v.done \subseteq before
      /\ ~v.failed => v.done = before
      /\ v.starved \/ v.failed => v.free = {}
      /\ DOMAIN as.pte \subseteq DOMAIN v.pte
      /\ DOMAIN v.pte \subseteq DOMAIN as.pte \cup v.done
      /\ \A q \in DOMAIN as.pte \ v.done : v.pte[q] = as.pte[q]
      /\ ~v.starved => v.done \subseteq DOMAIN v.pte
      /\ ~v.starved /\ v.done \cap DOMAIN as.pte = {} =>
           Holds(f, as.tables, as.pte) \subseteq Held(v)
      /\ DOMAIN as.tables \subseteq DOMAIN v.tables
      /\ \A n \in DOMAIN v.tables \ DOMAIN as.tables : \E q \in before : n \in Path(q)
      /\ k - 1 # 0 => v.free = {} \/ Node(3, first) \in DOMAIN v.tables
  BY <1>2, <1>3 DEF Mapped
<1>7. \A w : Mapped(f, as, first, k, w) <=>
      /\ SoundWork(w) /\ w.free \subseteq f
      /\ Held(w) \subseteq Holds(f, as.tables, as.pte)
      /\ w.done \subseteq all
      /\ ~w.failed => w.done = all
      /\ w.starved \/ w.failed => w.free = {}
      /\ DOMAIN as.pte \subseteq DOMAIN w.pte
      /\ DOMAIN w.pte \subseteq DOMAIN as.pte \cup w.done
      /\ \A q \in DOMAIN as.pte \ w.done : w.pte[q] = as.pte[q]
      /\ ~w.starved => w.done \subseteq DOMAIN w.pte
      /\ ~w.starved /\ w.done \cap DOMAIN as.pte = {} =>
           Holds(f, as.tables, as.pte) \subseteq Held(w)
      /\ DOMAIN as.tables \subseteq DOMAIN w.tables
      /\ \A n \in DOMAIN w.tables \ DOMAIN as.tables : \E q \in all : n \in Path(q)
      /\ w.free = {} \/ Node(3, first) \in DOMAIN w.tables
      /\ f = {} => w.failed
  BY <1>4 DEF Mapped
<1>8. v \in Works /\ v.free \in SUBSET Frames
  BY <1>6 DEF SoundWork, Works
<1>9. CASE v.failed
  <2>1. MapNext(v, page) = v
    BY <1>9 DEF MapNext
  <2> QED BY <1>1, <1>5, <1>6, <1>7, <1>9, <2>1
<1>10. CASE ~v.failed /\ v.free = {}
  <2>1. PICK w : w = [v EXCEPT !.failed = TRUE]
    OBVIOUS
  <2>2. MapNext(v, page) = w
    BY <1>10, <2>1 DEF MapNext
  <2>3. /\ w \in Works /\ w.free = v.free /\ w.tables = v.tables /\ w.pte = v.pte
        /\ w.done = v.done /\ w.starved = v.starved /\ w.failed
    BY <1>8, <2>1 DEF Works
  <2>4. SoundWork(w) /\ Held(w) = Held(v)
    BY <1>6, <2>3 DEF SoundWork, Held
  <2> QED BY <1>1, <1>5, <1>6, <1>7, <1>10, <2>2, <2>3, <2>4
<1>11. CASE ~v.failed /\ v.free # {}
  <2>1. PICK m : m = Min(v.free)
    OBVIOUS
  <2>2. m \in v.free /\ m \in Frames
    BY <1>8, <1>11, <2>1, MinFree
  <2>3. PICK u : u = [v EXCEPT !.free = @ \ {m}]
    OBVIOUS
  <2>4. PICK x : x = vmm_map_page(u, page, m)
    OBVIOUS
  <2>5. PICK w : w = [x EXCEPT !.done = @ \cup {page}]
    OBVIOUS
  <2>6. MapNext(v, page) = w
    BY <1>11, <2>1, <2>3, <2>4, <2>5 DEF MapNext
  <2>7. /\ u \in Works /\ u.free = v.free \ {m} /\ u.tables = v.tables /\ u.pte = v.pte
        /\ u.done = v.done /\ u.starved = v.starved /\ u.failed = v.failed
    BY <1>8, <2>3 DEF Works
  <2>8. Sound(v.free, v.tables, v.pte)
    BY <1>6 DEF SoundWork
  <2>9. Sound(u.free, u.tables, u.pte)
    BY <2>7, <2>8 DEF Sound
  <2>10. SoundWork(u)
    BY <2>7, <2>9 DEF SoundWork
  <2>11. m \notin Held(u) /\ Held(v) = Held(u) \cup {m}
    BY <2>2, <2>7, <2>8 DEF Held, Holds, Sound, Range
  <2>12. /\ SoundWork(x) /\ x.failed = u.failed /\ x.done = u.done /\ x.free \subseteq u.free
         /\ Held(x) \subseteq Held(u) \cup {m}
         /\ DOMAIN u.pte \subseteq DOMAIN x.pte
         /\ DOMAIN x.pte \subseteq DOMAIN u.pte \cup {page}
         /\ \A q \in DOMAIN u.pte \ {page} : x.pte[q] = u.pte[q]
         /\ ~x.starved => page \in DOMAIN x.pte /\ Node(3, page) \in DOMAIN x.tables
         /\ ~x.starved /\ page \notin DOMAIN u.pte => Held(u) \cup {m} \subseteq Held(x)
         /\ u.starved => x.starved /\ x.free = u.free
         /\ x.starved /\ ~u.starved => x.free = {}
         /\ DOMAIN u.tables \subseteq DOMAIN x.tables
         /\ DOMAIN x.tables \subseteq DOMAIN u.tables \cup Path(page)
    BY <1>2, <2>2, <2>4, <2>10, <2>11, MapPage
  <2>13. x \in Works /\ {page} \in SUBSET Nat
    BY <1>2, <2>12 DEF SoundWork
  <2>14. /\ w \in Works /\ w.free = x.free /\ w.tables = x.tables /\ w.pte = x.pte
         /\ w.done = x.done \cup {page} /\ w.starved = x.starved /\ w.failed = x.failed
    BY <2>5, <2>13 DEF Works
  <2>15. SoundWork(w) /\ Held(w) = Held(x)
    BY <2>12, <2>14 DEF SoundWork, Held
  <2>16. ~v.starved
    BY <1>6, <1>11
  <2>17. w.free \subseteq f /\ Held(w) \subseteq Holds(f, as.tables, as.pte)
    BY <1>6, <2>7, <2>11, <2>12, <2>14, <2>15
  <2>18. w.done = all /\ v.done = before
    BY <1>5, <1>6, <1>11, <2>7, <2>12, <2>14
  <2>19. w.starved \/ w.failed => w.free = {}
    BY <1>11, <2>7, <2>12, <2>14, <2>16
  <2>20. /\ DOMAIN as.pte \subseteq DOMAIN w.pte
         /\ DOMAIN w.pte \subseteq DOMAIN as.pte \cup w.done
    BY <1>5, <1>6, <2>7, <2>12, <2>14, <2>18
  <2>21. \A q \in DOMAIN as.pte \ w.done : w.pte[q] = as.pte[q]
    <3>1. SUFFICES ASSUME NEW q \in DOMAIN as.pte \ w.done PROVE w.pte[q] = as.pte[q]
      OBVIOUS
    <3>2. q # page /\ q \notin v.done /\ q \in DOMAIN v.pte
      BY <1>5, <1>6, <2>18, <3>1
    <3>3. x.pte[q] = u.pte[q]
      BY <2>7, <2>12, <3>2
    <3>4. v.pte[q] = as.pte[q]
      BY <1>6, <3>1, <3>2
    <3> QED BY <2>7, <2>14, <3>3, <3>4
  <2>22. ~w.starved => w.done \subseteq DOMAIN w.pte
    BY <1>5, <1>6, <2>7, <2>12, <2>14, <2>16, <2>18
  <2>23. ASSUME ~w.starved, w.done \cap DOMAIN as.pte = {}
         PROVE  Holds(f, as.tables, as.pte) \subseteq Held(w)
    <3>1. page \notin DOMAIN as.pte /\ v.done \cap DOMAIN as.pte = {}
      BY <1>5, <2>18, <2>23
    <3>2. page \notin DOMAIN u.pte
      BY <1>5, <1>6, <2>7, <2>18, <3>1
    <3>3. Held(v) \subseteq Held(w)
      BY <2>11, <2>12, <2>14, <2>15, <2>23, <3>2
    <3> QED BY <1>6, <2>16, <3>1, <3>3
  <2>24. /\ DOMAIN as.tables \subseteq DOMAIN w.tables
         /\ \A n \in DOMAIN w.tables \ DOMAIN as.tables : \E q \in all : n \in Path(q)
    BY <1>5, <1>6, <2>7, <2>12, <2>14
  <2>25. w.free = {} \/ Node(3, first) \in DOMAIN w.tables
    BY <1>2, <1>6, <1>11, <2>7, <2>12, <2>14, <2>16
  <2>26. f # {}
    BY <1>6, <1>11
  <2> QED BY <1>1, <1>7, <2>6, <2>15, <2>17, <2>18, <2>19, <2>20, <2>21, <2>22, <2>23, <2>24, <2>25, <2>26
<1> QED BY <1>9, <1>10, <1>11

\* What the recursive function in MapPages satisfies.
IsMapping(g, n, start, first) ==
    g = [k \in 0 .. n |-> IF k = 0 THEN start ELSE MapNext(g[k - 1], first + k - 1)]

\* The recursive function in MapPages exists.
LEMMA MappingExists ==
    ASSUME NEW n \in Nat, NEW start, NEW first
    PROVE  \E g : IsMapping(g, n, start, first)
<1> DEFINE Bad == {m \in Nat : ~\E g : IsMapping(g, m, start, first)}
<1>1. SUFFICES ASSUME Bad # {} PROVE FALSE
  OBVIOUS
<1>2. PICK m \in Bad : \A l \in Bad : m <= l
  <2>1. Bad \subseteq Nat
    OBVIOUS
  <2> HIDE DEF Bad
  <2> QED BY <1>1, <2>1, LeastNatural
<1>3. m \in Nat /\ ~\E g : IsMapping(g, m, start, first)
  OBVIOUS
<1>4. CASE m = 0
  <2> DEFINE g == [k \in 0 .. 0 |-> start]
  <2>1. g = [k \in 0 .. 0 |-> IF k = 0 THEN start ELSE MapNext(g[k - 1], first + k - 1)]
    OBVIOUS
  <2>2. IsMapping(g, 0, start, first)
    BY <2>1 DEF IsMapping
  <2> QED BY <1>3, <1>4, <2>2
<1>5. CASE m # 0
  <2>1. m - 1 \in Nat /\ ~(m <= m - 1)
    BY <1>3, <1>5
  <2>2. m - 1 \notin Bad
    <3> HIDE DEF Bad
    <3> QED BY <1>2, <2>1
  <2>3. PICK h : IsMapping(h, m - 1, start, first)
    BY <2>1, <2>2
  <2> DEFINE g == [k \in 0 .. m |-> IF k = m THEN MapNext(h[m - 1], first + m - 1) ELSE h[k]]
  <2>4. \A k \in 0 .. m - 1 : h[k] = IF k = 0 THEN start ELSE MapNext(h[k - 1], first + k - 1)
    BY <2>3 DEF IsMapping
  <2>5. \A k \in 0 .. m : g[k] = IF k = m THEN MapNext(h[m - 1], first + m - 1) ELSE h[k]
    OBVIOUS
  <2>6. ASSUME NEW k \in 0 .. m
        PROVE  g[k] = IF k = 0 THEN start ELSE MapNext(g[k - 1], first + k - 1)
    <3> HIDE DEF g
    <3>1. CASE k = 0
      <4>1. k \in 0 .. m - 1 /\ k # m
        BY <2>1, <1>3, <1>5, <3>1
      <4> QED BY <2>4, <2>5, <3>1, <4>1
    <3>2. CASE k # 0
      <4>1. k - 1 \in 0 .. m /\ k - 1 # m /\ (k # m => k \in 0 .. m - 1)
        BY <1>3, <3>2
      <4>2. g[k - 1] = h[k - 1]
        BY <2>5, <4>1
      <4> QED BY <2>4, <2>5, <3>2, <4>1, <4>2
    <3> QED BY <3>1, <3>2
  <2>7. g = [k \in 0 .. m |-> IF k = 0 THEN start ELSE MapNext(g[k - 1], first + k - 1)]
    <3>1. g = [k \in 0 .. m |-> g[k]]
      OBVIOUS
    <3> HIDE DEF g
    <3> QED BY <2>6, <3>1
  <2>8. IsMapping(g, m, start, first)
    <3> HIDE DEF g
    <3> QED BY <2>7 DEF IsMapping
  <2> QED BY <1>3, <2>8
<1> QED BY <1>4, <1>5


\* MapPages is the last of the turns.
LEMMA MapPagesTurns ==
    ASSUME NEW f, NEW as, NEW first, NEW n \in Nat
    PROVE  \E g : IsMapping(g, n, Work(f, as), first) /\ MapPages(f, as, first, n) = g[n]
<1> DEFINE map == CHOOSE map : map = [k \in 0 .. n |->
                    IF k = 0 THEN Work(f, as) ELSE MapNext(map[k - 1], first + k - 1)]
<1>1. \E g : g = [k \in 0 .. n |->
                    IF k = 0 THEN Work(f, as) ELSE MapNext(g[k - 1], first + k - 1)]
  <2>1. PICK a : a = Work(f, as)
    OBVIOUS
  <2>2. \E g : IsMapping(g, n, a, first)
    BY MappingExists
  <2> QED BY <2>1, <2>2 DEF IsMapping
<1>2. map = [k \in 0 .. n |->
               IF k = 0 THEN Work(f, as) ELSE MapNext(map[k - 1], first + k - 1)]
  BY <1>1
<1>3. MapPages(f, as, first, n) = map[n]
  BY DEF MapPages
<1> HIDE DEF map
<1>4. IsMapping(map, n, Work(f, as), first)
  BY <1>2 DEF IsMapping
<1> QED BY <1>3, <1>4

\* What mapping n pages does.
LEMMA MapPagesMapped ==
    ASSUME NEW f \in SUBSET Frames, NEW as, as.tables \in Maps(Nodes), as.pte \in Maps(Nat),
           Sound(f, as.tables, as.pte), NEW first \in Nat, NEW n \in Nat
    PROVE  Mapped(f, as, first, n, MapPages(f, as, first, n))
<1>1. PICK g : IsMapping(g, n, Work(f, as), first) /\ MapPages(f, as, first, n) = g[n]
  BY MapPagesTurns
<1>2. \A k \in 0 .. n : g[k] = IF k = 0 THEN Work(f, as) ELSE MapNext(g[k - 1], first + k - 1)
  BY <1>1 DEF IsMapping
<1>3. Mapped(f, as, first, 0, Work(f, as))
  <2>1. PICK w : w = Work(f, as)
    OBVIOUS
  <2>2. /\ w \in Works /\ w.free = f /\ w.tables = as.tables /\ w.pte = as.pte
        /\ ~w.starved /\ ~w.failed /\ w.done = {}
    BY <2>1 DEF Work, Works
  <2>3. SoundWork(w) /\ Held(w) = Holds(f, as.tables, as.pte)
    BY <2>2 DEF SoundWork, Held
  <2>4. first .. first + 0 - 1 = {}
    OBVIOUS
  <2> QED BY <2>1, <2>2, <2>3, <2>4 DEF Mapped
<1> DEFINE Bad == {k \in 0 .. n : ~Mapped(f, as, first, k, g[k])}
<1>4. SUFFICES ASSUME Bad # {} PROVE FALSE
  <2>1. n \in 0 .. n
    OBVIOUS
  <2> QED BY <1>1, <2>1
<1>5. PICK k \in Bad : \A l \in Bad : k <= l
  <2>1. Bad \subseteq Nat
    <3>1. Bad \subseteq 0 .. n
      BY Zenon
    <3> HIDE DEF Bad
    <3> QED BY <3>1
  <2> HIDE DEF Bad
  <2> QED BY <1>4, <2>1, LeastNatural
<1>6. k \in 0 .. n /\ ~Mapped(f, as, first, k, g[k])
  OBVIOUS
<1>7. k # 0
  BY <1>2, <1>3, <1>6
<1>8. k - 1 \in 0 .. n /\ ~(k <= k - 1) /\ k \in Nat \ {0}
  BY <1>6, <1>7
<1>9. k - 1 \notin Bad
  <2> HIDE DEF Bad
  <2> QED BY <1>5, <1>8
<1>10. PICK v : v = g[k - 1]
  OBVIOUS
<1>11. Mapped(f, as, first, k - 1, v)
  BY <1>8, <1>9, <1>10
<1>12. Mapped(f, as, first, k, MapNext(v, first + k - 1))
  <2> HIDE DEF Bad
  <2> QED BY <1>8, <1>11, MapTurn
<1> QED BY <1>2, <1>6, <1>7, <1>10, <1>12

-----------------------------------------------------------------------------
(* Pages of a range of bytes.                                              *)

\* Quotients of page arithmetic.
LEMMA DivBounds ==
    ASSUME NEW P \in Nat \ {0}, NEW a \in Nat
    PROVE  a \div P \in Nat /\ P * (a \div P) <= a /\ a < P * (a \div P) + P
OBVIOUS

\* A quotient is at least every number whose multiple fits.
LEMMA DivAtLeast ==
    ASSUME NEW P \in Nat \ {0}, NEW q \in Nat, NEW a \in Nat, P * q <= a
    PROVE  q <= a \div P
<1>1. a < P * (a \div P) + P /\ a \div P \in Nat
  BY DivBounds
<1>2. PICK d \in Nat : d = a \div P
  BY <1>1
<1>3. P * q < P * (d + 1)
  BY <1>1, <1>2
<1>4. \A x, y \in Nat : P * x < P * y => x < y
  OBVIOUS
<1>5. q < d + 1
  BY <1>2, <1>3, <1>4
<1> QED BY <1>2, <1>5

\* A multiple, with or without a part of a page more, and its quotient.
LEMMA DivExact ==
    ASSUME NEW P \in Nat \ {0}, NEW q \in Nat
    PROVE  (q * P) \div P = q /\ (q * P + P - 1) \div P = q
OBVIOUS

\* A range that is not empty has a page.
LEMMA RangeEnds ==
    ASSUME NEW va \in Nat, NEW size \in Nat
    PROVE  /\ FirstPage(va) \in Nat /\ EndPage(va, size) \in Nat
           /\ FirstPage(va) <= EndPage(va, size)
           /\ size # 0 => FirstPage(va) < EndPage(va, size)
<1>1. PICK P : P = PAGE_SIZE
  OBVIOUS
<1>2. P \in Nat \ {0}
  BY <1>1, AddressSpaceAssumption DEF AddressSpaceAssumption
<1>3. PICK a : a = va + size + P - 1
  OBVIOUS
<1>4. a \in Nat /\ va <= a /\ (size # 0 => va + P <= a)
  BY <1>2, <1>3
<1>5. PICK q : q = va \div P
  OBVIOUS
<1>6. q \in Nat /\ P * q <= va
  BY <1>2, <1>5, DivBounds
<1>7. a \div P \in Nat
  BY <1>2, <1>4, DivBounds
<1>8. q <= a \div P
  <2>1. P * q <= a /\ P * q \in Nat
    BY <1>2, <1>4, <1>6
  <2> QED BY <1>2, <1>4, <1>6, <2>1, DivAtLeast
<1>9. size # 0 => q + 1 <= a \div P
  <2>1. SUFFICES ASSUME size # 0 PROVE q + 1 <= a \div P
    OBVIOUS
  <2>2. PICK r \in Nat : r = q + 1
    BY <1>6
  <2>3. P * r = P * q + P
    BY <1>2, <1>6, <2>2
  <2>4. P * r <= a
    BY <1>2, <1>4, <1>6, <2>1, <2>3
  <2> QED BY <1>2, <1>4, <2>2, <2>4, DivAtLeast
<1>10. FirstPage(va) = q /\ EndPage(va, size) = a \div P
  BY <1>1, <1>3, <1>5 DEF FirstPage, EndPage
<1> QED BY <1>6, <1>7, <1>8, <1>9, <1>10

\* Whole pages are not rounded.
LEMMA RangeOfVma ==
    ASSUME NEW s \in Nat, NEW e \in Nat, s <= e
    PROVE  /\ s * PAGE_SIZE \in Nat /\ (e - s) * PAGE_SIZE \in Nat
           /\ FirstPage(s * PAGE_SIZE) = s
           /\ EndPage(s * PAGE_SIZE, (e - s) * PAGE_SIZE) = e
<1>1. PICK P : P = PAGE_SIZE
  OBVIOUS
<1>2. P \in Nat \ {0}
  BY <1>1, AddressSpaceAssumption DEF AddressSpaceAssumption
<1>3. s * P \in Nat /\ (e - s) * P \in Nat /\ s * P + (e - s) * P + P - 1 = e * P + P - 1
  BY <1>2
<1>4. (s * P) \div P = s /\ (e * P + P - 1) \div P = e
  BY <1>2, DivExact
<1>5. FirstPage(s * P) = s /\ EndPage(s * P, (e - s) * P) = e
  BY <1>1, <1>3, <1>4 DEF FirstPage, EndPage
<1> QED BY <1>1, <1>3, <1>5

-----------------------------------------------------------------------------
(* Calls that change an address space.                                     *)

VmaType == {v \in [start : Nat, end : Nat, live : BOOLEAN] : v.start <= v.end}

Spaces ==
    [pml4 : Frames, tables : Maps(Nodes), pte : Maps(Nat), vmas : Seq(VmaType),
     heap : Nat, slots : SUBSET Nodes]

CallType ==
    [mm : Spaces, free : SUBSET Frames, left : Nat, ok : BOOLEAN, fault : BOOLEAN,
     starved : BOOLEAN, remapped : BOOLEAN]

\* The frames of an address space.
FramesOf(m) == IF m = NoMM THEN {} ELSE {m.pml4} \cup Range(m.tables) \cup Range(m.pte)

\* An address space whose frames have one use each and are not in f.
SoundSpace(f, m) ==
    /\ m \in Spaces
    /\ Sound(f, m.tables, m.pte)
    /\ m.pml4 \notin Holds(f, m.tables, m.pte)

\* Every mapped page lies in a vma.
Covered(m) ==
    \A q \in DOMAIN m.pte :
        \E i \in DOMAIN m.vmas : q \in m.vmas[i].start .. m.vmas[i].end - 1

\* A call whose address space is sound against its free frames.
SoundCall(c) == c \in CallType /\ SoundSpace(c.free, c.mm) /\ Covered(c.mm)

\* The frames a call can get at.
Pool(c) == c.free \cup FramesOf(c.mm)

\* What the rollback undoes.
LEMMA RolledBack ==
    ASSUME NEW w, SoundWork(w)
    PROVE  LET u == Rollback(w)
           IN  /\ SoundWork(u) /\ Held(u) = Held(w) /\ u.tables = w.tables
               /\ DOMAIN u.pte = DOMAIN w.pte \ w.done
               /\ \A q \in DOMAIN u.pte : u.pte[q] = w.pte[q]
<1>1. PICK back : back = w.done \cap DOMAIN w.pte
  OBVIOUS
<1>2. PICK e : e = Restrict(w.pte, DOMAIN w.pte \ back)
  OBVIOUS
<1>3. PICK given : given = {w.pte[p] : p \in back}
  OBVIOUS
<1>4. PICK u : u = [w EXCEPT !.free = @ \cup given, !.pte = e]
  OBVIOUS
<1>5. Rollback(w) = u
  BY <1>1, <1>2, <1>3, <1>4 DEF Rollback
<1>6. w \in Works /\ Sound(w.free, w.tables, w.pte) /\ w.pte \in Maps(Nat) /\ w.free \in SUBSET Frames
  BY DEF SoundWork, Works
<1>7. w.pte \in [DOMAIN w.pte -> Frames] /\ DOMAIN w.pte \subseteq Nat
  BY <1>6 DEF Maps
<1>8. /\ DOMAIN e = DOMAIN w.pte \ w.done
      /\ \A q \in DOMAIN e : e[q] = w.pte[q]
      /\ e \in [DOMAIN e -> Frames]
  BY <1>1, <1>2, <1>7 DEF Restrict
<1>9. e \in Maps(Nat)
  BY <1>7, <1>8 DEF Maps
<1>10. given \subseteq Frames
  BY <1>1, <1>3, <1>7
<1>11. u \in Works /\ u.free = w.free \cup given /\ u.tables = w.tables /\ u.pte = e
  BY <1>4, <1>6, <1>9, <1>10 DEF Works
<1>12. \A x \in given : \E p \in DOMAIN w.pte \cap w.done : x = w.pte[p]
  BY <1>1, <1>3
<1>13. Sound(u.free, u.tables, u.pte)
  BY <1>6, <1>8, <1>11, <1>12 DEF Sound
<1>14. Range(w.pte) = given \cup Range(e)
  BY <1>1, <1>3, <1>8 DEF Range
<1>15. Held(u) = Held(w)
  BY <1>11, <1>14 DEF Held, Holds
<1>16. SoundWork(u)
  BY <1>11, <1>13 DEF SoundWork
<1> QED BY <1>5, <1>8, <1>11, <1>15, <1>16

\* Every page of the first map is in the second, with the same frame.
Keeps(old, new) == \A q \in DOMAIN old : q \in DOMAIN new /\ new[q] = old[q]

\* What mm_map_range promises its callers: the frames it leaves in use have one
\* use each, whether or not it fails; pages are kept unless one was replaced,
\* and a failure that replaced none leaves the pages as they were.
RangeResult(c, d, pages, vma) ==
    /\ SoundCall(d)
    /\ Pool(d) \subseteq Pool(c)
    /\ d.mm.heap = c.mm.heap /\ d.mm.slots = c.mm.slots /\ d.fault = c.fault
    /\ (c.starved => d.starved) /\ (c.remapped => d.remapped)
    /\ ~d.starved /\ ~d.remapped => Pool(c) \subseteq Pool(d)
    /\ ~d.remapped => Keeps(c.mm.pte, d.mm.pte)
    /\ ~d.ok /\ ~d.remapped => d.mm.pte = c.mm.pte
    /\ d.ok => /\ pages # {} /\ d.free \subseteq c.free
               /\ DOMAIN c.mm.pte \subseteq DOMAIN d.mm.pte
               /\ d.free # {} => pages \subseteq DOMAIN d.mm.pte
               /\ pages \cap DOMAIN c.mm.pte # {} => d.remapped
               /\ d.mm.vmas = Append(c.mm.vmas, vma)

\* An address space is not NoMM, so these are its frames.
LEMMA FramesOfSpace ==
    ASSUME NEW m \in Spaces
    PROVE  m # NoMM /\ FramesOf(m) = {m.pml4} \cup Range(m.tables) \cup Range(m.pte)
<1>1. m.pml4 \in Frames
  BY DEF Spaces
<1>2. 0 \notin Frames
  BY AddressSpaceAssumption DEF Frames, AddressSpaceAssumption
<1>3. NoMM.pml4 = 0
  BY DEF NoMM
<1> QED BY <1>1, <1>2, <1>3 DEF FramesOf

\* The values of such a function are frames.
LEMMA MapsRange ==
    ASSUME NEW D, NEW t \in Maps(D)
    PROVE  Range(t) \subseteq Frames
<1>1. t \in [DOMAIN t -> Frames]
  BY MapsMember
<1> QED BY <1>1 DEF Range

\* So are all frames of an address space.
LEMMA SpaceInFrames ==
    ASSUME NEW m \in Spaces
    PROVE  FramesOf(m) \subseteq Frames
<1>1. m.pml4 \in Frames /\ m.tables \in Maps(Nodes) /\ m.pte \in Maps(Nat)
  BY DEF Spaces
<1>2. Range(m.tables) \subseteq Frames
  BY <1>1, MapsRange
<1>3. Range(m.pte) \subseteq Frames
  <2>1. PICK D, t : D = Nat /\ t = m.pte
    OBVIOUS
  <2>2. Range(t) \subseteq Frames
    BY <1>1, <2>1, MapsRange
  <2> QED BY <2>1, <2>2
<1> QED BY <1>1, <1>2, <1>3, FramesOfSpace

\* The end of mm_map_range, with and without rollback.
LEMMA RangeMappedResult ==
    ASSUME NEW c, SoundCall(c), NEW first \in Nat, NEW end \in Nat, first < end, c.left # 0,
           NEW n \in Nat, n = end - first,
           NEW w, Mapped(c.free, c.mm, first, n, w), NEW vma \in VmaType,
           vma.start = first, vma.end = end, vma.live
    PROVE  RangeResult(c, RangeMapped(c, w, vma), first .. end - 1, vma)
<1>1. PICK u : u = IF w.failed THEN Rollback(w) ELSE w
  OBVIOUS
<1>2. PICK v : v = [vma EXCEPT !.live = ~w.failed]
  OBVIOUS
<1>3. PICK m : m = [c.mm EXCEPT !.tables = u.tables, !.pte = u.pte, !.vmas = Append(c.mm.vmas, v)]
  OBVIOUS
<1>4. PICK d : d = RangeMapped(c, w, vma)
  OBVIOUS
<1>5. d = [c EXCEPT !.left = @ - 1, !.ok = ~w.failed, !.free = u.free, !.mm = m,
                    !.starved = @ \/ w.starved,
                    !.remapped = @ \/ w.done \cap DOMAIN c.mm.pte # {}]
  BY <1>1, <1>2, <1>3, <1>4 DEF RangeMapped
<1>6. /\ SoundWork(w) /\ w.free \subseteq c.free
      /\ Held(w) \subseteq Holds(c.free, c.mm.tables, c.mm.pte)
      /\ w.done \subseteq first .. end - 1
      /\ ~w.failed => w.done = first .. end - 1
      /\ w.starved \/ w.failed => w.free = {}
      /\ DOMAIN c.mm.pte \subseteq DOMAIN w.pte
      /\ DOMAIN w.pte \subseteq DOMAIN c.mm.pte \cup w.done
      /\ \A q \in DOMAIN c.mm.pte \ w.done : w.pte[q] = c.mm.pte[q]
      /\ ~w.starved => w.done \subseteq DOMAIN w.pte
      /\ ~w.starved /\ w.done \cap DOMAIN c.mm.pte = {} =>
           Holds(c.free, c.mm.tables, c.mm.pte) \subseteq Held(w)
  <2>1. first + n - 1 = end - 1
    OBVIOUS
  <2> QED BY <2>1 DEF Mapped
<1>7. /\ c \in CallType /\ c.mm \in Spaces /\ Sound(c.free, c.mm.tables, c.mm.pte)
      /\ c.mm.pml4 \notin Holds(c.free, c.mm.tables, c.mm.pte)
      /\ Covered(c.mm) /\ c.left \in Nat
  BY DEF SoundCall, SoundSpace, CallType
<1>8. /\ SoundWork(u) /\ Held(u) = Held(w)
      /\ DOMAIN u.pte \subseteq DOMAIN w.pte
      /\ w.failed => DOMAIN u.pte = DOMAIN w.pte \ w.done
                     /\ \A q \in DOMAIN u.pte : u.pte[q] = w.pte[q]
      /\ ~w.failed => u = w
  <2>1. CASE w.failed
    BY <1>1, <1>6, <2>1, RolledBack
  <2>2. CASE ~w.failed
    BY <1>1, <1>6, <2>2
  <2> QED BY <2>1, <2>2
<1>9. u \in Works /\ w \in Works /\ Sound(u.free, u.tables, u.pte)
  BY <1>6, <1>8 DEF SoundWork
<1>10. /\ v \in VmaType /\ v.start = first /\ v.end = end
       /\ ~w.failed => v = vma
  BY <1>2, <1>9 DEF VmaType, Works
<1>11. /\ c.mm.vmas \in Seq(VmaType)
       /\ Append(c.mm.vmas, v) \in Seq(VmaType)
       /\ Len(Append(c.mm.vmas, v)) = Len(c.mm.vmas) + 1 /\ Len(c.mm.vmas) \in Nat
       /\ Append(c.mm.vmas, v)[Len(c.mm.vmas) + 1] = v
       /\ \A i \in 1 .. Len(c.mm.vmas) : Append(c.mm.vmas, v)[i] = c.mm.vmas[i]
       /\ DOMAIN c.mm.vmas = 1 .. Len(c.mm.vmas)
       /\ DOMAIN Append(c.mm.vmas, v) = 1 .. Len(c.mm.vmas) + 1
  <2>1. c.mm.vmas \in Seq(VmaType)
    BY <1>7 DEF Spaces
  <2> QED BY <1>10, <2>1
<1>12. u.free \in SUBSET Frames /\ u.tables \in Maps(Nodes) /\ u.pte \in Maps(Nat)
  BY <1>9 DEF Works
<1>13. /\ m \in Spaces /\ m.pml4 = c.mm.pml4 /\ m.tables = u.tables /\ m.pte = u.pte
       /\ m.vmas = Append(c.mm.vmas, v) /\ m.heap = c.mm.heap /\ m.slots = c.mm.slots
  BY <1>3, <1>7, <1>11, <1>12 DEF Spaces
<1>14. /\ d.mm = m /\ d.free = u.free /\ d.ok = ~w.failed /\ d.fault = c.fault
       /\ d.starved = (c.starved \/ w.starved)
       /\ d.remapped = (c.remapped \/ w.done \cap DOMAIN c.mm.pte # {})
       /\ d.left = c.left - 1
  BY <1>5, <1>7 DEF CallType
<1>15. d \in CallType
  <2>1. PICK left \in Nat : left = c.left - 1
    BY <1>7
  <2>2. PICK ok \in BOOLEAN : ok = ~w.failed
    BY Zenon
  <2>3. PICK starving \in BOOLEAN : starving = (c.starved \/ w.starved)
    BY Zenon
  <2>4. PICK replaced \in BOOLEAN : replaced = (c.remapped \/ w.done \cap DOMAIN c.mm.pte # {})
    BY Zenon
  <2>5. d = [c EXCEPT !.left = left, !.ok = ok, !.free = u.free, !.mm = m,
                      !.starved = starving, !.remapped = replaced]
    BY <1>5, <2>1, <2>2, <2>3, <2>4
  <2> QED BY <1>7, <1>12, <1>13, <2>5 DEF CallType
<1>16. SoundSpace(d.free, d.mm)
  <2>1. Holds(u.free, u.tables, u.pte) \subseteq Holds(c.free, c.mm.tables, c.mm.pte)
    BY <1>6, <1>8 DEF Held
  <2> QED BY <1>7, <1>9, <1>13, <1>14, <2>1 DEF SoundSpace
<1>17. Covered(d.mm)
  <2>1. SUFFICES ASSUME NEW q \in DOMAIN u.pte
                 PROVE  \E i \in DOMAIN m.vmas : q \in m.vmas[i].start .. m.vmas[i].end - 1
    BY <1>13, <1>14 DEF Covered
  <2>2. q \in DOMAIN c.mm.pte \/ q \in first .. end - 1
    BY <1>6, <1>8
  <2>3. CASE q \in DOMAIN c.mm.pte
    <3>1. PICK i \in DOMAIN c.mm.vmas : q \in c.mm.vmas[i].start .. c.mm.vmas[i].end - 1
      BY <1>7, <2>3 DEF Covered
    <3>2. i \in DOMAIN m.vmas /\ m.vmas[i] = c.mm.vmas[i]
      BY <1>11, <1>13
    <3> QED BY <3>1, <3>2
  <2>4. CASE q \in first .. end - 1
    <3>1. PICK i : i = Len(c.mm.vmas) + 1
      OBVIOUS
    <3>2. i \in DOMAIN m.vmas /\ m.vmas[i] = v
      BY <1>11, <1>13, <3>1
    <3> QED BY <1>10, <2>4, <3>2
  <2> QED BY <2>2, <2>3, <2>4
<1>18. SoundCall(d)
  BY <1>15, <1>16, <1>17 DEF SoundCall
<1>19. /\ Pool(c) = {c.mm.pml4} \cup Holds(c.free, c.mm.tables, c.mm.pte)
       /\ Pool(d) = {c.mm.pml4} \cup Held(u)
  BY <1>7, <1>13, <1>14, FramesOfSpace DEF Pool, Holds, Held
<1>20. Pool(d) \subseteq Pool(c)
  BY <1>6, <1>8, <1>19
<1>21. ~d.starved /\ ~d.remapped => Pool(c) \subseteq Pool(d)
  BY <1>6, <1>8, <1>14, <1>19
<1>22. ASSUME ~d.ok, ~d.remapped PROVE d.mm.pte = c.mm.pte
  <2>1. w.failed /\ w.done \cap DOMAIN c.mm.pte = {}
    BY <1>14, <1>22, <1>9 DEF Works
  <2>2. DOMAIN u.pte = DOMAIN c.mm.pte
    BY <1>6, <1>8, <2>1
  <2>3. \A q \in DOMAIN u.pte : u.pte[q] = c.mm.pte[q]
    BY <1>6, <1>8, <2>1, <2>2
  <2>4. c.mm.pte \in Maps(Nat)
    BY <1>7 DEF Spaces
  <2>5. u.pte \in [DOMAIN u.pte -> Frames] /\ c.mm.pte \in [DOMAIN c.mm.pte -> Frames]
    BY <1>12, <2>4 DEF Maps
  <2> QED BY <1>13, <1>14, <2>2, <2>3, <2>5
<1>23. ASSUME d.ok
       PROVE  /\ first .. end - 1 # {} /\ d.free \subseteq c.free
              /\ DOMAIN c.mm.pte \subseteq DOMAIN d.mm.pte
              /\ d.free # {} => first .. end - 1 \subseteq DOMAIN d.mm.pte
              /\ first .. end - 1 \cap DOMAIN c.mm.pte # {} => d.remapped
              /\ d.mm.vmas = Append(c.mm.vmas, vma)
  <2>1. ~w.failed /\ u = w /\ v = vma
    BY <1>8, <1>9, <1>10, <1>14, <1>23 DEF Works
  <2>2. first \in first .. end - 1
    OBVIOUS
  <2> QED BY <1>6, <1>13, <1>14, <2>1, <2>2
<1>24. ASSUME ~d.remapped PROVE Keeps(c.mm.pte, d.mm.pte)
  <2>1. w.done \cap DOMAIN c.mm.pte = {}
    BY <1>14, <1>24
  <2>2. \A q \in DOMAIN c.mm.pte : q \in DOMAIN w.pte \ w.done /\ w.pte[q] = c.mm.pte[q]
    BY <1>6, <2>1
  <2>3. \A q \in DOMAIN c.mm.pte : q \in DOMAIN u.pte /\ u.pte[q] = w.pte[q]
    <3>1. CASE w.failed
      BY <1>8, <2>2, <3>1
    <3>2. CASE ~w.failed
      BY <1>8, <2>2, <3>2
    <3> QED BY <3>1, <3>2
  <2> QED BY <1>13, <1>14, <2>2, <2>3 DEF Keeps
<1> QED BY <1>4, <1>13, <1>14, <1>18, <1>20, <1>21, <1>22, <1>23, <1>24 DEF RangeResult

\* mm_map_range keeps its promise for every range.
LEMMA MapRange ==
    ASSUME NEW c, SoundCall(c), NEW va \in Nat, NEW size \in Nat
    PROVE  RangeResult(c, mm_map_range(c, va, size), PageRange(va, size), Vma(va, size))
<1>1. c \in CallType /\ c.mm \in Spaces
  BY DEF SoundCall, SoundSpace
<1>2. CASE size = 0 \/ c.left = 0
  <2>1. PICK d : d = [c EXCEPT !.ok = FALSE]
    OBVIOUS
  <2>2. mm_map_range(c, va, size) = d
    BY <1>2, <2>1 DEF mm_map_range
  <2>3. /\ d \in CallType /\ d.mm = c.mm /\ d.free = c.free /\ ~d.ok /\ d.fault = c.fault
        /\ d.starved = c.starved /\ d.remapped = c.remapped
    BY <1>1, <2>1 DEF CallType
  <2>4. SoundCall(d) /\ Pool(d) = Pool(c)
    BY <2>3 DEF SoundCall, Pool
  <2> QED BY <2>2, <2>3, <2>4 DEF RangeResult, Keeps
<1>3. CASE size # 0 /\ c.left # 0
  <2>1. PICK first : first = FirstPage(va)
    OBVIOUS
  <2>2. PICK end : end = EndPage(va, size)
    OBVIOUS
  <2>3. first \in Nat /\ end \in Nat /\ first < end
    <3>1. /\ FirstPage(va) \in Nat /\ EndPage(va, size) \in Nat
          /\ FirstPage(va) < EndPage(va, size)
      BY <1>3, RangeEnds
    <3> QED BY <2>1, <2>2, <3>1
  <2>0. PICK n \in Nat : n = end - first
    BY <2>3
  <2>4. PICK as : as = c.mm
    OBVIOUS
  <2>5. PICK f : f = c.free
    OBVIOUS
  <2>6. PICK w : w = MapPages(f, as, first, n)
    OBVIOUS
  <2>7. /\ f \in SUBSET Frames /\ as.tables \in Maps(Nodes) /\ as.pte \in Maps(Nat)
        /\ Sound(f, as.tables, as.pte)
    BY <1>1, <2>4, <2>5 DEF SoundCall, SoundSpace, CallType, Spaces
  <2>8. Mapped(f, as, first, n, w)
    BY <2>3, <2>6, <2>7, MapPagesMapped
  <2>9. PICK vma : vma = Vma(va, size)
    OBVIOUS
  <2>10. vma \in VmaType /\ vma.start = first /\ vma.end = end /\ vma.live
    BY <2>1, <2>2, <2>3, <2>9 DEF Vma, VmaType
  <2>11. mm_map_range(c, va, size) = RangeMapped(c, w, vma)
    BY <1>3, <2>0, <2>1, <2>2, <2>4, <2>5, <2>6, <2>9 DEF mm_map_range
  <2>12. Mapped(c.free, c.mm, first, n, w)
    BY <2>4, <2>5, <2>8
  <2>13. RangeResult(c, RangeMapped(c, w, vma), first .. end - 1, vma)
    BY <1>3, <2>0, <2>3, <2>10, <2>12, RangeMappedResult
  <2>14. PageRange(va, size) = first .. end - 1
    BY <2>1, <2>2 DEF PageRange
  <2> QED BY <2>9, <2>11, <2>13, <2>14
<1>4. c.left \in Nat
  BY <1>1 DEF CallType
<1> QED BY <1>2, <1>3, <1>4

-----------------------------------------------------------------------------
(* mm_alloc, mm_free and mm_copy.                                          *)

\* mm_free gives back all frames of an address space.
LEMMA FreeAll ==
    ASSUME NEW f, NEW m
    PROVE  mm_free(f, m) = f \cup FramesOf(m)
BY DEF mm_free, FramesOf

\* The empty page table.
LEMMA EmptyMap == \A D : Empty \in Maps(D) /\ DOMAIN Empty = {}
<1>1. \A D : Empty \in [{} -> Frames] /\ {} \in SUBSET D /\ DOMAIN Empty = {}
  BY DEF Empty
<1> QED BY <1>1 DEF Maps

\* A new address space: its frames come from the free ones.
LEMMA Allocated ==
    ASSUME free \in SUBSET Frames, starved \in BOOLEAN, remapped \in BOOLEAN,
           KernelSlots \in SUBSET Nodes, NEW k \in Nat, NEW a, a = mm_alloc(Call(NoMM, k))
    PROVE  /\ a.starved = starved /\ a.remapped = remapped /\ ~a.fault
           /\ \/ ~a.ok /\ a.mm = NoMM /\ a.free = free
              \/ /\ a.ok /\ SoundCall(a) /\ Pool(a) = free /\ free # {}
                 /\ a.mm.slots = KernelSlots /\ a.mm.heap = 0 /\ DOMAIN a.mm.pte = {}
<1>1. PICK c : c = Call(NoMM, k)
  OBVIOUS
<1>2. c = [mm |-> NoMM, free |-> free, left |-> k, ok |-> TRUE,
           fault |-> FALSE, starved |-> starved, remapped |-> remapped]
  BY <1>1 DEF Call
<1>3. CASE k = 0 \/ free = {}
  <2>1. a = [c EXCEPT !.ok = FALSE]
    BY <1>1, <1>2, <1>3 DEF mm_alloc
  <2> QED BY <1>2, <2>1
<1>4. CASE k # 0 /\ free # {}
  <2>1. PICK f : f = Min(free)
    OBVIOUS
  <2>2. f \in free /\ f \in Frames
    <3>1. PICK s \in SUBSET Frames : s = free
      OBVIOUS
    <3>2. Min(s) \in s /\ Min(s) \in Frames
      BY <1>4, <3>1, MinFree
    <3> QED BY <2>1, <3>1, <3>2
  <2>3. PICK m : m = [pml4 |-> f, tables |-> Empty, pte |-> Empty,
                      vmas |-> <<>>, heap |-> 0, slots |-> KernelSlots]
    OBVIOUS
  <2>4. a = [c EXCEPT !.left = @ - 1, !.free = @ \ {f}, !.mm = m]
    BY <1>1, <1>2, <1>4, <2>1, <2>3 DEF mm_alloc
  <2>5. /\ a.mm = m /\ a.free = free \ {f} /\ a.left = k - 1 /\ a.ok /\ ~a.fault
        /\ a.starved = starved /\ a.remapped = remapped
    BY <1>2, <2>4
  <2>6. Empty \in Maps(Nodes) /\ Empty \in Maps(Nat) /\ DOMAIN Empty = {}
    BY EmptyMap
  <2>7. <<>> \in Seq(VmaType)
    OBVIOUS
  <2>8. m \in Spaces
    BY <2>2, <2>3, <2>6, <2>7 DEF Spaces
  <2>9. a \in CallType
    <3>1. PICK l \in Nat : l = k - 1
      BY <1>4
    <3>2. a = [mm |-> m, free |-> free \ {f}, left |-> l, ok |-> TRUE,
               fault |-> FALSE, starved |-> starved, remapped |-> remapped]
      BY <1>2, <2>4, <3>1
    <3> QED BY <2>8, <3>2 DEF CallType
  <2>10. Range(Empty) = {}
    BY <2>6 DEF Range
  <2>11. SoundSpace(a.free, a.mm)
    <3>1. m.tables = Empty /\ m.pte = Empty /\ m.pml4 = f
      BY <2>3
    <3>2. Sound(a.free, Empty, Empty)
      BY <2>6 DEF Sound
    <3>3. f \notin Holds(a.free, Empty, Empty)
      BY <2>5, <2>10 DEF Holds
    <3> QED BY <2>5, <2>8, <3>1, <3>2, <3>3 DEF SoundSpace
  <2>12. DOMAIN m.pte = {} /\ m.slots = KernelSlots /\ m.heap = 0
    BY <2>3, <2>6
  <2>13. Covered(m)
    BY <2>12 DEF Covered
  <2>14. SoundCall(a)
    BY <2>5, <2>9, <2>11, <2>13 DEF SoundCall
  <2>15. FramesOf(m) = {f}
    BY <2>3, <2>8, <2>10, FramesOfSpace
  <2>16. Pool(a) = free
    BY <2>2, <2>5, <2>15 DEF Pool
  <2> QED BY <1>4, <2>5, <2>12, <2>14, <2>16
<1> QED BY <1>3, <1>4

\* After copying the first k vmas of src, starting with call c.
Copying(c, src, k, d) ==
    /\ Pool(d) \subseteq Pool(c)
    /\ d \in CallType
    /\ (c.starved => d.starved) /\ (c.remapped => d.remapped)
    /\ ~d.starved /\ ~d.remapped => Pool(c) \subseteq Pool(d)
    /\ d.ok => /\ SoundCall(d) /\ d.mm.slots = c.mm.slots /\ d.mm.heap = c.mm.heap
               /\ d.free # {} =>
                    \A i \in 1 .. k : src.vmas[i].start .. src.vmas[i].end - 1 \subseteq DOMAIN d.mm.pte

\* One turn of mm_copy keeps its invariant.
LEMMA CopyTurn ==
    ASSUME NEW c, NEW src, src.vmas \in Seq(VmaType), NEW k \in 1 .. Len(src.vmas), NEW d,
           NEW j, j = k - 1, Copying(c, src, j, d)
    PROVE  Copying(c, src, k, CopyVma(d, src, src.vmas[k]))
<1>1. PICK v : v = src.vmas[k]
  OBVIOUS
<1>2. v \in VmaType
  BY <1>1
<1>3. /\ Pool(d) \subseteq Pool(c) /\ d \in CallType
      /\ (c.starved => d.starved) /\ (c.remapped => d.remapped)
      /\ ~d.starved /\ ~d.remapped => Pool(c) \subseteq Pool(d)
      /\ d.ok => /\ SoundCall(d) /\ d.mm.slots = c.mm.slots /\ d.mm.heap = c.mm.heap
                 /\ d.free # {} =>
                      \A i \in 1 .. j : src.vmas[i].start .. src.vmas[i].end - 1 \subseteq DOMAIN d.mm.pte
  BY DEF Copying
<1>4. CASE ~d.ok
  <2>1. CopyVma(d, src, v) = d
    BY <1>4 DEF CopyVma
  <2> QED BY <1>1, <1>3, <1>4, <2>1 DEF Copying
<1>5. CASE d.ok
  <2>1. PICK s, e : s = v.start /\ e = v.end
    OBVIOUS
  <2>2. s \in Nat /\ e \in Nat /\ s <= e
    BY <1>2, <2>1 DEF VmaType
  <2>3. PICK va, size : va = s * PAGE_SIZE /\ size = (e - s) * PAGE_SIZE
    OBVIOUS
  <2>4. va \in Nat /\ size \in Nat /\ PageRange(va, size) = s .. e - 1
    <3>1. /\ s * PAGE_SIZE \in Nat /\ (e - s) * PAGE_SIZE \in Nat
          /\ FirstPage(s * PAGE_SIZE) = s
          /\ EndPage(s * PAGE_SIZE, (e - s) * PAGE_SIZE) = e
      BY <2>2, RangeOfVma
    <3> QED BY <2>3, <3>1 DEF PageRange
  <2>5. PICK x : x = mm_map_range(d, va, size)
    OBVIOUS
  <2>6. RangeResult(d, x, PageRange(va, size), Vma(va, size))
    BY <1>3, <1>5, <2>4, <2>5, MapRange
  <2>7. CopyVma(d, src, v) = PagesCopied(x, src, v)
    BY <1>5, <2>1, <2>3, <2>5 DEF CopyVma
  <2>8. /\ SoundCall(x) /\ Pool(x) \subseteq Pool(d)
        /\ x.mm.heap = d.mm.heap /\ x.mm.slots = d.mm.slots
        /\ (d.starved => x.starved) /\ (d.remapped => x.remapped)
        /\ ~x.starved /\ ~x.remapped => Pool(d) \subseteq Pool(x)
        /\ x.ok => /\ x.free \subseteq d.free
                   /\ DOMAIN d.mm.pte \subseteq DOMAIN x.mm.pte
                   /\ x.free # {} => s .. e - 1 \subseteq DOMAIN x.mm.pte
    BY <2>4, <2>6 DEF RangeResult
  <2>9. x \in CallType
    BY <2>8 DEF SoundCall
  <2>10. PICK y : y = PagesCopied(x, src, v)
    OBVIOUS
  <2>11. CASE y = x /\ x.ok
    <3>1. ASSUME x.free # {}, NEW i \in 1 .. k
          PROVE  src.vmas[i].start .. src.vmas[i].end - 1 \subseteq DOMAIN x.mm.pte
      <4>1. CASE i = k
        BY <1>1, <2>1, <2>8, <2>11, <3>1, <4>1
      <4>2. CASE i # k
        <5>1. i \in 1 .. j
          BY <4>2
        <5>2. d.free # {}
          BY <2>8, <2>11, <3>1
        <5> QED BY <1>3, <1>5, <2>8, <2>11, <5>1, <5>2
      <4> QED BY <4>1, <4>2
    <3> QED BY <1>1, <1>3, <1>5, <2>7, <2>8, <2>9, <2>10, <2>11, <3>1 DEF Copying
  <2>12. CASE y = [x EXCEPT !.ok = FALSE, !.free = mm_free(@, x.mm)]
    <3>1. PICK f : f = x.free \cup FramesOf(x.mm)
      OBVIOUS
    <3>2. y = [x EXCEPT !.ok = FALSE, !.free = f]
      BY <2>12, <3>1, FreeAll
    <3>3. f \in SUBSET Frames
      <4>1. x.mm \in Spaces /\ x.free \in SUBSET Frames
        BY <2>9 DEF CallType
      <4> QED BY <3>1, <4>1, SpaceInFrames
    <3>4. /\ y \in CallType /\ ~y.ok /\ y.mm = x.mm /\ y.free = f
          /\ y.starved = x.starved /\ y.remapped = x.remapped
      BY <2>9, <3>2, <3>3 DEF CallType
    <3>5. Pool(y) = Pool(x)
      BY <3>1, <3>4 DEF Pool
    <3> QED BY <1>1, <1>3, <1>5, <2>7, <2>8, <2>10, <3>4, <3>5 DEF Copying
  <2>13. (y = x /\ x.ok) \/ y = [x EXCEPT !.ok = FALSE, !.free = mm_free(@, x.mm)]
    BY <2>10 DEF PagesCopied
  <2> QED BY <2>11, <2>12, <2>13
<1>6. d.ok \in BOOLEAN
  BY <1>3 DEF CallType
<1> QED BY <1>4, <1>5, <1>6

\* What the recursive function in mm_copy satisfies.
IsCopying(g, n, start, src) ==
    g = [k \in 0 .. n |-> IF k = 0 THEN start ELSE CopyVma(g[k - 1], src, src.vmas[k])]

\* The recursive function in mm_copy exists.
LEMMA CopyingExists ==
    ASSUME NEW n \in Nat, NEW start, NEW src
    PROVE  \E g : IsCopying(g, n, start, src)
<1> DEFINE Bad == {m \in Nat : ~\E g : IsCopying(g, m, start, src)}
<1>1. SUFFICES ASSUME Bad # {} PROVE FALSE
  OBVIOUS
<1>2. PICK m \in Bad : \A l \in Bad : m <= l
  <2>1. Bad \subseteq Nat
    OBVIOUS
  <2> HIDE DEF Bad
  <2> QED BY <1>1, <2>1, LeastNatural
<1>3. m \in Nat /\ ~\E g : IsCopying(g, m, start, src)
  OBVIOUS
<1>4. CASE m = 0
  <2> DEFINE g == [k \in 0 .. 0 |-> start]
  <2>1. g = [k \in 0 .. 0 |-> IF k = 0 THEN start ELSE CopyVma(g[k - 1], src, src.vmas[k])]
    OBVIOUS
  <2>2. IsCopying(g, 0, start, src)
    BY <2>1 DEF IsCopying
  <2> QED BY <1>3, <1>4, <2>2
<1>5. CASE m # 0
  <2>1. m - 1 \in Nat /\ ~(m <= m - 1)
    BY <1>3, <1>5
  <2>2. m - 1 \notin Bad
    <3> HIDE DEF Bad
    <3> QED BY <1>2, <2>1
  <2>3. PICK h : IsCopying(h, m - 1, start, src)
    BY <2>1, <2>2
  <2> DEFINE g == [k \in 0 .. m |-> IF k = m THEN CopyVma(h[m - 1], src, src.vmas[m]) ELSE h[k]]
  <2>4. \A k \in 0 .. m - 1 : h[k] = IF k = 0 THEN start ELSE CopyVma(h[k - 1], src, src.vmas[k])
    BY <2>3 DEF IsCopying
  <2>5. \A k \in 0 .. m : g[k] = IF k = m THEN CopyVma(h[m - 1], src, src.vmas[m]) ELSE h[k]
    OBVIOUS
  <2>6. ASSUME NEW k \in 0 .. m
        PROVE  g[k] = IF k = 0 THEN start ELSE CopyVma(g[k - 1], src, src.vmas[k])
    <3> HIDE DEF g
    <3>1. CASE k = 0
      <4>1. k \in 0 .. m - 1 /\ k # m
        BY <2>1, <1>3, <1>5, <3>1
      <4> QED BY <2>4, <2>5, <3>1, <4>1
    <3>2. CASE k # 0
      <4>1. k - 1 \in 0 .. m /\ k - 1 # m /\ (k # m => k \in 0 .. m - 1)
        BY <1>3, <3>2
      <4>2. g[k - 1] = h[k - 1]
        BY <2>5, <4>1
      <4> QED BY <2>4, <2>5, <3>2, <4>1, <4>2
    <3> QED BY <3>1, <3>2
  <2>7. g = [k \in 0 .. m |-> IF k = 0 THEN start ELSE CopyVma(g[k - 1], src, src.vmas[k])]
    <3>1. g = [k \in 0 .. m |-> g[k]]
      OBVIOUS
    <3> HIDE DEF g
    <3> QED BY <2>6, <3>1
  <2>8. IsCopying(g, m, start, src)
    <3> HIDE DEF g
    <3> QED BY <2>7 DEF IsCopying
  <2> QED BY <1>3, <2>8
<1> QED BY <1>4, <1>5


\* What mm_copy does with a new address space.
LEMMA CopyAll ==
    ASSUME NEW c, SoundCall(c), NEW src, src.vmas \in Seq(VmaType)
    PROVE  Copying(c, src, Len(src.vmas), mm_copy(c, src))
<1> DEFINE n == Len(src.vmas)
           copy == CHOOSE copy : copy = [k \in 0 .. Len(src.vmas) |->
                     IF k = 0 THEN c ELSE CopyVma(copy[k - 1], src, src.vmas[k])]
<1>1. n \in Nat
  OBVIOUS
<1>2. \E g : g = [k \in 0 .. n |-> IF k = 0 THEN c ELSE CopyVma(g[k - 1], src, src.vmas[k])]
  <2> HIDE DEF n
  <2>1. \E g : IsCopying(g, n, c, src)
    BY <1>1, CopyingExists
  <2> QED BY <2>1 DEF IsCopying
<1>3. copy = [k \in 0 .. n |-> IF k = 0 THEN c ELSE CopyVma(copy[k - 1], src, src.vmas[k])]
  BY <1>2
<1>4. mm_copy(c, src) = copy[n]
  BY DEF mm_copy
<1> HIDE DEF copy
<1>5. PICK g : g = copy
  OBVIOUS
<1>6. \A k \in 0 .. n : g[k] = IF k = 0 THEN c ELSE CopyVma(g[k - 1], src, src.vmas[k])
  BY <1>3, <1>5
<1>7. Copying(c, src, 0, c)
  BY DEF Copying, SoundCall
<1> DEFINE Bad == {k \in 0 .. n : ~Copying(c, src, k, g[k])}
<1>8. SUFFICES ASSUME Bad # {} PROVE FALSE
  <2>1. n \in 0 .. n
    BY <1>1
  <2> QED BY <1>4, <1>5, <2>1
<1>9. PICK k \in Bad : \A l \in Bad : k <= l
  <2>1. Bad \subseteq Nat
    <3>1. Bad \subseteq 0 .. n
      BY Zenon
    <3> HIDE DEF Bad, n
    <3> QED BY <1>1, <3>1
  <2> HIDE DEF Bad
  <2> QED BY <1>8, <2>1, LeastNatural
<1>10. k \in 0 .. n /\ ~Copying(c, src, k, g[k])
  OBVIOUS
<1>11. k # 0
  BY <1>6, <1>7, <1>10
<1>12. PICK j : j = k - 1
  OBVIOUS
<1>13. j \in 0 .. n /\ ~(k <= j) /\ k \in 1 .. n
  BY <1>1, <1>10, <1>11, <1>12
<1>14. j \notin Bad
  <2> HIDE DEF Bad
  <2> QED BY <1>9, <1>13
<1>15. PICK d : d = g[j]
  OBVIOUS
<1>16. Copying(c, src, j, d)
  BY <1>13, <1>14, <1>15
<1>17. Copying(c, src, k, CopyVma(d, src, src.vmas[k]))
  <2> HIDE DEF Bad
  <2> QED BY <1>12, <1>13, <1>16, CopyTurn
<1> QED BY <1>6, <1>10, <1>11, <1>12, <1>15, <1>17

-----------------------------------------------------------------------------
(* load_elf.                                                               *)

\* One segment, mapped and cleared.
LEMMA LoadOne ==
    ASSUME NEW c, SoundCall(c), c.ok, ~c.fault, NEW seg \in [va : Nat, size : Nat]
    PROVE  LET d == LoadSegment(c, seg)
           IN  /\ SoundCall(d) /\ Pool(d) \subseteq Pool(c)
               /\ d.mm.heap = c.mm.heap /\ d.mm.slots = c.mm.slots
               /\ (c.starved => d.starved) /\ (c.remapped => d.remapped)
               /\ ~d.starved /\ ~d.remapped => Pool(c) \subseteq Pool(d)
               /\ ~d.remapped => Keeps(c.mm.pte, d.mm.pte)
<1>1. PICK va, size : va = seg.va /\ size = seg.size
  OBVIOUS
<1>2. va \in Nat /\ size \in Nat
  BY <1>1
<1>3. PICK x : x = mm_map_range(c, va, size)
  OBVIOUS
<1>4. PICK pages : pages = PageRange(va, size)
  OBVIOUS
<1>5. RangeResult(c, x, pages, Vma(va, size))
  BY <1>2, <1>3, <1>4, MapRange
<1>6. PICK fault \in BOOLEAN : fault = (x.ok /\ ~(pages \subseteq DOMAIN x.mm.pte))
  BY Zenon
<1>7. PICK d : d = [x EXCEPT !.fault = fault]
  OBVIOUS
<1>8. LoadSegment(c, seg) = d
  BY <1>1, <1>3, <1>4, <1>6, <1>7 DEF LoadSegment, Cleared
<1>9. SoundCall(x)
  BY <1>5 DEF RangeResult
<1>10. /\ d \in CallType /\ d.mm = x.mm /\ d.free = x.free /\ d.ok = x.ok /\ d.fault = fault
       /\ d.starved = x.starved /\ d.remapped = x.remapped
  BY <1>7, <1>9 DEF SoundCall, CallType
<1>11. SoundCall(d) /\ Pool(d) = Pool(x)
  BY <1>9, <1>10 DEF SoundCall, Pool
<1> QED BY <1>5, <1>8, <1>10, <1>11 DEF RangeResult

\* While segments are loaded, starting with call c: pages are only added,
\* unless one was replaced, however the loading ends.
Loading(c, d) ==
    /\ SoundCall(d) /\ Pool(d) \subseteq Pool(c)
    /\ d.mm.heap = c.mm.heap /\ d.mm.slots = c.mm.slots
    /\ (c.starved => d.starved) /\ (c.remapped => d.remapped)
    /\ ~d.starved /\ ~d.remapped => Pool(c) \subseteq Pool(d)
    /\ ~d.remapped => Keeps(c.mm.pte, d.mm.pte)

\* One turn of load_elf keeps its invariant.
LEMMA LoadTurn ==
    ASSUME NEW c, NEW d, Loading(c, d), NEW seg \in [va : Nat, size : Nat]
    PROVE  Loading(c, LoadSegment(d, seg))
<1>1. /\ SoundCall(d) /\ Pool(d) \subseteq Pool(c)
      /\ d.mm.heap = c.mm.heap /\ d.mm.slots = c.mm.slots
      /\ (c.starved => d.starved) /\ (c.remapped => d.remapped)
      /\ ~d.starved /\ ~d.remapped => Pool(c) \subseteq Pool(d)
      /\ ~d.remapped => Keeps(c.mm.pte, d.mm.pte)
  BY DEF Loading
<1>2. CASE ~d.ok \/ d.fault
  <2>1. LoadSegment(d, seg) = d
    BY <1>2 DEF LoadSegment
  <2> QED BY <2>1
<1>3. CASE d.ok /\ ~d.fault
  <2>1. PICK x : x = LoadSegment(d, seg)
    OBVIOUS
  <2>2. /\ SoundCall(x) /\ Pool(x) \subseteq Pool(d)
        /\ x.mm.heap = d.mm.heap /\ x.mm.slots = d.mm.slots
        /\ (d.starved => x.starved) /\ (d.remapped => x.remapped)
        /\ ~x.starved /\ ~x.remapped => Pool(d) \subseteq Pool(x)
        /\ ~x.remapped => Keeps(d.mm.pte, x.mm.pte)
    BY <1>1, <1>3, <2>1, LoadOne
  <2>3. ~x.remapped => Keeps(c.mm.pte, x.mm.pte)
    BY <1>1, <2>2 DEF Keeps
  <2> QED BY <1>1, <2>1, <2>2, <2>3 DEF Loading
<1> QED BY <1>2, <1>3

\* What the recursive function in LoadSegments satisfies.
IsLoading(g, n, start, segs) ==
    g = [k \in 0 .. n |-> IF k = 0 THEN start ELSE LoadSegment(g[k - 1], segs[k])]

\* The recursive function in LoadSegments exists.
LEMMA LoadingExists ==
    ASSUME NEW n \in Nat, NEW start, NEW segs
    PROVE  \E g : IsLoading(g, n, start, segs)
<1> DEFINE Bad == {m \in Nat : ~\E g : IsLoading(g, m, start, segs)}
<1>1. SUFFICES ASSUME Bad # {} PROVE FALSE
  OBVIOUS
<1>2. PICK m \in Bad : \A l \in Bad : m <= l
  <2>1. Bad \subseteq Nat
    OBVIOUS
  <2> HIDE DEF Bad
  <2> QED BY <1>1, <2>1, LeastNatural
<1>3. m \in Nat /\ ~\E g : IsLoading(g, m, start, segs)
  OBVIOUS
<1>4. CASE m = 0
  <2> DEFINE g == [k \in 0 .. 0 |-> start]
  <2>1. g = [k \in 0 .. 0 |-> IF k = 0 THEN start ELSE LoadSegment(g[k - 1], segs[k])]
    OBVIOUS
  <2>2. IsLoading(g, 0, start, segs)
    BY <2>1 DEF IsLoading
  <2> QED BY <1>3, <1>4, <2>2
<1>5. CASE m # 0
  <2>1. m - 1 \in Nat /\ ~(m <= m - 1)
    BY <1>3, <1>5
  <2>2. m - 1 \notin Bad
    <3> HIDE DEF Bad
    <3> QED BY <1>2, <2>1
  <2>3. PICK h : IsLoading(h, m - 1, start, segs)
    BY <2>1, <2>2
  <2> DEFINE g == [k \in 0 .. m |-> IF k = m THEN LoadSegment(h[m - 1], segs[m]) ELSE h[k]]
  <2>4. \A k \in 0 .. m - 1 : h[k] = IF k = 0 THEN start ELSE LoadSegment(h[k - 1], segs[k])
    BY <2>3 DEF IsLoading
  <2>5. \A k \in 0 .. m : g[k] = IF k = m THEN LoadSegment(h[m - 1], segs[m]) ELSE h[k]
    OBVIOUS
  <2>6. ASSUME NEW k \in 0 .. m
        PROVE  g[k] = IF k = 0 THEN start ELSE LoadSegment(g[k - 1], segs[k])
    <3> HIDE DEF g
    <3>1. CASE k = 0
      <4>1. k \in 0 .. m - 1 /\ k # m
        BY <2>1, <1>3, <1>5, <3>1
      <4> QED BY <2>4, <2>5, <3>1, <4>1
    <3>2. CASE k # 0
      <4>1. k - 1 \in 0 .. m /\ k - 1 # m /\ (k # m => k \in 0 .. m - 1)
        BY <1>3, <3>2
      <4>2. g[k - 1] = h[k - 1]
        BY <2>5, <4>1
      <4> QED BY <2>4, <2>5, <3>2, <4>1, <4>2
    <3> QED BY <3>1, <3>2
  <2>7. g = [k \in 0 .. m |-> IF k = 0 THEN start ELSE LoadSegment(g[k - 1], segs[k])]
    <3>1. g = [k \in 0 .. m |-> g[k]]
      OBVIOUS
    <3> HIDE DEF g
    <3> QED BY <2>6, <3>1
  <2>8. IsLoading(g, m, start, segs)
    <3> HIDE DEF g
    <3> QED BY <2>7 DEF IsLoading
  <2> QED BY <1>3, <2>8
<1> QED BY <1>4, <1>5


\* What the loop of load_elf does with an address space.
LEMMA LoadLoop ==
    ASSUME NEW c, SoundCall(c), NEW segs \in Seq([va : Nat, size : Nat])
    PROVE  Loading(c, LoadSegments(c, segs))
<1> DEFINE n == Len(segs)
           load == CHOOSE load : load = [k \in 0 .. Len(segs) |->
                     IF k = 0 THEN c ELSE LoadSegment(load[k - 1], segs[k])]
<1>1. n \in Nat
  OBVIOUS
<1>2. \E g : g = [k \in 0 .. n |-> IF k = 0 THEN c ELSE LoadSegment(g[k - 1], segs[k])]
  <2> HIDE DEF n
  <2>1. \E g : IsLoading(g, n, c, segs)
    BY <1>1, LoadingExists
  <2> QED BY <2>1 DEF IsLoading
<1>3. load = [k \in 0 .. n |-> IF k = 0 THEN c ELSE LoadSegment(load[k - 1], segs[k])]
  BY <1>2
<1>4. LoadSegments(c, segs) = load[n]
  BY DEF LoadSegments
<1> HIDE DEF load
<1>5. PICK g : g = load
  OBVIOUS
<1>6. \A k \in 0 .. n : g[k] = IF k = 0 THEN c ELSE LoadSegment(g[k - 1], segs[k])
  BY <1>3, <1>5
<1>7. Loading(c, c)
  BY DEF Loading, Keeps
<1> DEFINE Bad == {k \in 0 .. n : ~Loading(c, g[k])}
<1>8. SUFFICES ASSUME Bad # {} PROVE FALSE
  <2>1. n \in 0 .. n
    BY <1>1
  <2> QED BY <1>4, <1>5, <2>1
<1>9. PICK k \in Bad : \A l \in Bad : k <= l
  <2>1. Bad \subseteq Nat
    <3>1. Bad \subseteq 0 .. n
      BY Zenon
    <3> HIDE DEF Bad, n
    <3> QED BY <1>1, <3>1
  <2> HIDE DEF Bad
  <2> QED BY <1>8, <2>1, LeastNatural
<1>10. k \in 0 .. n /\ ~Loading(c, g[k])
  OBVIOUS
<1>11. k # 0
  BY <1>6, <1>7, <1>10
<1>12. PICK j : j = k - 1
  OBVIOUS
<1>13. j \in 0 .. n /\ ~(k <= j) /\ k \in 1 .. n
  BY <1>1, <1>10, <1>11, <1>12
<1>14. j \notin Bad
  <2> HIDE DEF Bad
  <2> QED BY <1>9, <1>13
<1>15. PICK d : d = g[j]
  OBVIOUS
<1>16. Loading(c, d)
  BY <1>13, <1>14, <1>15
<1>17. Loading(c, LoadSegment(d, segs[k]))
  <2>1. PICK seg : seg = segs[k]
    OBVIOUS
  <2>2. seg \in [va : Nat, size : Nat]
    <3>1. PICK T : T = [va : Nat, size : Nat]
      OBVIOUS
    <3>2. segs \in Seq(T) /\ k \in 1 .. Len(segs)
      BY <1>13, <3>1
    <3>3. segs[k] \in T
      BY ONLY <3>2
    <3> QED BY <2>1, <3>1, <3>3
  <2> HIDE DEF Bad
  <2>3. Loading(c, LoadSegment(d, seg))
    BY <1>16, <2>2, LoadTurn
  <2> QED BY <2>1, <2>3
<1> QED BY <1>6, <1>10, <1>11, <1>12, <1>15, <1>17

\* load_elf only adds an answer.
LEMMA LoadAll ==
    ASSUME NEW c, SoundCall(c), NEW prog \in Programs
    PROVE  Loading(c, load_elf(c, prog))
<1>1. PICK segs : segs = prog.segs
  OBVIOUS
<1>2. segs \in Seq([va : Nat, size : Nat])
  <2>1. PICK S : S = Seq([va : Nat, size : Nat])
    OBVIOUS
  <2>2. Programs \subseteq [segs : S, entry : Nat]
    BY <2>1, AddressSpaceAssumption DEF AddressSpaceAssumption
  <2>3. prog.segs \in S
    BY <2>2
  <2> QED BY <1>1, <2>1, <2>3
<1>3. PICK d : d = LoadSegments(c, segs)
  OBVIOUS
<1>4. Loading(c, d)
  BY <1>2, <1>3, LoadLoop
<1>5. PICK ok \in BOOLEAN : ok = (d.ok /\ prog.entry # 0)
  BY Zenon
<1>6. PICK x : x = [d EXCEPT !.ok = ok]
  OBVIOUS
<1>7. load_elf(c, prog) = x
  BY <1>1, <1>3, <1>5, <1>6 DEF load_elf
<1>8. SoundCall(d)
  BY <1>4 DEF Loading
<1>9. /\ x \in CallType /\ x.mm = d.mm /\ x.free = d.free
      /\ x.starved = d.starved /\ x.remapped = d.remapped
  BY <1>6, <1>8 DEF SoundCall, CallType
<1>10. SoundCall(x) /\ Pool(x) = Pool(d)
  BY <1>8, <1>9 DEF SoundCall, Pool
<1> QED BY <1>4, <1>7, <1>9, <1>10 DEF Loading

-----------------------------------------------------------------------------
(* All address spaces and the kernel together.                             *)

MMs == [Procs -> Spaces \cup {NoMM}]

KernelType == [tables : Maps(Nodes), pte : Maps(Nat)]

KernelFrames(k) == Range(k.tables) \cup Range(k.pte)

\* Every frame that is free or in use.
Total(f, m, k) == f \cup KernelFrames(k) \cup (UNION {FramesOf(m[p]) : p \in Procs})

\* Free frames f, address spaces m and kernel k share nothing.
Apart(f, m, k) ==
    /\ Sound(f, k.tables, k.pte)
    /\ \A p \in Procs : m[p] # NoMM => SoundSpace(f, m[p]) /\ Covered(m[p])
    /\ \A p \in Procs : FramesOf(m[p]) \cap KernelFrames(k) = {}
    /\ \A p, q \in Procs : p # q => FramesOf(m[p]) \cap FramesOf(m[q]) = {}

\* A sound address space shares nothing with the free frames, and is sound
\* against any others it shares nothing with.
LEMMA SpaceApart ==
    ASSUME NEW f, NEW m, SoundSpace(f, m)
    PROVE  /\ FramesOf(m) \cap f = {}
           /\ \A g : FramesOf(m) \cap g = {} => SoundSpace(g, m)
<1>1. /\ m \in Spaces /\ Sound(f, m.tables, m.pte)
      /\ m.pml4 \notin Holds(f, m.tables, m.pte)
  BY DEF SoundSpace
<1>2. FramesOf(m) = {m.pml4} \cup Range(m.tables) \cup Range(m.pte)
  BY <1>1, FramesOfSpace
<1>3. FramesOf(m) \cap f = {}
  BY <1>1, <1>2 DEF Sound, Holds, Range
<1>4. ASSUME NEW g, FramesOf(m) \cap g = {} PROVE SoundSpace(g, m)
  <2>1. /\ \A a \in DOMAIN m.tables : m.tables[a] \notin g
        /\ \A a \in DOMAIN m.pte : m.pte[a] \notin g
        /\ m.pml4 \notin g
    BY <1>2, <1>4 DEF Range
  <2>2. Sound(g, m.tables, m.pte)
    BY <1>1, <2>1 DEF Sound
  <2>3. m.pml4 \notin Holds(g, m.tables, m.pte)
    BY <1>1, <2>1 DEF Holds
  <2> QED BY <1>1, <2>2, <2>3 DEF SoundSpace
<1> QED BY <1>3, <1>4

\* The same for the kernel.
LEMMA KernelApart ==
    ASSUME NEW f, NEW k, Sound(f, k.tables, k.pte)
    PROVE  /\ KernelFrames(k) \cap f = {}
           /\ \A g : KernelFrames(k) \cap g = {} => Sound(g, k.tables, k.pte)
<1>1. KernelFrames(k) \cap f = {}
  BY DEF Sound, KernelFrames, Range
<1>2. ASSUME NEW g, KernelFrames(k) \cap g = {} PROVE Sound(g, k.tables, k.pte)
  <2>1. /\ \A a \in DOMAIN k.tables : k.tables[a] \notin g
        /\ \A a \in DOMAIN k.pte : k.pte[a] \notin g
    BY <1>2 DEF Range, KernelFrames
  <2> QED BY <2>1 DEF Sound
<1> QED BY <1>1, <1>2

\* No frames of a process are free.
LEMMA ProcApart ==
    ASSUME NEW f, NEW m, NEW k, Apart(f, m, k), NEW p \in Procs
    PROVE  FramesOf(m[p]) \cap f = {}
<1>1. CASE m[p] = NoMM
  BY <1>1 DEF FramesOf
<1>2. CASE m[p] # NoMM
  BY <1>2, SpaceApart DEF Apart
<1> QED BY <1>1, <1>2

\* A process exchanges frames with the free ones only.
LEMMA ApartProc ==
    ASSUME NEW f, NEW m \in MMs, NEW k, Apart(f, m, k), NEW p \in Procs,
           NEW g, NEW s, SoundSpace(g, s), Covered(s),
           g \cup FramesOf(s) \subseteq f \cup FramesOf(m[p])
    PROVE  Apart(g, [m EXCEPT ![p] = s], k)
<1>1. PICK n : n = [m EXCEPT ![p] = s]
  OBVIOUS
<1>2. n[p] = s /\ \A q \in Procs : q # p => n[q] = m[q]
  BY <1>1 DEF MMs
<1>3. /\ Sound(f, k.tables, k.pte)
      /\ \A q \in Procs : m[q] # NoMM => SoundSpace(f, m[q]) /\ Covered(m[q])
      /\ \A q \in Procs : FramesOf(m[q]) \cap KernelFrames(k) = {}
      /\ \A q, r \in Procs : q # r => FramesOf(m[q]) \cap FramesOf(m[r]) = {}
  BY DEF Apart
<1>4. KernelFrames(k) \cap f = {}
  BY <1>3, KernelApart
<1>5. KernelFrames(k) \cap (g \cup FramesOf(s)) = {}
  BY <1>3, <1>4
<1>6. Sound(g, k.tables, k.pte)
  BY <1>3, <1>5, KernelApart
<1>7. \A q \in Procs : q # p => FramesOf(m[q]) \cap (g \cup FramesOf(s)) = {}
  <2>1. \A q \in Procs : FramesOf(m[q]) \cap f = {}
    BY ProcApart
  <2> QED BY <1>3, <2>1
<1>8. ASSUME NEW q \in Procs, n[q] # NoMM PROVE SoundSpace(g, n[q]) /\ Covered(n[q])
  <2>1. CASE q = p
    BY <1>2, <2>1
  <2>2. CASE q # p
    <3>1. SoundSpace(f, m[q]) /\ Covered(m[q]) /\ FramesOf(m[q]) \cap g = {} /\ n[q] = m[q]
      BY <1>2, <1>3, <1>7, <1>8, <2>2
    <3> QED BY <3>1, SpaceApart
  <2> QED BY <2>1, <2>2
<1>9. \A q \in Procs : FramesOf(n[q]) \cap KernelFrames(k) = {}
  BY <1>2, <1>3, <1>5
<1>10. ASSUME NEW q \in Procs, NEW r \in Procs, q # r
       PROVE  FramesOf(n[q]) \cap FramesOf(n[r]) = {}
  <2>1. CASE q = p
    BY <1>2, <1>7, <1>10, <2>1
  <2>2. CASE r = p
    BY <1>2, <1>7, <1>10, <2>2
  <2>3. CASE q # p /\ r # p
    BY <1>2, <1>3, <1>10, <2>3
  <2> QED BY <2>1, <2>2, <2>3
<1>11. Apart(g, n, k)
  BY <1>6, <1>8, <1>9, <1>10 DEF Apart
<1> QED BY <1>1, <1>11

\* A process gives all its frames back.
LEMMA ApartFree ==
    ASSUME NEW f, NEW m \in MMs, NEW k, Apart(f, m, k), NEW p \in Procs,
           NEW n \in MMs, n[p] = NoMM, \A q \in Procs : q # p => n[q] = m[q]
    PROVE  Apart(f \cup FramesOf(m[p]), n, k)
<1>1. PICK g : g = f \cup FramesOf(m[p])
  OBVIOUS
<1>3. /\ Sound(f, k.tables, k.pte)
      /\ \A q \in Procs : m[q] # NoMM => SoundSpace(f, m[q]) /\ Covered(m[q])
      /\ \A q \in Procs : FramesOf(m[q]) \cap KernelFrames(k) = {}
      /\ \A q, r \in Procs : q # r => FramesOf(m[q]) \cap FramesOf(m[r]) = {}
  BY DEF Apart
<1>4. KernelFrames(k) \cap f = {}
  BY <1>3, KernelApart
<1>5. KernelFrames(k) \cap g = {}
  BY <1>1, <1>3, <1>4
<1>6. Sound(g, k.tables, k.pte)
  BY <1>3, <1>5, KernelApart
<1>7. \A q \in Procs : q # p => FramesOf(m[q]) \cap g = {}
  <2>1. \A q \in Procs : FramesOf(m[q]) \cap f = {}
    BY ProcApart
  <2> QED BY <1>1, <1>3, <2>1
<1>8. ASSUME NEW q \in Procs, n[q] # NoMM PROVE SoundSpace(g, n[q]) /\ Covered(n[q])
  <2>1. q # p /\ n[q] = m[q]
    BY <1>8
  <2>2. SoundSpace(f, m[q]) /\ Covered(m[q]) /\ FramesOf(m[q]) \cap g = {}
    BY <1>3, <1>7, <1>8, <2>1
  <2> QED BY <2>1, <2>2, SpaceApart
<1>9. FramesOf(n[p]) = {}
  BY DEF FramesOf
<1>10. \A q \in Procs : FramesOf(n[q]) \cap KernelFrames(k) = {}
  BY <1>3, <1>9
<1>11. \A q, r \in Procs : q # r => FramesOf(n[q]) \cap FramesOf(n[r]) = {}
  BY <1>3, <1>9
<1>12. Apart(g, n, k)
  BY <1>6, <1>8, <1>10, <1>11 DEF Apart
<1> QED BY <1>1, <1>12

\* Fewer frames may be free.
LEMMA ApartLess ==
    ASSUME NEW f, NEW m, NEW k, Apart(f, m, k), NEW g, g \subseteq f
    PROVE  Apart(g, m, k)
<1>1. /\ Sound(f, k.tables, k.pte)
      /\ \A q \in Procs : m[q] # NoMM => SoundSpace(f, m[q]) /\ Covered(m[q])
  BY DEF Apart
<1>2. Sound(g, k.tables, k.pte)
  BY <1>1 DEF Sound
<1>3. ASSUME NEW q \in Procs, m[q] # NoMM PROVE SoundSpace(g, m[q])
  <2>1. FramesOf(m[q]) \cap g = {}
    BY ProcApart
  <2> QED BY <1>1, <1>3, <2>1, SpaceApart
<1> QED BY <1>1, <1>2, <1>3 DEF Apart

\* The kernel exchanges frames with the free ones only.
LEMMA ApartKernel ==
    ASSUME NEW f, NEW m, NEW k, Apart(f, m, k), NEW g, NEW l, Sound(g, l.tables, l.pte),
           g \cup KernelFrames(l) \subseteq f \cup KernelFrames(k)
    PROVE  Apart(g, m, l)
<1>1. /\ \A q \in Procs : m[q] # NoMM => SoundSpace(f, m[q]) /\ Covered(m[q])
      /\ \A q \in Procs : FramesOf(m[q]) \cap KernelFrames(k) = {}
      /\ \A q, r \in Procs : q # r => FramesOf(m[q]) \cap FramesOf(m[r]) = {}
  BY DEF Apart
<1>2. \A q \in Procs : FramesOf(m[q]) \cap (g \cup KernelFrames(l)) = {}
  <2>1. \A q \in Procs : FramesOf(m[q]) \cap f = {}
    BY ProcApart
  <2> QED BY <1>1, <2>1
<1>3. ASSUME NEW q \in Procs, m[q] # NoMM PROVE SoundSpace(g, m[q])
  <2>1. FramesOf(m[q]) \cap g = {}
    BY <1>2
  <2> QED BY <1>1, <1>3, <2>1, SpaceApart
<1>4. \A q \in Procs : FramesOf(m[q]) \cap KernelFrames(l) = {}
  BY <1>2
<1> QED BY <1>1, <1>3, <1>4 DEF Apart

\* Process p exchanged frames with the free ones; the others are as before.
Exchanges(f, m, g, n, p) ==
    /\ \A q \in Procs : q # p => n[q] = m[q]
    /\ g \cup FramesOf(n[p]) = f \cup FramesOf(m[p])

\* Then all frames together are as before.
LEMMA TotalProc ==
    ASSUME NEW f, NEW m, NEW g, NEW n, NEW p \in Procs, Exchanges(f, m, g, n, p), NEW k
    PROVE  Total(g, n, k) = Total(f, m, k)
<1>1. /\ \A q \in Procs : q # p => n[q] = m[q]
      /\ g \cup FramesOf(n[p]) = f \cup FramesOf(m[p])
  BY DEF Exchanges
<1>3. Total(g, n, k) \subseteq Total(f, m, k)
  <2>1. SUFFICES ASSUME NEW x \in Total(g, n, k) PROVE x \in Total(f, m, k)
    OBVIOUS
  <2>2. x \in g \/ x \in KernelFrames(k) \/ \E q \in Procs : x \in FramesOf(n[q])
    BY DEF Total
  <2> QED BY <1>1, <2>2 DEF Total
<1>4. Total(f, m, k) \subseteq Total(g, n, k)
  <2>1. SUFFICES ASSUME NEW x \in Total(f, m, k) PROVE x \in Total(g, n, k)
    OBVIOUS
  <2>2. x \in f \/ x \in KernelFrames(k) \/ \E q \in Procs : x \in FramesOf(m[q])
    BY DEF Total
  <2> QED BY <1>1, <2>2 DEF Total
<1> QED BY <1>3, <1>4

\* The same when the kernel exchanges frames with the free ones.
LEMMA TotalKernel ==
    ASSUME NEW f, NEW m, NEW k, NEW g, NEW l, g \cup KernelFrames(l) = f \cup KernelFrames(k)
    PROVE  Total(g, m, l) = Total(f, m, k)
BY DEF Total

-----------------------------------------------------------------------------
(* The kernel stack area.                                                  *)

\* The one entry of the kernel's top table for kernel stacks.
TopSlot == {<<3, 0>>}

SlotsOf(t) == {n \in DOMAIN t : n[1] = 3}

\* Nodes of the tables for a page of the kernel stack area.
LEMMA PathTop ==
    ASSUME NEW q \in Nat, q < Span * Span * Span
    PROVE  Node(3, q) = <<3, 0>> /\ \A n \in Path(q) : n[1] = 3 => n = <<3, 0>>
<1>1. /\ Node(1, q) = <<1, q \div Span>>
      /\ Node(2, q) = <<2, q \div (Span * Span)>>
      /\ Node(3, q) = <<3, q \div (Span * Span * Span)>>
  BY DEF Node, Reach
<1>2. PICK c : c = Span * Span * Span
  OBVIOUS
<1>3. c \in Nat \ {0}
  <2>1. Span \in Nat \ {0}
    BY AddressSpaceAssumption DEF AddressSpaceAssumption
  <2>2. \A a, b \in Nat \ {0} : a * b \in Nat \ {0}
    OBVIOUS
  <2>3. Span * Span \in Nat \ {0}
    BY <2>1, <2>2
  <2> QED BY <1>2, <2>1, <2>2, <2>3
<1>4. q \div c = 0
  <2>1. \A a \in Nat, b \in Nat \ {0} : a < b => a \div b = 0
    OBVIOUS
  <2> QED BY <1>2, <1>3, <2>1
<1>5. Node(3, q) = <<3, 0>>
  BY <1>1, <1>2, <1>4
<1>6. Node(1, q)[1] = 1 /\ Node(2, q)[1] = 2
  BY <1>1
<1> QED BY <1>5, <1>6 DEF Path

\* A new kernel stack, complete or not.
LEMMA NewStack ==
    ASSUME kernel \in KernelType, kstack_ptr \in Nat, NEW f \in SUBSET Frames,
           Sound(f, kernel.tables, kernel.pte), \A q \in DOMAIN kernel.pte : q < kstack_ptr,
           kstack_ptr + KSTACK_PAGES + 1 <= Span * Span * Span, KernelSlots \subseteq TopSlot,
           NEW w, w = kstack_init(f), NEW l, l = [tables |-> w.tables, pte |-> w.pte]
    PROVE  /\ l \in KernelType /\ w.free \in SUBSET Frames /\ Sound(w.free, l.tables, l.pte)
           /\ w.starved \in BOOLEAN /\ w.failed \in BOOLEAN
           /\ w.free \subseteq f
           /\ w.free \cup KernelFrames(l) \subseteq f \cup KernelFrames(kernel)
           /\ ~w.starved => f \cup KernelFrames(kernel) \subseteq w.free \cup KernelFrames(l)
           /\ \A q \in DOMAIN l.pte : q < StackTop + 1
           /\ \A q \in DOMAIN l.pte : q <= kstack_ptr => q \in DOMAIN kernel.pte
           /\ KernelSlots \subseteq SlotsOf(l.tables) /\ SlotsOf(l.tables) \subseteq TopSlot
           /\ w.free = {} \/ SlotsOf(l.tables) = TopSlot
           /\ f = {} => w.failed
<1>1. PICK first, n : first = kstack_ptr + 1 /\ n = KSTACK_PAGES
  OBVIOUS
<1>2. n \in Nat \ {0} /\ first \in Nat
  BY <1>1, AddressSpaceAssumption DEF AddressSpaceAssumption
<1>3. PICK k : k = kernel
  OBVIOUS
<1>4. k \in KernelType /\ k.tables \in Maps(Nodes) /\ k.pte \in Maps(Nat) /\ Sound(f, k.tables, k.pte)
  BY <1>3 DEF KernelType
<1>5. w = MapPages(f, k, first, n)
  BY <1>1, <1>3 DEF kstack_init
<1>6. Mapped(f, k, first, n, w)
  BY <1>2, <1>4, <1>5, MapPagesMapped
<1>7. /\ SoundWork(w) /\ w.free \subseteq f
      /\ Held(w) \subseteq Holds(f, k.tables, k.pte)
      /\ w.done \subseteq first .. first + n - 1
      /\ DOMAIN w.pte \subseteq DOMAIN k.pte \cup w.done
      /\ ~w.starved /\ w.done \cap DOMAIN k.pte = {} => Holds(f, k.tables, k.pte) \subseteq Held(w)
      /\ DOMAIN k.tables \subseteq DOMAIN w.tables
      /\ \A x \in DOMAIN w.tables \ DOMAIN k.tables :
           \E q \in first .. first + n - 1 : x \in Path(q)
      /\ w.free = {} \/ Node(3, first) \in DOMAIN w.tables
      /\ f = {} => w.failed
  BY <1>2, <1>6 DEF Mapped
<1>8. l.tables = w.tables /\ l.pte = w.pte
  OBVIOUS
<1>9. w \in Works /\ Sound(w.free, w.tables, w.pte)
  BY <1>7 DEF SoundWork
<1>10. /\ l \in KernelType /\ w.free \in SUBSET Frames
       /\ w.starved \in BOOLEAN /\ w.failed \in BOOLEAN
  BY <1>9 DEF Works, KernelType
<1>11. /\ Held(w) = w.free \cup KernelFrames(l)
       /\ Holds(f, k.tables, k.pte) = f \cup KernelFrames(k)
  BY <1>8 DEF Held, Holds, KernelFrames
<1>12. w.done \cap DOMAIN k.pte = {}
  <2>1. \A q \in first .. first + n - 1 : ~(q < kstack_ptr)
    BY <1>1, <1>2
  <2> QED BY <1>3, <1>7, <2>1
<1>13. \A q \in DOMAIN l.pte : q < StackTop + 1 /\ (q <= kstack_ptr => q \in DOMAIN k.pte)
  <2>1. SUFFICES ASSUME NEW q \in DOMAIN w.pte
                 PROVE  q < StackTop + 1 /\ (q <= kstack_ptr => q \in DOMAIN k.pte)
    BY <1>8
  <2>2. CASE q \in DOMAIN k.pte
    <3>1. q \in Nat
      BY <1>4, <2>2 DEF Maps
    <3>2. q < kstack_ptr
      BY <1>3, <2>2
    <3>3. kstack_ptr < StackTop + 1 /\ StackTop \in Nat
      BY <1>1, <1>2 DEF StackTop
    <3> QED BY <2>2, <3>1, <3>2, <3>3
  <2>3. CASE q \in first .. first + n - 1
    BY <1>1, <1>2, <2>3 DEF StackTop
  <2> QED BY <1>7, <2>2, <2>3
<1>14. \A q \in first .. first + n - 1 : q \in Nat /\ q < Span * Span * Span
  <2>1. PICK c : c = Span * Span * Span
    OBVIOUS
  <2>2. c \in Int
    BY <2>1, AddressSpaceAssumption DEF AddressSpaceAssumption
  <2> QED BY <1>1, <1>2, <2>1, <2>2
<1>15. KernelSlots = SlotsOf(k.tables)
  BY <1>3 DEF KernelSlots, SlotsOf
<1>16. KernelSlots \subseteq SlotsOf(l.tables)
  BY <1>7, <1>8, <1>15 DEF SlotsOf
<1>17. SlotsOf(l.tables) \subseteq TopSlot
  <2>1. SUFFICES ASSUME NEW x \in DOMAIN w.tables, x[1] = 3 PROVE x \in TopSlot
    BY <1>8 DEF SlotsOf
  <2>2. CASE x \in DOMAIN k.tables
    BY <1>15, <2>1, <2>2 DEF SlotsOf
  <2>3. CASE x \notin DOMAIN k.tables
    <3>1. PICK q \in first .. first + n - 1 : x \in Path(q)
      BY <1>7, <2>3
    <3>2. x = <<3, 0>>
      BY <1>14, <2>1, <3>1, PathTop
    <3> QED BY <3>2 DEF TopSlot
  <2> QED BY <2>2, <2>3
<1>18. w.free = {} \/ SlotsOf(l.tables) = TopSlot
  <2>1. SUFFICES ASSUME w.free # {} PROVE SlotsOf(l.tables) = TopSlot
    OBVIOUS
  <2>2. first \in Nat /\ first < Span * Span * Span
    <3>1. first \in first .. first + n - 1
      BY <1>2
    <3> QED BY <1>14, <3>1
  <2>3. <<3, 0>> \in DOMAIN w.tables
    BY <1>7, <2>1, <2>2, PathTop
  <2>4. <<3, 0>> \in SlotsOf(l.tables)
    BY <1>8, <2>3 DEF SlotsOf
  <2> QED BY <1>17, <2>4 DEF TopSlot
<1> QED BY <1>3, <1>7, <1>8, <1>9, <1>10, <1>11, <1>12, <1>13, <1>16, <1>17, <1>18

-----------------------------------------------------------------------------
(* The invariant.                                                          *)

\* The types of the variables.
TypeOK ==
    /\ pc \in {"mm_init", "init", "run", "dead"}
    /\ free \in SUBSET Frames
    /\ mm \in MMs
    /\ alive \in SUBSET Procs
    /\ kernel \in KernelType
    /\ kstack_ptr \in Nat
    /\ kstack_base \in [Procs -> Nat]
    /\ calls \in 0 .. MaxCalls
    /\ starved \in BOOLEAN /\ remapped \in BOOLEAN /\ orphaned \in BOOLEAN

\* The kernel stacks there can be, complete or not.
Stacks(at, n) == IF at = "mm_init" THEN 0 ELSE IF at = "init" THEN 1 ELSE n + 2

\* Kernel stacks are above all earlier ones and their guard pages.
StackArea ==
    /\ kstack_ptr <= Stacks(pc, calls) * (KSTACK_PAGES + 1)
    /\ \A q \in DOMAIN kernel.pte : q < kstack_ptr
    /\ \A p \in Procs : kstack_base[p] # 0 =>
         kstack_base[p] - 1 < kstack_ptr /\ kstack_base[p] - 1 \notin DOMAIN kernel.pte

\* The top entry of the area is there before the first address space copies it.
Slots ==
    /\ KernelSlots \subseteq TopSlot
    /\ \A p \in Procs : mm[p] # NoMM => mm[p].slots = TopSlot /\ KernelSlots = TopSlot
    /\ pc = "init" => free = {} \/ KernelSlots = TopSlot

\* Processes are alive in the address spaces they have, and there are none
\* before the first one.
Populated ==
    /\ \A p \in alive : mm[p] # NoMM
    /\ pc \in {"mm_init", "init"} => \A p \in Procs : mm[p] = NoMM

\* The inductive invariant.
ASInv ==
    /\ TypeOK /\ Apart(free, mm, kernel) /\ StackArea /\ Slots /\ Populated

\* The area has room for one stack more.
LEMMA AreaBound ==
    ASSUME NEW ptr \in Nat, NEW n \in Nat, n < MaxCalls + 2, ptr <= n * (KSTACK_PAGES + 1)
    PROVE  /\ ptr + KSTACK_PAGES + 1 <= Span * Span * Span
           /\ ptr + KSTACK_PAGES + 1 <= (n + 1) * (KSTACK_PAGES + 1)
<1>1. PICK c, k, s : c = MaxCalls + 2 /\ k = KSTACK_PAGES + 1 /\ s = Span * Span * Span
  OBVIOUS
<1>2. c \in Nat /\ k \in Nat /\ s \in Int /\ KSTACK_PAGES \in Nat
  BY <1>1, AddressSpaceAssumption DEF AddressSpaceAssumption
<1>3. c * k <= s
  BY <1>1, KernelStackArea DEF KernelStackArea
<1>4. (n + 1) * k = n * k + k /\ n * k \in Nat
  BY <1>2
<1>5. (n + 1) * k <= c * k
  <2>1. \A a, b, x \in Nat : a <= b => a * x <= b * x
    OBVIOUS
  <2>2. n + 1 <= c /\ n + 1 \in Nat
    BY <1>1, <1>2
  <2> QED BY <1>2, <2>1, <2>2
<1>6. ptr + k <= (n + 1) * k /\ ptr <= n * k
  BY <1>1, <1>2, <1>4
<1>7. ptr + k <= s
  <2>1. (n + 1) * k \in Nat /\ c * k \in Nat
    BY <1>2
  <2> QED BY <1>2, <1>3, <1>5, <1>6, <2>1
<1>8. ptr + KSTACK_PAGES + 1 = ptr + k
  BY <1>1, <1>2
<1> QED BY <1>1, <1>6, <1>7, <1>8

\* A system call starts from a sound state.
LEMMA CallStarts ==
    ASSUME ASInv, NEW p \in Procs, mm[p] # NoMM, NEW k \in Nat, NEW c, c = Call(mm[p], k)
    PROVE  /\ SoundCall(c) /\ Pool(c) = free \cup FramesOf(mm[p])
           /\ c.ok /\ ~c.fault /\ c.mm = mm[p] /\ c.free = free
           /\ c.starved = starved /\ c.remapped = remapped
<1>1. c = [mm |-> mm[p], free |-> free, left |-> k, ok |-> TRUE,
           fault |-> FALSE, starved |-> starved, remapped |-> remapped]
  BY DEF Call
<1>2. /\ mm[p] \in Spaces /\ free \in SUBSET Frames
      /\ starved \in BOOLEAN /\ remapped \in BOOLEAN
      /\ SoundSpace(free, mm[p]) /\ Covered(mm[p])
  BY DEF ASInv, TypeOK, MMs, Apart
<1>3. c \in CallType
  BY <1>1, <1>2 DEF CallType
<1>4. /\ c.ok /\ ~c.fault /\ c.mm = mm[p] /\ c.free = free
      /\ c.starved = starved /\ c.remapped = remapped
  BY <1>1
<1> QED BY <1>2, <1>3, <1>4 DEF SoundCall, Pool

\* What create_user_process has loaded.
LEMMA InitLoads ==
    ASSUME ASInv, NEW k \in Nat, NEW c, c = InitLoaded(k)
    PROVE  /\ c.starved \in BOOLEAN /\ c.remapped \in BOOLEAN
           /\ (starved => c.starved) /\ (remapped => c.remapped)
           /\ Pool(c) \subseteq free
           /\ ~c.starved /\ ~c.remapped => free \subseteq Pool(c)
           /\ \/ ~c.ok /\ ~c.fault /\ c.mm = NoMM /\ c.free = free
              \/ SoundCall(c) /\ c.mm.slots = KernelSlots /\ free # {}
<1>1. PICK a : a = mm_alloc(Call(NoMM, k))
  OBVIOUS
<1>2. PICK b : b = IF a.ok THEN load_elf(a, InitProgram) ELSE a
  OBVIOUS
<1>3. c = LoadSegment(b, UserStack)
  BY <1>1, <1>2 DEF InitLoaded
<1>4. /\ free \in SUBSET Frames /\ starved \in BOOLEAN /\ remapped \in BOOLEAN
      /\ KernelSlots \in SUBSET Nodes
  BY DEF ASInv, TypeOK, KernelSlots, KernelType, Maps
<1>5. /\ a.starved = starved /\ a.remapped = remapped /\ ~a.fault
      /\ \/ ~a.ok /\ a.mm = NoMM /\ a.free = free
         \/ /\ a.ok /\ SoundCall(a) /\ Pool(a) = free /\ free # {}
            /\ a.mm.slots = KernelSlots /\ a.mm.heap = 0 /\ DOMAIN a.mm.pte = {}
  BY <1>1, <1>4, Allocated
<1>6. CASE ~a.ok
  <2>1. c = a
    BY <1>2, <1>3, <1>6 DEF LoadSegment
  <2>2. Pool(c) = free
    BY <1>5, <1>6, <2>1 DEF Pool, FramesOf
  <2> QED BY <1>4, <1>5, <1>6, <2>1, <2>2
<1>7. CASE a.ok
  <2>1. b = load_elf(a, InitProgram)
    BY <1>2, <1>7
  <2>2. InitProgram \in Programs
    BY AddressSpaceAssumption DEF AddressSpaceAssumption
  <2>3. Loading(a, b)
    BY <1>5, <1>7, <2>1, <2>2, LoadAll
  <2>4. /\ SoundCall(b) /\ Pool(b) \subseteq Pool(a)
        /\ b.mm.slots = a.mm.slots
        /\ (a.starved => b.starved) /\ (a.remapped => b.remapped)
        /\ ~b.starved /\ ~b.remapped => Pool(a) \subseteq Pool(b)
    BY <2>3 DEF Loading
  <2>5. b \in CallType /\ b.starved \in BOOLEAN /\ b.remapped \in BOOLEAN
    BY <2>4 DEF SoundCall, CallType
  <2>6. CASE ~b.ok \/ b.fault
    <3>1. c = b
      BY <1>3, <2>6 DEF LoadSegment
    <3> QED BY <1>5, <1>7, <2>4, <2>5, <2>6, <3>1
  <2>7. CASE b.ok /\ ~b.fault
    <3>1. UserStack \in [va : Nat, size : Nat]
      BY AddressSpaceAssumption DEF AddressSpaceAssumption
    <3>2. /\ SoundCall(c) /\ Pool(c) \subseteq Pool(b)
          /\ c.mm.slots = b.mm.slots
          /\ (b.starved => c.starved) /\ (b.remapped => c.remapped)
          /\ ~c.starved /\ ~c.remapped => Pool(b) \subseteq Pool(c)
      BY <1>3, <2>4, <2>7, <3>1, LoadOne
    <3>3. c.starved \in BOOLEAN /\ c.remapped \in BOOLEAN
      BY <3>2 DEF SoundCall, CallType
    <3> QED BY <1>5, <1>7, <2>4, <3>2, <3>3
  <2> QED BY <2>6, <2>7
<1> QED BY <1>6, <1>7

\* What fork has copied.  A copy that lacks a page leaves no frame.
LEMMA ForkCopies ==
    ASSUME ASInv, NEW p \in Procs, mm[p] # NoMM, NEW k \in Nat, NEW c, c = Copied(p, k)
    PROVE  /\ c.starved \in BOOLEAN /\ c.remapped \in BOOLEAN
           /\ (starved => c.starved) /\ (remapped => c.remapped)
           /\ Pool(c) \subseteq free
           /\ ~c.starved /\ ~c.remapped => free \subseteq Pool(c)
           /\ c.ok => /\ SoundCall(c) /\ c.mm.slots = KernelSlots
                      /\ c.free # {} => DOMAIN mm[p].pte \subseteq DOMAIN c.mm.pte
<1>1. PICK a : a = mm_alloc(Call(NoMM, k))
  OBVIOUS
<1>2. PICK src : src = mm[p]
  OBVIOUS
<1>3. c = IF a.ok THEN mm_copy(a, src) ELSE a
  BY <1>1, <1>2 DEF Copied
<1>4. /\ free \in SUBSET Frames /\ starved \in BOOLEAN /\ remapped \in BOOLEAN
      /\ KernelSlots \in SUBSET Nodes /\ src \in Spaces /\ Covered(src)
  BY <1>2 DEF ASInv, TypeOK, KernelSlots, KernelType, Maps, MMs, Apart
<1>5. /\ a.starved = starved /\ a.remapped = remapped /\ ~a.fault
      /\ \/ ~a.ok /\ a.mm = NoMM /\ a.free = free
         \/ /\ a.ok /\ SoundCall(a) /\ Pool(a) = free /\ free # {}
            /\ a.mm.slots = KernelSlots /\ a.mm.heap = 0 /\ DOMAIN a.mm.pte = {}
  BY <1>1, <1>4, Allocated
<1>6. CASE ~a.ok
  <2>1. c = a
    BY <1>3, <1>6
  <2>2. Pool(c) = free
    BY <1>5, <1>6, <2>1 DEF Pool, FramesOf
  <2> QED BY <1>4, <1>5, <1>6, <2>1, <2>2
<1>7. CASE a.ok
  <2>1. c = mm_copy(a, src)
    BY <1>3, <1>7
  <2>2. src.vmas \in Seq(VmaType)
    BY <1>4 DEF Spaces
  <2>3. PICK n : n = Len(src.vmas)
    OBVIOUS
  <2>4. Copying(a, src, n, c)
    BY <1>5, <1>7, <2>1, <2>2, <2>3, CopyAll
  <2>5. /\ Pool(c) \subseteq Pool(a) /\ c \in CallType
        /\ (a.starved => c.starved) /\ (a.remapped => c.remapped)
        /\ ~c.starved /\ ~c.remapped => Pool(a) \subseteq Pool(c)
        /\ c.ok => /\ SoundCall(c) /\ c.mm.slots = a.mm.slots
                   /\ c.free # {} =>
                        \A i \in 1 .. n : src.vmas[i].start .. src.vmas[i].end - 1 \subseteq DOMAIN c.mm.pte
    BY <2>4 DEF Copying
  <2>6. c.starved \in BOOLEAN /\ c.remapped \in BOOLEAN
    BY <2>5 DEF CallType
  <2>7. DOMAIN src.vmas = 1 .. n
    BY <2>2, <2>3
  <2>8. ASSUME c.ok, c.free # {} PROVE DOMAIN src.pte \subseteq DOMAIN c.mm.pte
    BY <1>4, <2>5, <2>7, <2>8 DEF Covered
  <2> QED BY <1>2, <1>5, <1>7, <2>5, <2>6, <2>8
<1> QED BY <1>5, <1>6, <1>7

-----------------------------------------------------------------------------
(* Steps.                                                                  *)

\* Frames get lost in the three known ways only.
Conserves ==
    ~starved' /\ ~remapped' /\ ~orphaned' => Total(free', mm', kernel') = Total(free, mm, kernel)

\* A failed call leaves pages as they were, an execve perhaps with others.
Restores ==
    (calls' # calls /\ ret'.value = -1 /\ ~remapped') =>
        \A p \in Procs : mm[p] # NoMM =>
            IF ret'.call = "execve" THEN Keeps(mm[p].pte, mm'[p].pte)
                                    ELSE mm'[p].pte = mm[p].pte

\* A step that changes no pages of a process restores them.
LEMMA UnchangedRestores ==
    ASSUME \A p \in Procs : mm[p] # NoMM => mm'[p].pte = mm[p].pte
    PROVE  Restores
<1>1. ASSUME NEW p \in Procs, mm[p] # NoMM
      PROVE  Keeps(mm[p].pte, mm'[p].pte)
  BY <1>1 DEF Keeps
<1> QED BY <1>1 DEF Restores

\* More stacks may come.
LEMMA StacksMore ==
    ASSUME TypeOK, StackArea, UNCHANGED <<kernel, kstack_ptr, kstack_base>>,
           Stacks(pc, calls) \in Nat, Stacks(pc', calls') \in Nat,
           Stacks(pc, calls) <= Stacks(pc', calls')
    PROVE  StackArea'
<1>1. PICK a, b, x, y : /\ a = Stacks(pc, calls) /\ b = Stacks(pc', calls')
                        /\ x = KSTACK_PAGES + 1 /\ y = kstack_ptr
  OBVIOUS
<1>2. a \in Nat /\ b \in Nat /\ a <= b /\ x \in Nat /\ y \in Nat /\ y <= a * x
  BY <1>1, AddressSpaceAssumption DEF AddressSpaceAssumption, TypeOK, StackArea
<1>3. a * x <= b * x /\ a * x \in Nat /\ b * x \in Nat
  BY <1>2
<1>4. y <= b * x
  BY <1>2, <1>3
<1> QED BY <1>1, <1>4 DEF StackArea

\* A process changes its address space to s.
LEMMA ProcStep ==
    ASSUME ASInv, pc = "run", pc' \in {"run", "dead"}, NEW p \in Procs, mm[p] # NoMM,
           NEW f \in SUBSET Frames, NEW s, SoundSpace(f, s), Covered(s), s.slots = mm[p].slots,
           f \cup FramesOf(s) \subseteq free \cup FramesOf(mm[p]),
           ~starved' /\ ~remapped' => free \cup FramesOf(mm[p]) \subseteq f \cup FramesOf(s),
           free' = f, mm' = [mm EXCEPT ![p] = s],
           starved' \in BOOLEAN, remapped' \in BOOLEAN, remapped => remapped',
           calls' \in 0 .. MaxCalls, calls <= calls',
           UNCHANGED <<alive, kernel, kstack_ptr, kstack_base, orphaned>>
    PROVE  ASInv' /\ Conserves
<1> USE DEF ASInv
<1>1. mm \in MMs /\ s \in Spaces /\ Apart(free, mm, kernel)
  BY DEF TypeOK, SoundSpace
<1>2. /\ mm'[p] = s /\ \A q \in Procs : q # p => mm'[q] = mm[q]
      /\ mm' \in MMs /\ s # NoMM
  BY <1>1, FramesOfSpace DEF MMs
<1>3. TypeOK'
  BY <1>2 DEF TypeOK
<1>4. Apart(free', mm', kernel')
  <2>1. Apart(f, [mm EXCEPT ![p] = s], kernel)
    <3>1. PICK m, k, e : m = mm /\ k = kernel /\ e = free
      OBVIOUS
    <3>2. /\ m \in MMs /\ Apart(e, m, k)
          /\ f \cup FramesOf(s) \subseteq e \cup FramesOf(m[p])
      BY <1>1, <3>1
    <3>3. Apart(f, [m EXCEPT ![p] = s], k)
      BY <3>2, ApartProc
    <3> QED BY <3>1, <3>3
  <2> QED BY <2>1
<1>5. Conserves
  <2>1. SUFFICES ASSUME ~starved', ~remapped'
                 PROVE  Total(free', mm', kernel) = Total(free, mm, kernel)
    BY DEF Conserves
  <2>2. PICK m, n, e, g : m = mm /\ n = mm' /\ e = free /\ g = free'
    OBVIOUS
  <2>3. g \cup FramesOf(n[p]) = e \cup FramesOf(m[p])
    BY <1>2, <2>1, <2>2
  <2>4. \A q \in Procs : q # p => n[q] = m[q]
    BY <1>2, <2>2
  <2>5. Total(g, n, kernel) = Total(e, m, kernel)
    <3>1. Exchanges(e, m, g, n, p)
      BY <2>3, <2>4 DEF Exchanges
    <3> QED BY <3>1, TotalProc
  <2> QED BY <2>2, <2>5
<1>6. StackArea'
  <2>1. Stacks(pc, calls) = calls + 2 /\ Stacks(pc', calls') = calls' + 2
    BY DEF Stacks
  <2>2. calls \in Nat /\ calls' \in Nat
    BY DEF TypeOK
  <2> QED BY <2>1, <2>2, StacksMore
<1>7. Slots'
  BY <1>2 DEF Slots, KernelSlots
<1>8. Populated'
  BY <1>2 DEF Populated
<1> QED BY <1>3, <1>4, <1>5, <1>6, <1>7, <1>8

\* The address spaces and the kernel after a process number q has got the
\* address space of call c and a kernel stack, and after it gave back the first.
LEMMA ForkApart ==
    ASSUME NEW e, NEW m \in MMs, NEW k, Apart(e, m, k), NEW q \in Procs, m[q] = NoMM,
           NEW c, SoundCall(c), Pool(c) \subseteq e,
           NEW g, NEW l, Sound(g, l.tables, l.pte),
           g \cup KernelFrames(l) \subseteq c.free \cup KernelFrames(k),
           NEW n \in MMs, n[q] = c.mm, \A p \in Procs : p # q => n[p] = m[p]
    PROVE  /\ Apart(g, n, l)
           /\ Apart(mm_free(g, c.mm), m, l)
           /\ e = Pool(c) /\ g \cup KernelFrames(l) = c.free \cup KernelFrames(k) =>
                Total(g, n, l) = Total(e, m, k)
<1>2. c \in CallType /\ SoundSpace(c.free, c.mm) /\ Covered(c.mm) /\ c.mm \in Spaces
  BY DEF SoundCall, SoundSpace
<1>3. FramesOf(m[q]) = {}
  BY DEF FramesOf
<1>4. Apart(c.free, n, k)
  <2>1. PICK f, s : f = c.free /\ s = c.mm
    OBVIOUS
  <2>2. SoundSpace(f, s) /\ Covered(s) /\ f \cup FramesOf(s) \subseteq e \cup FramesOf(m[q])
    BY <1>2, <1>3, <2>1 DEF Pool
  <2>3. Apart(f, [m EXCEPT ![q] = s], k)
    BY <2>2, ApartProc
  <2>4. n = [m EXCEPT ![q] = s]
    BY <2>1 DEF MMs
  <2> QED BY <2>1, <2>3, <2>4
<1>5. Apart(g, n, l)
  <2>1. PICK f : f = c.free
    OBVIOUS
  <2>2. Apart(f, n, k) /\ g \cup KernelFrames(l) \subseteq f \cup KernelFrames(k)
    BY <1>4, <2>1
  <2> QED BY <2>2, ApartKernel
<1>6. \A p \in Procs : p # q => m[p] = n[p]
  OBVIOUS
<1>7. Apart(g \cup FramesOf(n[q]), m, l)
  BY <1>5, <1>6, ApartFree
<1>8. Apart(mm_free(g, c.mm), m, l)
  BY <1>6, <1>7, FreeAll
<1>9. ASSUME e = Pool(c), g \cup KernelFrames(l) = c.free \cup KernelFrames(k)
      PROVE  Total(g, n, l) = Total(e, m, k)
  <2>1. PICK f : f = c.free
    OBVIOUS
  <2>2. f \cup FramesOf(n[q]) = e \cup FramesOf(m[q])
    BY <1>3, <1>6, <1>9, <2>1 DEF Pool
  <2>3. Total(f, n, k) = Total(e, m, k)
    <3>1. PICK x, y : x = m /\ y = n
      OBVIOUS
    <3>2. Exchanges(e, x, f, y, q)
      BY <2>2, <3>1 DEF Exchanges
    <3>3. Total(f, y, k) = Total(e, x, k)
      BY ONLY <3>2, q \in Procs, TotalProc
    <3> QED BY <3>1, <3>3
  <2>4. Total(g, n, l) = Total(f, n, k)
    BY <1>9, <2>1, TotalKernel
  <2> QED BY <2>3, <2>4
<1> QED BY <1>5, <1>8, <1>9

\* Effect of kstack_init on the kernel, after n stacks.
LEMMA StackStep ==
    ASSUME ASInv, NEW n \in Nat, n < MaxCalls + 2, kstack_ptr <= n * (KSTACK_PAGES + 1),
           NEW f \in SUBSET Frames, Sound(f, kernel.tables, kernel.pte),
           NEW w, w = kstack_init(f), StackMapped(w),
           \/ kstack_base' = kstack_base
           \/ \E q \in Procs : kstack_base' = [kstack_base EXCEPT ![q] = kstack_ptr + 1],
           Stacks(pc', calls') \in Nat, n + 1 <= Stacks(pc', calls')
    PROVE  /\ StackArea' /\ kernel' \in KernelType /\ kstack_ptr' \in Nat
           /\ kstack_base' \in [Procs -> Nat] /\ orphaned' \in BOOLEAN
           /\ orphaned' = (orphaned \/ w.failed)
           /\ w.free \in SUBSET Frames /\ Sound(w.free, kernel'.tables, kernel'.pte)
           /\ w.starved \in BOOLEAN /\ w.failed \in BOOLEAN
           /\ w.free \cup KernelFrames(kernel') \subseteq f \cup KernelFrames(kernel)
           /\ ~w.starved => f \cup KernelFrames(kernel) \subseteq w.free \cup KernelFrames(kernel')
           /\ KernelSlots \subseteq KernelSlots' /\ KernelSlots' \subseteq TopSlot
           /\ w.free = {} \/ KernelSlots' = TopSlot
           /\ f = {} => w.failed
<1>1. /\ kernel \in KernelType /\ kstack_ptr \in Nat /\ kstack_base \in [Procs -> Nat]
      /\ \A q \in DOMAIN kernel.pte : q < kstack_ptr
      /\ KernelSlots \subseteq TopSlot
      /\ \A p \in Procs : kstack_base[p] # 0 =>
           kstack_base[p] - 1 < kstack_ptr /\ kstack_base[p] - 1 \notin DOMAIN kernel.pte
  BY DEF ASInv, TypeOK, StackArea, Slots
<1>2. PICK ptr, k : ptr = kstack_ptr /\ k = KSTACK_PAGES
  OBVIOUS
<1>3. ptr \in Nat /\ k \in Nat
  BY <1>1, <1>2, AddressSpaceAssumption DEF AddressSpaceAssumption
<1>4. /\ ptr + k + 1 <= Span * Span * Span
      /\ ptr + k + 1 <= (n + 1) * (k + 1)
  BY <1>2, <1>3, AreaBound
<1>5. PICK l : l = [tables |-> w.tables, pte |-> w.pte]
  OBVIOUS
<1>6. /\ l \in KernelType /\ w.free \in SUBSET Frames /\ Sound(w.free, l.tables, l.pte)
      /\ w.starved \in BOOLEAN /\ w.failed \in BOOLEAN
      /\ w.free \subseteq f
      /\ w.free \cup KernelFrames(l) \subseteq f \cup KernelFrames(kernel)
      /\ ~w.starved => f \cup KernelFrames(kernel) \subseteq w.free \cup KernelFrames(l)
      /\ \A q \in DOMAIN l.pte : q < StackTop + 1
      /\ \A q \in DOMAIN l.pte : q <= kstack_ptr => q \in DOMAIN kernel.pte
      /\ KernelSlots \subseteq SlotsOf(l.tables) /\ SlotsOf(l.tables) \subseteq TopSlot
      /\ w.free = {} \/ SlotsOf(l.tables) = TopSlot
      /\ f = {} => w.failed
  <2>1. kstack_ptr + KSTACK_PAGES + 1 <= Span * Span * Span
    BY <1>2, <1>4
  <2> QED BY <1>1, <1>5, <2>1, NewStack
<1>7. kernel' = l /\ kstack_ptr' = StackTop + 1 /\ orphaned' = (orphaned \/ w.failed)
  BY <1>5 DEF StackMapped
<1>8. KernelSlots' = SlotsOf(l.tables)
  BY <1>7 DEF KernelSlots, SlotsOf
<1>9. StackTop = ptr + k /\ StackTop + 1 = ptr + k + 1 /\ StackTop \in Nat
  BY <1>2, <1>3 DEF StackTop
<1>10. kstack_base' \in [Procs -> Nat]
  BY <1>1, <1>2, <1>3
<1>11. kstack_ptr' \in Nat /\ kstack_ptr' <= Stacks(pc', calls') * (KSTACK_PAGES + 1)
  <2>1. PICK t \in Nat : t = Stacks(pc', calls')
    OBVIOUS
  <2>2. \A a, b, x \in Nat : a <= b => a * x <= b * x /\ a * x \in Nat /\ b * x \in Nat
    OBVIOUS
  <2>3. /\ (n + 1) * (k + 1) <= t * (k + 1)
        /\ (n + 1) * (k + 1) \in Nat /\ t * (k + 1) \in Nat
    <3>1. n + 1 \in Nat /\ k + 1 \in Nat /\ n + 1 <= t
      BY <1>3, <2>1
    <3> QED BY <2>2, <3>1
  <2>4. ptr + k + 1 <= t * (k + 1)
    BY <1>3, <1>4, <2>3
  <2> QED BY <1>2, <1>3, <1>7, <1>9, <2>1, <2>4
<1>12. ASSUME NEW p \in Procs, kstack_base'[p] # 0
       PROVE  kstack_base'[p] - 1 < kstack_ptr' /\ kstack_base'[p] - 1 \notin DOMAIN kernel'.pte
  <2>1. PICK b : b = kstack_base'[p]
    OBVIOUS
  <2>2. b = ptr + 1 \/ (b = kstack_base[p] /\ b # 0)
    BY <1>1, <1>2, <1>12, <2>1
  <2>3. CASE b = ptr + 1
    <3>1. b - 1 = ptr /\ ptr < ptr + k + 1 /\ ptr <= ptr
      BY <1>3, <2>3
    <3>2. ptr \notin DOMAIN kernel.pte
      <4>1. ~(ptr < ptr)
        BY <1>3
      <4> QED BY <1>1, <1>2, <4>1
    <3>3. ptr \notin DOMAIN l.pte
      BY <1>2, <1>6, <3>1, <3>2
    <3> QED BY <1>7, <1>9, <2>1, <3>1, <3>3
  <2>4. CASE b = kstack_base[p] /\ b # 0
    <3>1. b \in Nat /\ b - 1 < ptr /\ b - 1 \notin DOMAIN kernel.pte
      BY <1>1, <1>2, <2>4
    <3>2. b - 1 < ptr + k + 1 /\ b - 1 <= ptr
      BY <1>3, <3>1
    <3>3. b - 1 \notin DOMAIN l.pte
      BY <1>2, <1>6, <3>1, <3>2
    <3> QED BY <1>7, <1>9, <2>1, <3>2, <3>3
  <2> QED BY <2>2, <2>3, <2>4
<1>13. StackArea'
  BY <1>6, <1>7, <1>11, <1>12 DEF StackArea
<1>14. orphaned' \in BOOLEAN
  BY <1>7
<1> QED BY <1>6, <1>7, <1>8, <1>10, <1>11, <1>13, <1>14

\* The stack for kmain.
LEMMA MMInitStep ==
    ASSUME ASInv, mm_init
    PROVE  ASInv' /\ Conserves /\ Restores
<1>1. PICK w : /\ w = kstack_init(free) /\ free' = w.free /\ StackMapped(w)
               /\ starved' = (starved \/ w.starved)
               /\ pc' = IF w.failed THEN "dead" ELSE "init"
  BY DEF mm_init
<1>2. pc = "mm_init" /\ UNCHANGED <<mm, alive, kstack_base, calls, ret, remapped>>
  BY DEF mm_init
<1>3. TypeOK /\ Apart(free, mm, kernel) /\ Populated /\ Slots
  BY DEF ASInv
<1>4. calls \in 0 .. MaxCalls /\ MaxCalls \in Nat
  BY <1>3, AddressSpaceAssumption DEF TypeOK, AddressSpaceAssumption
<1>5. PICK n, f : n = 0 /\ f = free
  OBVIOUS
<1>6. n \in Nat /\ n < MaxCalls + 2 /\ kstack_ptr <= n * (KSTACK_PAGES + 1)
  BY <1>2, <1>4, <1>5 DEF ASInv, StackArea, Stacks
<1>7. Stacks(pc', calls') \in Nat /\ n + 1 <= Stacks(pc', calls')
  BY <1>1, <1>2, <1>4, <1>5 DEF Stacks
<1>8. f \in SUBSET Frames /\ Sound(f, kernel.tables, kernel.pte) /\ w = kstack_init(f)
  BY <1>1, <1>3, <1>5 DEF TypeOK, Apart
<1>9. /\ StackArea' /\ kernel' \in KernelType /\ kstack_ptr' \in Nat
      /\ kstack_base' \in [Procs -> Nat] /\ orphaned' \in BOOLEAN
      /\ w.free \in SUBSET Frames /\ Sound(w.free, kernel'.tables, kernel'.pte)
      /\ w.starved \in BOOLEAN
      /\ w.free \cup KernelFrames(kernel') \subseteq f \cup KernelFrames(kernel)
      /\ ~w.starved => f \cup KernelFrames(kernel) \subseteq w.free \cup KernelFrames(kernel')
      /\ KernelSlots' \subseteq TopSlot
      /\ w.free = {} \/ KernelSlots' = TopSlot
  BY <1>1, <1>2, <1>6, <1>7, <1>8, StackStep
<1>10. pc' \in {"init", "dead"}
  BY <1>1
<1>11. \A p \in Procs : mm[p] = NoMM
  BY <1>2, <1>3 DEF Populated
<1>12. TypeOK'
  <2>1. starved' \in BOOLEAN
    BY <1>1
  <2> QED BY <1>1, <1>2, <1>3, <1>9, <1>10, <2>1 DEF TypeOK
<1>13. Apart(free', mm', kernel')
  <2>1. PICK e, m, k, g, l : e = free /\ m = mm /\ k = kernel /\ g = w.free /\ l = kernel'
    OBVIOUS
  <2>2. /\ Apart(e, m, k) /\ Sound(g, l.tables, l.pte)
        /\ g \cup KernelFrames(l) \subseteq e \cup KernelFrames(k)
    BY <1>3, <1>5, <1>9, <2>1
  <2>3. Apart(g, m, l)
    BY <2>2, ApartKernel
  <2> QED BY <1>1, <1>2, <2>1, <2>3
<1>14. Slots'
  BY <1>1, <1>2, <1>9, <1>11 DEF Slots
<1>15. Populated'
  BY <1>2, <1>3, <1>11 DEF Populated
<1>17. Conserves
  <2>1. SUFFICES ASSUME ~starved' PROVE Total(w.free, mm, kernel') = Total(free, mm, kernel)
    BY <1>1, <1>2 DEF Conserves
  <2>2. ~w.starved
    BY <1>1, <2>1
  <2>3. w.free \cup KernelFrames(kernel') = free \cup KernelFrames(kernel)
    BY <1>5, <1>9, <2>2
  <2> QED BY <2>3, TotalKernel
<1>18. Restores
  BY <1>2, UnchangedRestores
<1> QED BY <1>9, <1>12, <1>13, <1>14, <1>15, <1>17, <1>18 DEF ASInv

\* Steps after which no process and no kernel stack has other frames.
LEMMA ReleaseStep ==
    ASSUME ASInv, pc' \in {pc, "dead"}, pc # "mm_init", alive' \subseteq alive,
           calls' \in 0 .. MaxCalls, calls <= calls',
           free' \subseteq free, ~starved' /\ ~remapped' => free \subseteq free',
           starved' \in BOOLEAN, remapped' \in BOOLEAN, remapped => remapped',
           UNCHANGED <<mm, kernel, kstack_ptr, kstack_base, orphaned>>
    PROVE  ASInv' /\ Conserves /\ Restores
<1> USE DEF ASInv
<1>1. TypeOK'
  BY DEF TypeOK
<1>2. Apart(free', mm', kernel')
  <2>1. PICK f, m, k, g : f = free /\ m = mm /\ k = kernel /\ g = free'
    OBVIOUS
  <2>2. Apart(f, m, k) /\ g \subseteq f
    BY <2>1
  <2>3. Apart(g, m, k)
    BY <2>2, ApartLess
  <2> QED BY <2>1, <2>3
<1>3. StackArea'
  <2>1. calls \in Nat /\ calls' \in Nat /\ pc' # "mm_init"
    BY DEF TypeOK
  <2>2. /\ Stacks(pc, calls) \in Nat /\ Stacks(pc', calls') \in Nat
        /\ Stacks(pc, calls) <= Stacks(pc', calls')
    <3>1. Stacks(pc', calls') = (IF pc' = "init" THEN 1 ELSE calls' + 2)
      BY <2>1 DEF Stacks
    <3>2. Stacks(pc, calls) = (IF pc = "init" THEN 1 ELSE calls + 2)
      BY DEF Stacks
    <3>3. pc' = "init" => pc = "init"
      OBVIOUS
    <3>4. PICK a, b : a = calls /\ b = calls'
      OBVIOUS
    <3>5. a \in Nat /\ b \in Nat /\ a <= b
      BY <2>1, <3>4
    <3>6. PICK x, y : x = Stacks(pc, calls) /\ y = Stacks(pc', calls')
      OBVIOUS
    <3>7. \/ x = 1 /\ y = 1
          \/ x = 1 /\ y = b + 2
          \/ x = a + 2 /\ y = b + 2
      BY <3>1, <3>2, <3>3, <3>4, <3>6
    <3>8. x \in Nat /\ y \in Nat /\ x <= y
      BY ONLY <3>5, <3>7
    <3> QED BY <3>6, <3>8
  <2> QED BY <2>2, StacksMore
<1>4. Slots'
  BY DEF Slots, KernelSlots
<1>5. Populated'
  BY DEF Populated
<1>7. Conserves
  <2>1. SUFFICES ASSUME ~starved', ~remapped'
                 PROVE  Total(free', mm', kernel') = Total(free, mm, kernel)
    BY DEF Conserves
  <2>2. free' = free /\ mm' = mm /\ kernel' = kernel
    BY <2>1
  <2> QED BY <2>2
<1>8. Restores
  BY UnchangedRestores
<1> QED BY <1>1, <1>2, <1>3, <1>4, <1>5, <1>7, <1>8

\* Steps that leave all memory alone.
LEMMA QuietStep ==
    ASSUME ASInv, pc' \in {pc, "dead"}, pc # "mm_init", alive' \subseteq alive,
           calls' \in 0 .. MaxCalls, calls <= calls',
           UNCHANGED <<free, mm, kernel, kstack_ptr, kstack_base, starved, remapped, orphaned>>
    PROVE  ASInv' /\ Conserves /\ Restores
<1>1. /\ free' \subseteq free /\ free \subseteq free'
      /\ starved' \in BOOLEAN /\ remapped' \in BOOLEAN /\ (remapped => remapped')
  BY DEF ASInv, TypeOK
<1> QED BY <1>1, ReleaseStep

\* What a system call assumes and counts.
LEMMA CallCounts ==
    ASSUME ASInv, NEW p \in alive, Calls(p)
    PROVE  /\ pc = "run" /\ p \in Procs /\ mm[p] # NoMM
           /\ calls' = calls + 1 /\ calls' \in 0 .. MaxCalls /\ calls <= calls'
           /\ calls \in Nat
<1>1. /\ calls < MaxCalls /\ calls' = calls + 1 /\ pc = "run"
      /\ calls \in 0 .. MaxCalls /\ MaxCalls \in Nat
  BY AddressSpaceAssumption DEF Calls, ASInv, TypeOK, AddressSpaceAssumption
<1>2. p \in Procs /\ mm[p] # NoMM
  BY DEF ASInv, TypeOK, Populated
<1> QED BY <1>1, <1>2

\* No PCB for init.
LEMMA InitNoPcbStep ==
    ASSUME ASInv, init_userproc_no_pcb
    PROVE  ASInv' /\ Conserves /\ Restores
<1>1. /\ pc' = "dead" /\ pc = "init" /\ calls' = calls /\ alive' = alive
      /\ UNCHANGED <<free, mm, kernel, kstack_ptr, kstack_base, starved, remapped, orphaned>>
  BY DEF init_userproc_no_pcb
<1>2. calls' \in 0 .. MaxCalls /\ calls <= calls'
  BY <1>1 DEF ASInv, TypeOK
<1> QED BY <1>1, <1>2, QuietStep

\* A fork without PCB.
LEMMA ForkNoPcbStep ==
    ASSUME ASInv, NEW p \in alive, sys_fork_no_pcb(p)
    PROVE  ASInv' /\ Conserves /\ Restores
<1>1. /\ Calls(p) /\ pc' = "dead" /\ alive' = alive
      /\ UNCHANGED <<free, mm, kernel, kstack_ptr, kstack_base, starved, remapped, orphaned>>
  BY DEF sys_fork_no_pcb, CanFork
<1>2. pc = "run" /\ calls' \in 0 .. MaxCalls /\ calls <= calls'
  BY <1>1, CallCounts
<1> QED BY <1>1, <1>2, QuietStep

\* An exit.
LEMMA ExitStep ==
    ASSUME ASInv, NEW p \in alive, sys_exit(p)
    PROVE  ASInv' /\ Conserves /\ Restores
<1>1. /\ Calls(p) /\ pc' = pc /\ alive' \subseteq alive
      /\ UNCHANGED <<free, mm, kernel, kstack_ptr, kstack_base, starved, remapped, orphaned>>
  BY DEF sys_exit
<1>2. pc = "run" /\ calls' \in 0 .. MaxCalls /\ calls <= calls'
  BY <1>1, CallCounts
<1> QED BY <1>1, <1>2, QuietStep

\* A brk, whether it fails or not.
LEMMA BrkStep ==
    ASSUME ASInv, NEW p \in alive, NEW addr \in 1 .. MaxBrk, NEW k \in 0 .. 1, sys_brk(p, addr, k)
    PROVE  ASInv' /\ Conserves /\ Restores
<1>1. /\ Calls(p) /\ addr > mm[p].heap
      /\ UNCHANGED <<pc, alive, kernel, kstack_ptr, kstack_base, orphaned>>
  BY DEF sys_brk
<1>2. PICK d : d = Call(mm[p], k)
  OBVIOUS
<1>3. PICK c : /\ c = mm_map_range(d, mm[p].heap, addr - mm[p].heap) /\ free' = c.free
               /\ mm' = [mm EXCEPT ![p] = [c.mm EXCEPT !.heap = IF c.ok THEN addr ELSE mm[p].heap]]
               /\ ret' = Returned("brk", c.ok)
               /\ starved' = c.starved /\ remapped' = c.remapped
  BY <1>2 DEF sys_brk
<1>4. /\ pc = "run" /\ p \in Procs /\ mm[p] # NoMM
      /\ calls' \in 0 .. MaxCalls /\ calls <= calls'
  BY <1>1, CallCounts
<1>5. k \in Nat
  OBVIOUS
<1>6. /\ SoundCall(d) /\ Pool(d) = free \cup FramesOf(mm[p])
      /\ d.mm = mm[p] /\ d.starved = starved /\ d.remapped = remapped
  BY <1>2, <1>4, <1>5, CallStarts
<1>7. mm[p] \in Spaces /\ mm[p].heap \in Nat
  BY <1>4 DEF ASInv, TypeOK, MMs, Spaces
<1>8. PICK va, size : va = mm[p].heap /\ size = addr - mm[p].heap
  OBVIOUS
<1>9. va \in Nat /\ size \in Nat /\ addr \in Nat
  <2>1. addr \in Nat /\ addr > va
    BY <1>1, <1>8
  <2> QED BY <1>7, <1>8, <2>1
<1>10. RangeResult(d, c, PageRange(va, size), Vma(va, size))
  BY <1>3, <1>6, <1>8, <1>9, MapRange
<1>11. /\ SoundCall(c) /\ Pool(c) \subseteq Pool(d)
       /\ c.mm.slots = d.mm.slots
       /\ (d.starved => c.starved) /\ (d.remapped => c.remapped)
       /\ ~c.starved /\ ~c.remapped => Pool(d) \subseteq Pool(c)
       /\ ~c.ok /\ ~c.remapped => c.mm.pte = d.mm.pte
  BY <1>10 DEF RangeResult
<1>12. /\ c \in CallType /\ c.mm \in Spaces /\ SoundSpace(c.free, c.mm) /\ Covered(c.mm)
       /\ c.free \in SUBSET Frames /\ c.starved \in BOOLEAN /\ c.remapped \in BOOLEAN
       /\ c.ok \in BOOLEAN
  BY <1>11 DEF SoundCall, SoundSpace, CallType
<1>13. PICK h : h = IF c.ok THEN addr ELSE mm[p].heap
  OBVIOUS
<1>14. h \in Nat
  BY <1>7, <1>9, <1>13
<1>15. PICK s : s = [c.mm EXCEPT !.heap = h]
  OBVIOUS
<1>16. /\ s \in Spaces /\ s.pml4 = c.mm.pml4 /\ s.tables = c.mm.tables /\ s.pte = c.mm.pte
       /\ s.vmas = c.mm.vmas /\ s.slots = c.mm.slots
  BY <1>12, <1>14, <1>15 DEF Spaces
<1>17. mm' = [mm EXCEPT ![p] = s]
  BY <1>3, <1>13, <1>15
<1>18. SoundSpace(c.free, s) /\ Covered(s) /\ FramesOf(s) = FramesOf(c.mm)
  <2>1. SoundSpace(c.free, s)
    BY <1>12, <1>16 DEF SoundSpace
  <2>2. Covered(s)
    BY <1>12, <1>16 DEF Covered
  <2> QED BY <1>12, <1>16, <2>1, <2>2, FramesOfSpace
<1>19. Pool(c) = c.free \cup FramesOf(s)
  BY <1>18 DEF Pool
<1>21. ASInv' /\ Conserves
  <2>1. PICK f : f = c.free
    OBVIOUS
  <2>2. /\ f \in SUBSET Frames /\ SoundSpace(f, s) /\ Covered(s) /\ s.slots = mm[p].slots
        /\ f \cup FramesOf(s) \subseteq free \cup FramesOf(mm[p])
        /\ ~starved' /\ ~remapped' => free \cup FramesOf(mm[p]) \subseteq f \cup FramesOf(s)
        /\ free' = f
    BY <1>3, <1>6, <1>11, <1>12, <1>16, <1>18, <1>19, <2>1
  <2>3. /\ starved' \in BOOLEAN /\ remapped' \in BOOLEAN /\ (remapped => remapped')
        /\ pc' = pc
    BY <1>1, <1>3, <1>6, <1>11, <1>12
  <2> QED BY <1>1, <1>4, <1>17, <2>2, <2>3, ProcStep
<1>22. Restores
  <2>1. ret' = [call |-> "brk", value |-> IF c.ok THEN 0 ELSE -1]
    BY <1>3 DEF Returned
  <2>2. ret'.call = "brk" /\ (ret'.value = -1 => ~c.ok)
    BY <2>1
  <2>3. mm \in MMs
    BY DEF ASInv, TypeOK
  <2>4. mm'[p] = s /\ \A r \in Procs : r # p => mm'[r] = mm[r]
    BY <1>4, <1>17, <2>3 DEF MMs
  <2>5. SUFFICES ASSUME ret'.value = -1, ~remapped', NEW q \in Procs, mm[q] # NoMM
                 PROVE  mm'[q].pte = mm[q].pte
    BY <2>2 DEF Restores
  <2> QED BY <1>3, <1>6, <1>11, <1>16, <2>2, <2>4, <2>5
<1> QED BY <1>21, <1>22

\* An execve, whether it fails or not.
LEMMA ExecveStep ==
    ASSUME ASInv, NEW p \in alive, NEW prog \in Programs,
           NEW k \in Nat, do_execve(p, prog, k)
    PROVE  ASInv' /\ Conserves /\ Restores
<1>1. Calls(p) /\ UNCHANGED <<alive, kernel, kstack_ptr, kstack_base, orphaned>>
  BY DEF do_execve
<1>2. PICK d : d = Call(mm[p], k)
  OBVIOUS
<1>3. PICK c : /\ c = load_elf(d, prog) /\ free' = c.free /\ mm' = [mm EXCEPT ![p] = c.mm]
               /\ ret' = Returned("execve", c.ok)
               /\ pc' \in IF c.fault THEN {"dead"} ELSE {pc, "dead"}
               /\ starved' = c.starved /\ remapped' = c.remapped
  BY <1>2 DEF do_execve
<1>4. /\ pc = "run" /\ p \in Procs /\ mm[p] # NoMM
      /\ calls' \in 0 .. MaxCalls /\ calls <= calls'
  BY <1>1, CallCounts
<1>8. /\ SoundCall(d) /\ Pool(d) = free \cup FramesOf(mm[p]) /\ d.ok /\ ~d.fault
      /\ d.mm = mm[p] /\ d.starved = starved /\ d.remapped = remapped
  BY <1>2, <1>4, CallStarts
<1>9. Loading(d, c)
  BY <1>3, <1>8, LoadAll
<1>10. /\ SoundCall(c) /\ Pool(c) \subseteq Pool(d) /\ c.mm.slots = d.mm.slots
       /\ (d.starved => c.starved) /\ (d.remapped => c.remapped)
       /\ ~c.starved /\ ~c.remapped => Pool(d) \subseteq Pool(c)
       /\ ~c.remapped => Keeps(d.mm.pte, c.mm.pte)
  BY <1>9 DEF Loading
<1>11. /\ c \in CallType /\ SoundSpace(c.free, c.mm) /\ Covered(c.mm)
       /\ c.free \in SUBSET Frames /\ c.starved \in BOOLEAN /\ c.remapped \in BOOLEAN
       /\ c.ok \in BOOLEAN
  BY <1>10 DEF SoundCall, SoundSpace, CallType
<1>14. ASInv' /\ Conserves
  <2>1. PICK f, s : f = c.free /\ s = c.mm
    OBVIOUS
  <2>2. /\ f \in SUBSET Frames /\ SoundSpace(f, s) /\ Covered(s) /\ s.slots = mm[p].slots
        /\ f \cup FramesOf(s) \subseteq free \cup FramesOf(mm[p])
        /\ ~starved' /\ ~remapped' => free \cup FramesOf(mm[p]) \subseteq f \cup FramesOf(s)
        /\ free' = f
    BY <1>3, <1>8, <1>10, <1>11, <2>1 DEF Pool
  <2>3. /\ starved' \in BOOLEAN /\ remapped' \in BOOLEAN /\ (remapped => remapped')
        /\ pc' \in {"run", "dead"} /\ mm' = [mm EXCEPT ![p] = s]
    BY <1>3, <1>4, <1>8, <1>10, <1>11, <2>1
  <2> QED BY <1>1, <1>4, <2>2, <2>3, ProcStep
<1>15. Restores
  <2>1. ret'.call = "execve"
    BY <1>3 DEF Returned
  <2>2. mm \in MMs
    BY DEF ASInv, TypeOK
  <2>3. mm'[p] = c.mm /\ \A r \in Procs : r # p => mm'[r] = mm[r]
    BY <1>3, <1>4, <2>2 DEF MMs
  <2>4. SUFFICES ASSUME ~remapped', NEW q \in Procs, mm[q] # NoMM
                 PROVE  Keeps(mm[q].pte, mm'[q].pte)
    BY <2>1 DEF Restores
  <2>5. CASE q = p
    BY <1>3, <1>8, <1>10, <2>3, <2>4, <2>5
  <2>6. CASE q # p
    BY <2>3, <2>6 DEF Keeps
  <2> QED BY <2>5, <2>6
<1> QED BY <1>14, <1>15

\* The segments of a program can be counted.
LEMMA ProgramSegments == \A prog \in Programs : Len(prog.segs) \in Nat
<1>1. PICK S : S = Seq([va : Nat, size : Nat])
  OBVIOUS
<1>2. Programs \subseteq [segs : S, entry : Nat]
  BY <1>1, AddressSpaceAssumption DEF AddressSpaceAssumption
<1>3. \A prog \in Programs : prog.segs \in S
  BY <1>2
<1> QED BY <1>1, <1>3

\* So can those of init.
LEMMA InitSegments == Len(InitProgram.segs) \in Nat
BY ProgramSegments, AddressSpaceAssumption DEF AddressSpaceAssumption

\* A new process, from call c, and its kernel stack w.
LEMMA NewProcStep ==
    ASSUME ASInv, pc' \in {"run", "dead"}, NEW q \in Procs, mm[q] = NoMM,
           NEW c, SoundCall(c), Pool(c) \subseteq free,
           ~c.starved /\ ~c.remapped => free \subseteq Pool(c),
           c.mm.slots = TopSlot, KernelSlots = TopSlot,
           remapped => c.remapped, remapped' = c.remapped,
           NEW n \in Nat, n < MaxCalls + 2, kstack_ptr <= n * (KSTACK_PAGES + 1),
           calls' \in 0 .. MaxCalls, n + 1 <= calls' + 2,
           NEW w, w = kstack_init(c.free), StackMapped(w), starved' = (c.starved \/ w.starved),
           \/ /\ w.failed /\ free' = mm_free(w.free, c.mm)
              /\ mm' = mm /\ kstack_base' = kstack_base /\ alive' \subseteq alive
           \/ /\ ~w.failed /\ free' = w.free /\ mm' = [mm EXCEPT ![q] = c.mm]
              /\ kstack_base' = [kstack_base EXCEPT ![q] = kstack_ptr + 1]
              /\ alive' \subseteq alive \cup {q}
    PROVE  ASInv' /\ Conserves /\ Restores
<1>1. /\ TypeOK /\ Apart(free, mm, kernel) /\ Slots /\ Populated
      /\ mm \in MMs /\ Sound(free, kernel.tables, kernel.pte)
  BY DEF ASInv, TypeOK, Apart
<1>2. /\ c \in CallType /\ SoundSpace(c.free, c.mm) /\ Covered(c.mm) /\ c.mm \in Spaces
      /\ c.free \in SUBSET Frames /\ c.starved \in BOOLEAN /\ c.remapped \in BOOLEAN
  BY DEF SoundCall, SoundSpace, CallType
<1>3. c.mm # NoMM /\ FramesOf(c.mm) \subseteq Frames
  BY <1>2, FramesOfSpace, SpaceInFrames
<1>4. PICK f : f = c.free
  OBVIOUS
<1>5. f \in SUBSET Frames /\ f \subseteq free /\ Sound(f, kernel.tables, kernel.pte)
  <2>1. f \in SUBSET Frames /\ f \subseteq free
    BY <1>2, <1>4 DEF Pool
  <2> QED BY <1>1, <2>1 DEF Sound
<1>6. Stacks(pc', calls') \in Nat /\ n + 1 <= Stacks(pc', calls')
  <2>1. Stacks(pc', calls') = calls' + 2
    BY DEF Stacks
  <2>2. PICK x, t : x = calls' /\ t = Stacks(pc', calls')
    OBVIOUS
  <2>3. MaxCalls \in Nat
    BY AddressSpaceAssumption DEF AddressSpaceAssumption
  <2>4. x \in 0 .. MaxCalls /\ n + 1 <= x + 2 /\ t = x + 2
    BY <2>1, <2>2
  <2>5. t \in Nat /\ n + 1 <= t
    BY ONLY <2>3, <2>4, n \in Nat
  <2> QED BY <2>2, <2>5
<1>7. /\ StackArea' /\ kernel' \in KernelType /\ kstack_ptr' \in Nat
      /\ kstack_base' \in [Procs -> Nat] /\ orphaned' \in BOOLEAN
      /\ orphaned' = (orphaned \/ w.failed)
      /\ w.free \in SUBSET Frames /\ Sound(w.free, kernel'.tables, kernel'.pte)
      /\ w.starved \in BOOLEAN /\ w.failed \in BOOLEAN
      /\ w.free \cup KernelFrames(kernel') \subseteq f \cup KernelFrames(kernel)
      /\ ~w.starved => f \cup KernelFrames(kernel) \subseteq w.free \cup KernelFrames(kernel')
      /\ KernelSlots \subseteq KernelSlots' /\ KernelSlots' \subseteq TopSlot
      /\ f = {} => w.failed
  <2>1. w = kstack_init(f)
    BY <1>4
  <2>2. \/ kstack_base' = kstack_base
        \/ \E r \in Procs : kstack_base' = [kstack_base EXCEPT ![r] = kstack_ptr + 1]
    OBVIOUS
  <2> QED BY <1>5, <1>6, <2>1, <2>2, StackStep
<1>8. PICK e, m, k, g, l, x : /\ e = free /\ m = mm /\ k = kernel /\ g = w.free /\ l = kernel'
                             /\ x = [m EXCEPT ![q] = c.mm]
  OBVIOUS
<1>9. /\ m \in MMs /\ Apart(e, m, k) /\ m[q] = NoMM /\ Pool(c) \subseteq e
      /\ Sound(g, l.tables, l.pte)
      /\ g \cup KernelFrames(l) \subseteq c.free \cup KernelFrames(k)
  BY <1>1, <1>4, <1>7, <1>8
<1>10. /\ Apart(g, x, l)
       /\ Apart(mm_free(g, c.mm), m, l)
       /\ e = Pool(c) /\ g \cup KernelFrames(l) = c.free \cup KernelFrames(k) =>
            Total(g, x, l) = Total(e, m, k)
  <2>1. /\ x \in MMs /\ x[q] = c.mm /\ \A p \in Procs : p # q => x[p] = m[p]
        /\ SoundCall(c) /\ q \in Procs
    BY <1>2, <1>8, <1>9 DEF MMs
  <2> QED BY ONLY <1>9, <2>1, ForkApart
<1>11. /\ Apart(free', mm', kernel')
       /\ \A p \in Procs : p # q => mm'[p] = mm[p]
       /\ mm'[q] = NoMM \/ (mm'[q] = c.mm /\ ~w.failed)
       /\ mm' \in MMs /\ free' \in SUBSET Frames
       /\ alive' \subseteq alive \cup {q} /\ (mm'[q] = NoMM => alive' \subseteq alive)
  <2>1. CASE w.failed
    <3>1. mm_free(w.free, c.mm) \subseteq Frames
      BY <1>3, <1>7, FreeAll
    <3> QED BY <1>1, <1>8, <1>10, <2>1, <3>1
  <2>2. CASE ~w.failed
    <3>1. mm'[q] = c.mm /\ mm' \in MMs /\ \A p \in Procs : p # q => mm'[p] = mm[p]
      BY <1>1, <1>2, <2>2 DEF MMs
    <3> QED BY <1>3, <1>7, <1>8, <1>10, <2>2, <3>1
  <2> QED BY <1>7, <2>1, <2>2
<1>12. TypeOK'
  <2>1. starved' \in BOOLEAN /\ remapped' \in BOOLEAN /\ alive' \in SUBSET Procs
    BY <1>1, <1>2, <1>11 DEF TypeOK
  <2> QED BY <1>7, <1>11, <2>1 DEF TypeOK
<1>13. Slots'
  <2>1. KernelSlots' = TopSlot
    BY <1>7
  <2>2. ASSUME NEW p \in Procs, mm'[p] # NoMM PROVE mm'[p].slots = TopSlot
    <3>1. CASE p = q
      BY <1>11, <2>2, <3>1
    <3>2. CASE p # q
      BY <1>1, <1>11, <2>2, <3>2 DEF Slots
    <3> QED BY <3>1, <3>2
  <2> QED BY <2>1, <2>2 DEF Slots
<1>14. Populated'
  <2>1. ASSUME NEW p \in alive' PROVE mm'[p] # NoMM
    <3>1. CASE p = q
      <4>1. q \notin alive
        BY <1>1 DEF Populated
      <4> QED BY <1>3, <1>11, <2>1, <3>1, <4>1
    <3>2. CASE p # q
      <4>1. p \in alive /\ p \in Procs
        BY <1>1, <1>11, <2>1, <3>2 DEF TypeOK
      <4> QED BY <1>1, <1>11, <3>2, <4>1 DEF Populated
    <3> QED BY <3>1, <3>2
  <2> QED BY <2>1 DEF Populated
<1>16. Conserves
  <2>1. SUFFICES ASSUME ~starved', ~remapped', ~orphaned'
                 PROVE  Total(free', mm', kernel') = Total(free, mm, kernel)
    BY DEF Conserves
  <2>2. ~w.failed /\ ~w.starved /\ ~c.starved /\ ~c.remapped
    BY <1>7, <2>1
  <2>3. e = Pool(c) /\ g \cup KernelFrames(l) = c.free \cup KernelFrames(k)
    BY <1>4, <1>7, <1>8, <2>2
  <2>4. free' = g /\ mm' = x /\ kernel' = l
    BY <1>8, <2>2
  <2> QED BY <1>8, <1>10, <2>3, <2>4
<1>17. Restores
  BY <1>11, UnchangedRestores
<1> QED BY <1>7, <1>11, <1>12, <1>13, <1>14, <1>16, <1>17 DEF ASInv

\* A fork that found no memory for the address space.
LEMMA ForkNoMMStep ==
    ASSUME ASInv, NEW p \in alive, NEW k \in Nat, sys_fork_no_mm(p, k)
    PROVE  ASInv' /\ Conserves /\ Restores
<1>1. PICK c : /\ c = Copied(p, k) /\ free' = mm_free(c.free, c.mm)
               /\ starved' = c.starved /\ remapped' = c.remapped
  BY DEF sys_fork_no_mm
<1>2. Calls(p) /\ UNCHANGED <<pc, mm, alive, kernel, kstack_ptr, kstack_base, orphaned>>
  BY DEF sys_fork_no_mm, CanFork
<1>3. /\ pc = "run" /\ p \in Procs /\ mm[p] # NoMM
      /\ calls' \in 0 .. MaxCalls /\ calls <= calls'
  BY <1>2, CallCounts
<1>4. /\ c.starved \in BOOLEAN /\ c.remapped \in BOOLEAN
      /\ (remapped => c.remapped)
      /\ Pool(c) \subseteq free
      /\ ~c.starved /\ ~c.remapped => free \subseteq Pool(c)
  BY <1>1, <1>3, ForkCopies
<1>5. free' = Pool(c)
  BY <1>1, FreeAll DEF Pool
<1> QED BY <1>1, <1>2, <1>3, <1>4, <1>5, ReleaseStep

\* No init, for want of memory or in the fault of its loading.
LEMMA InitFailsStep ==
    ASSUME ASInv, NEW k \in Nat, init_userproc_fails(k)
    PROVE  ASInv' /\ Conserves /\ Restores
<1>1. PICK c : /\ c = InitLoaded(k) /\ (~c.ok \/ c.fault)
               /\ free' = IF c.fault THEN c.free ELSE mm_free(c.free, c.mm)
               /\ mm' = IF c.fault THEN [mm EXCEPT ![1] = c.mm] ELSE mm
               /\ starved' = c.starved /\ remapped' = c.remapped
  BY DEF init_userproc_fails
<1>2. /\ pc = "init" /\ pc' = "dead"
      /\ UNCHANGED <<alive, kernel, kstack_ptr, kstack_base, calls, ret, orphaned>>
  BY DEF init_userproc_fails
<1>3. /\ c.starved \in BOOLEAN /\ c.remapped \in BOOLEAN
      /\ (remapped => c.remapped)
      /\ Pool(c) \subseteq free
      /\ ~c.starved /\ ~c.remapped => free \subseteq Pool(c)
      /\ \/ ~c.ok /\ ~c.fault /\ c.mm = NoMM /\ c.free = free
         \/ SoundCall(c) /\ c.mm.slots = KernelSlots /\ free # {}
  BY <1>1, InitLoads
<1>4. calls' \in 0 .. MaxCalls /\ calls <= calls' /\ calls \in Nat
  BY <1>2, AddressSpaceAssumption DEF ASInv, TypeOK, AddressSpaceAssumption
<1>5. CASE ~c.fault
  <2>1. free' = Pool(c) /\ mm' = mm
    BY <1>1, <1>5, FreeAll DEF Pool
  <2> QED BY <1>1, <1>2, <1>3, <1>4, <2>1, ReleaseStep
<1>6. CASE c.fault
  <2>1. PICK q : q = 1
    OBVIOUS
  <2>2. /\ SoundCall(c) /\ c.mm.slots = KernelSlots /\ free # {}
        /\ free' = c.free /\ mm' = [mm EXCEPT ![q] = c.mm]
        /\ q \in Procs
    BY <1>1, <1>3, <1>6, <2>1, AddressSpaceAssumption DEF AddressSpaceAssumption
  <2>3. /\ mm \in MMs /\ \A p \in Procs : mm[p] = NoMM
        /\ Apart(free, mm, kernel) /\ KernelSlots = TopSlot
    BY <1>2, <2>2 DEF ASInv, TypeOK, Populated, Slots
  <2>4. /\ SoundSpace(c.free, c.mm) /\ Covered(c.mm) /\ c.mm \in Spaces
        /\ c.free \in SUBSET Frames
    BY <2>2 DEF SoundCall, SoundSpace, CallType
  <2>5. /\ mm'[q] = c.mm /\ c.mm # NoMM /\ mm' \in MMs
        /\ \A p \in Procs : p # q => mm'[p] = mm[p]
    BY <2>2, <2>3, <2>4, FramesOfSpace DEF MMs
  <2>6. TypeOK'
    BY <1>1, <1>2, <1>3, <2>2, <2>4, <2>5 DEF ASInv, TypeOK
  <2>7. PICK e, m, x, l, g, s : /\ e = free /\ m = mm /\ x = mm' /\ l = kernel
                                /\ g = c.free /\ s = c.mm
    OBVIOUS
  <2>8. FramesOf(m[q]) = {} /\ m \in MMs
    BY <2>2, <2>3, <2>7 DEF FramesOf
  <2>9. Apart(free', mm', kernel')
    <3>1. /\ Apart(e, m, l) /\ SoundSpace(g, s) /\ Covered(s)
          /\ g \cup FramesOf(s) \subseteq e \cup FramesOf(m[q])
      BY <1>3, <2>3, <2>4, <2>7 DEF Pool
    <3>2. Apart(g, [m EXCEPT ![q] = s], l)
      BY <2>2, <2>8, <3>1, ApartProc
    <3> QED BY <1>2, <2>2, <2>7, <3>2
  <2>10. Conserves
    <3>1. SUFFICES ASSUME ~starved', ~remapped' PROVE Total(g, x, l) = Total(e, m, l)
      BY <1>2, <2>2, <2>7 DEF Conserves
    <3>2. Exchanges(e, m, g, x, q)
      BY <1>1, <1>3, <2>5, <2>7, <2>8, <3>1 DEF Exchanges, Pool
    <3> QED BY <2>2, <3>2, TotalProc
  <2>11. StackArea'
    <3>1. PICK a : a = calls
      OBVIOUS
    <3>2. a \in Nat /\ Stacks(pc, calls) = 1 /\ Stacks(pc', calls') = a + 2
      BY <1>2, <1>4, <3>1 DEF Stacks
    <3>3. /\ Stacks(pc, calls) \in Nat /\ Stacks(pc', calls') \in Nat
          /\ Stacks(pc, calls) <= Stacks(pc', calls')
      BY <3>2
    <3> QED BY <1>2, <3>3, StacksMore DEF ASInv
  <2>12. Slots'
    BY <1>2, <2>2, <2>3, <2>5 DEF Slots, KernelSlots
  <2>13. Populated'
    <3>1. alive = {}
      BY <2>3 DEF Populated, ASInv, TypeOK
    <3> QED BY <1>2, <3>1 DEF Populated
  <2>14. Restores
    BY <1>2 DEF Restores
  <2> QED BY <2>6, <2>9, <2>10, <2>11, <2>12, <2>13, <2>14 DEF ASInv
<1> QED BY <1>5, <1>6

\* The first process, and its kernel stack or a failure to make it.
LEMMA InitStep ==
    ASSUME ASInv, init_userproc
    PROVE  ASInv' /\ Conserves /\ Restores
<1>1. PICK k : k = Len(InitProgram.segs) + 2
  OBVIOUS
<1>2. k \in Nat
  BY <1>1, InitSegments
<1>3. PICK q, n : q = 1 /\ n = 1
  OBVIOUS
<1>4. PICK c : /\ c = InitLoaded(k)
               /\ \E w \in {kstack_init(c.free)} :
                    /\ c.ok /\ ~c.fault
                    /\ StackMapped(w)
                    /\ starved' = (c.starved \/ w.starved)
                    /\ remapped' = c.remapped
                    /\ free' = IF w.failed THEN mm_free(w.free, c.mm) ELSE w.free
                    /\ mm' = IF w.failed THEN mm ELSE [mm EXCEPT ![q] = c.mm]
                    /\ kstack_base' = IF w.failed THEN kstack_base
                                      ELSE [kstack_base EXCEPT ![q] = kstack_ptr + 1]
                    /\ alive' = IF w.failed THEN {} ELSE {q}
                    /\ pc' = IF StackUsable(w) THEN "run" ELSE "dead"
  BY <1>1, <1>3 DEF init_userproc
<1>5. PICK w : /\ w = kstack_init(c.free) /\ c.ok /\ ~c.fault /\ StackMapped(w)
               /\ starved' = (c.starved \/ w.starved) /\ remapped' = c.remapped
               /\ free' = IF w.failed THEN mm_free(w.free, c.mm) ELSE w.free
               /\ mm' = IF w.failed THEN mm ELSE [mm EXCEPT ![q] = c.mm]
               /\ kstack_base' = IF w.failed THEN kstack_base
                                 ELSE [kstack_base EXCEPT ![q] = kstack_ptr + 1]
               /\ alive' = IF w.failed THEN {} ELSE {q}
               /\ pc' = IF StackUsable(w) THEN "run" ELSE "dead"
  BY <1>4
<1>6. pc = "init" /\ calls' = calls
  BY DEF init_userproc
<1>7. /\ (remapped => c.remapped) /\ Pool(c) \subseteq free
      /\ ~c.starved /\ ~c.remapped => free \subseteq Pool(c)
      /\ SoundCall(c) /\ c.mm.slots = KernelSlots /\ free # {}
  BY <1>2, <1>4, <1>5, InitLoads
<1>8. /\ \A p \in Procs : mm[p] = NoMM
      /\ KernelSlots = TopSlot /\ q \in Procs
  BY <1>3, <1>6, <1>7, AddressSpaceAssumption DEF ASInv, Populated, Slots, AddressSpaceAssumption
<1>9. /\ calls' \in 0 .. MaxCalls /\ n \in Nat /\ n < MaxCalls + 2 /\ n + 1 <= calls' + 2
  BY <1>3, <1>6, AddressSpaceAssumption DEF ASInv, TypeOK, AddressSpaceAssumption
<1>10. kstack_ptr <= n * (KSTACK_PAGES + 1)
  BY <1>3, <1>6 DEF ASInv, StackArea, Stacks
<1>11. pc' \in {"run", "dead"} /\ mm[q] = NoMM /\ c.mm.slots = TopSlot
  BY <1>5, <1>7, <1>8
<1>12. \/ /\ w.failed /\ free' = mm_free(w.free, c.mm)
          /\ mm' = mm /\ kstack_base' = kstack_base /\ alive' \subseteq alive
       \/ /\ ~w.failed /\ free' = w.free /\ mm' = [mm EXCEPT ![q] = c.mm]
          /\ kstack_base' = [kstack_base EXCEPT ![q] = kstack_ptr + 1]
          /\ alive' \subseteq alive \cup {q}
  BY <1>5
<1> QED BY <1>5, <1>7, <1>8, <1>9, <1>10, <1>11, <1>12, NewProcStep

\* A fork that found memory for the address space.
LEMMA ForkStep ==
    ASSUME ASInv, NEW p \in alive, sys_fork(p)
    PROVE  ASInv' /\ Conserves /\ Restores
<1>1. PICK k, q, n : k = Len(mm[p].vmas) + 1 /\ q = NewProc /\ n = calls + 2
  OBVIOUS
<1>2. PICK c : /\ c = Copied(p, k)
               /\ \E w \in {kstack_init(c.free)} :
                    /\ c.ok
                    /\ StackMapped(w)
                    /\ starved' = (c.starved \/ w.starved)
                    /\ remapped' = c.remapped
                    /\ \/ /\ w.failed
                          /\ free' = mm_free(w.free, c.mm)
                          /\ ret' = Returned("fork", FALSE)
                          /\ UNCHANGED <<pc, mm, alive, kstack_base>>
                       \/ /\ ~w.failed
                          /\ free' = w.free
                          /\ mm' = [mm EXCEPT ![q] = c.mm]
                          /\ kstack_base' = [kstack_base EXCEPT ![q] = kstack_ptr + 1]
                          /\ alive' = alive \cup {q}
                          /\ ret' = Returned("fork", TRUE)
                          /\ pc' = IF StackUsable(w) THEN pc ELSE "dead"
  BY <1>1 DEF sys_fork
<1>3. PICK w : /\ w = kstack_init(c.free) /\ c.ok /\ StackMapped(w)
               /\ starved' = (c.starved \/ w.starved) /\ remapped' = c.remapped
               /\ \/ /\ w.failed
                     /\ free' = mm_free(w.free, c.mm)
                     /\ UNCHANGED <<pc, mm, alive, kstack_base>>
                  \/ /\ ~w.failed
                     /\ free' = w.free
                     /\ mm' = [mm EXCEPT ![q] = c.mm]
                     /\ kstack_base' = [kstack_base EXCEPT ![q] = kstack_ptr + 1]
                     /\ alive' = alive \cup {q}
                     /\ pc' \in {pc, "dead"}
  BY <1>2
<1>4. Calls(p) /\ \E r \in Procs : mm[r] = NoMM
  BY DEF sys_fork, CanFork
<1>5. /\ pc = "run" /\ p \in Procs /\ mm[p] # NoMM
      /\ calls' = calls + 1 /\ calls' \in 0 .. MaxCalls /\ calls \in Nat
  BY <1>4, CallCounts
<1>6. k \in Nat
  <2>1. mm[p] \in Spaces
    BY <1>5 DEF ASInv, TypeOK, MMs
  <2>2. mm[p].vmas \in Seq(VmaType)
    BY <2>1 DEF Spaces
  <2> QED BY <1>1, <2>2
<1>7. /\ (remapped => c.remapped) /\ Pool(c) \subseteq free
      /\ ~c.starved /\ ~c.remapped => free \subseteq Pool(c)
      /\ SoundCall(c) /\ c.mm.slots = KernelSlots
      /\ c.free # {} => DOMAIN mm[p].pte \subseteq DOMAIN c.mm.pte
  BY <1>2, <1>3, <1>5, <1>6, ForkCopies
<1>8. KernelSlots = TopSlot
  BY <1>5 DEF ASInv, Slots
<1>9. q \in Procs /\ mm[q] = NoMM
  <2>1. PICK S : S = {r \in Procs : mm[r] = NoMM}
    OBVIOUS
  <2>2. S \in SUBSET Nat /\ S # {}
    BY <1>4, <2>1, AddressSpaceAssumption DEF AddressSpaceAssumption
  <2>3. Min(S) \in S
    <3>1. PICK x \in S : \A y \in S : x <= y
      BY <2>2, LeastNatural
    <3> QED BY <3>1 DEF Min
  <2> QED BY <1>1, <2>1, <2>3 DEF NewProc
<1>10. n \in Nat /\ n < MaxCalls + 2 /\ n + 1 <= calls' + 2
  <2>1. MaxCalls \in Nat
    BY AddressSpaceAssumption DEF AddressSpaceAssumption
  <2> QED BY <1>1, <1>5, <2>1
<1>11. kstack_ptr <= n * (KSTACK_PAGES + 1)
  BY <1>1, <1>5 DEF ASInv, StackArea, Stacks
<1>12. pc' \in {"run", "dead"} /\ c.mm.slots = TopSlot
  BY <1>3, <1>5, <1>7, <1>8
<1>15. \/ /\ w.failed /\ free' = mm_free(w.free, c.mm)
          /\ mm' = mm /\ kstack_base' = kstack_base /\ alive' \subseteq alive
       \/ /\ ~w.failed /\ free' = w.free /\ mm' = [mm EXCEPT ![q] = c.mm]
          /\ kstack_base' = [kstack_base EXCEPT ![q] = kstack_ptr + 1]
          /\ alive' \subseteq alive \cup {q}
  BY <1>3
<1> QED BY <1>3, <1>5, <1>7, <1>8, <1>9, <1>10, <1>11, <1>12, <1>15, NewProcStep

-----------------------------------------------------------------------------
(* The invariant holds.                                                    *)

\* The initial states.
LEMMA InitInv ==
    ASSUME Init
    PROVE  ASInv
<1>1. PICK n \in 0 .. MaxFrames : free = 1 .. n
  BY DEF Init
<1>2. /\ pc = "mm_init" /\ mm = [p \in Procs |-> NoMM] /\ alive = {}
      /\ kernel = [tables |-> Empty, pte |-> Empty] /\ kstack_ptr = 0
      /\ kstack_base = [p \in Procs |-> 0] /\ calls = 0
      /\ starved = FALSE /\ remapped = FALSE /\ orphaned = FALSE
  BY DEF Init
<1>3. free \in SUBSET Frames
  <2>1. MaxFrames \in Nat
    BY AddressSpaceAssumption DEF AddressSpaceAssumption
  <2> QED BY <1>1, <2>1 DEF Frames
<1>4. /\ Empty \in Maps(Nodes) /\ Empty \in Maps(Nat) /\ DOMAIN Empty = {}
      /\ kernel.tables = Empty /\ kernel.pte = Empty
  <2>1. \A D : Empty \in Maps(D) /\ DOMAIN Empty = {}
    BY EmptyMap
  <2> QED BY <1>2, <2>1
<1>5. mm \in MMs /\ \A p \in Procs : mm[p] = NoMM
  BY <1>2 DEF MMs
<1>6. MaxCalls \in Nat /\ KSTACK_PAGES \in Nat
  BY AddressSpaceAssumption DEF AddressSpaceAssumption
<1>7. kernel \in KernelType
  BY <1>2, <1>4 DEF KernelType
<1>8. TypeOK
  <2>1. starved \in BOOLEAN /\ remapped \in BOOLEAN /\ orphaned \in BOOLEAN
    BY <1>2
  <2>2. kstack_ptr \in Nat /\ kstack_base \in [Procs -> Nat] /\ calls \in 0 .. MaxCalls
    BY <1>2, <1>6
  <2>3. pc \in {"mm_init", "init", "run", "dead"} /\ alive \in SUBSET Procs
    BY <1>2
  <2> QED BY <1>3, <1>5, <1>7, <2>1, <2>2, <2>3 DEF TypeOK
<1>9. Apart(free, mm, kernel)
  <2>1. Sound(free, kernel.tables, kernel.pte)
    BY <1>4 DEF Sound
  <2>2. \A p \in Procs : FramesOf(mm[p]) = {}
    BY <1>5 DEF FramesOf
  <2> QED BY <1>5, <2>1, <2>2 DEF Apart
<1>10. StackArea
  BY <1>2, <1>4, <1>6 DEF StackArea, Stacks
<1>11. Slots
  BY <1>2, <1>4, <1>5 DEF Slots, KernelSlots
<1>12. Populated
  BY <1>2, <1>5 DEF Populated
<1> QED BY <1>8, <1>9, <1>10, <1>11, <1>12 DEF ASInv

\* Every step.
LEMMA StepInv ==
    ASSUME ASInv, [Next]_vars
    PROVE  ASInv' /\ Conserves /\ Restores
<1>1. CASE UNCHANGED vars
  <2>1. UNCHANGED <<pc, free, mm, alive, kernel, kstack_ptr, kstack_base, calls, starved,
                    remapped, orphaned>>
    BY <1>1 DEF vars
  <2>2. ASInv'
    <3>1. TypeOK' /\ Apart(free', mm', kernel')
      BY <2>1 DEF ASInv, TypeOK
    <3>2. StackArea' /\ Slots'
      BY <2>1 DEF ASInv, StackArea, Slots, KernelSlots
    <3>3. Populated'
      BY <2>1 DEF ASInv, Populated
    <3> QED BY <3>1, <3>2, <3>3 DEF ASInv
  <2>3. Conserves /\ Restores
    BY <2>1, UnchangedRestores DEF Conserves
  <2> QED BY <2>2, <2>3
<1>2. CASE Next
  <2>1. \/ mm_init \/ init_userproc_no_pcb \/ init_userproc
        \/ \E k \in 0 .. Len(InitProgram.segs) + 2 : init_userproc_fails(k)
        \/ \E p \in alive :
             \/ sys_fork_no_pcb(p) \/ sys_fork(p) \/ sys_exit(p)
             \/ \E k \in 0 .. Len(mm[p].vmas) + 1 : sys_fork_no_mm(p, k)
             \/ \E addr \in 1 .. MaxBrk, k \in 0 .. 1 : sys_brk(p, addr, k)
             \/ \E prog \in Programs : \E k \in 0 .. Len(prog.segs) : do_execve(p, prog, k)
        \/ UNCHANGED vars
    BY <1>2 DEF Next, Halted
  <2>2. CASE mm_init
    BY <2>2, MMInitStep
  <2>3. CASE init_userproc_no_pcb
    BY <2>3, InitNoPcbStep
  <2>4. CASE init_userproc
    BY <2>4, InitStep
  <2>5. ASSUME NEW k \in 0 .. Len(InitProgram.segs) + 2, init_userproc_fails(k)
        PROVE  ASInv' /\ Conserves /\ Restores
    <3>1. k \in Nat
      BY InitSegments
    <3> QED BY <2>5, <3>1, InitFailsStep
  <2>6. ASSUME NEW p \in alive, sys_fork_no_pcb(p) PROVE ASInv' /\ Conserves /\ Restores
    BY <2>6, ForkNoPcbStep
  <2>7. ASSUME NEW p \in alive, sys_fork(p) PROVE ASInv' /\ Conserves /\ Restores
    BY <2>7, ForkStep
  <2>8. ASSUME NEW p \in alive, sys_exit(p) PROVE ASInv' /\ Conserves /\ Restores
    BY <2>8, ExitStep
  <2>9. ASSUME NEW p \in alive, NEW k \in 0 .. Len(mm[p].vmas) + 1, sys_fork_no_mm(p, k)
        PROVE  ASInv' /\ Conserves /\ Restores
    <3>1. mm[p] \in Spaces
      BY DEF ASInv, TypeOK, Populated, MMs
    <3>2. mm[p].vmas \in Seq(VmaType)
      BY <3>1 DEF Spaces
    <3>3. k \in Nat
      BY <3>2
    <3> QED BY <2>9, <3>3, ForkNoMMStep
  <2>10. ASSUME NEW p \in alive, NEW addr \in 1 .. MaxBrk, NEW k \in 0 .. 1, sys_brk(p, addr, k)
         PROVE  ASInv' /\ Conserves /\ Restores
    BY <2>10, BrkStep
  <2>11. ASSUME NEW p \in alive, NEW prog \in Programs,
                NEW k \in 0 .. Len(prog.segs), do_execve(p, prog, k)
         PROVE  ASInv' /\ Conserves /\ Restores
    <3>1. k \in Nat
      BY ProgramSegments
    <3> QED BY <2>11, <3>1, ExecveStep
  <2> QED BY <1>1, <2>1, <2>2, <2>3, <2>4, <2>5, <2>6, <2>7, <2>8, <2>9, <2>10, <2>11
<1> QED BY <1>1, <1>2

\* In every reachable state the free frames, the address spaces and the
\* kernel share no frame, and the conditions hold that keep it so.
THEOREM AddressSpaceInvariant == Spec => []ASInv
<1>1. Init => ASInv
  BY InitInv
<1>2. ASInv /\ [Next]_vars => ASInv'
  BY StepInv
<1> QED BY <1>1, <1>2, PTL DEF Spec

-----------------------------------------------------------------------------
(* The properties.                                                         *)

\* A use of a frame by the kernel k.
KernelUse(k, u) ==
    \/ \E n \in DOMAIN k.tables : u = <<0, n, k.tables[n]>>
    \/ \E q \in DOMAIN k.pte : u = <<0, <<0, q>>, k.pte[q]>>

\* A use of a frame by process p with the address space m.
SpaceUse(p, m, u) ==
    /\ m # NoMM
    /\ \/ u = <<p, <<4, 0>>, m.pml4>>
       \/ \E n \in DOMAIN m.tables : u = <<p, n, m.tables[n]>>
       \/ \E q \in DOMAIN m.pte : u = <<p, <<0, q>>, m.pte[q]>>

\* A use is one by the kernel or by a process.
LEMMA UseKinds ==
    \A u : u \in Uses <=> (KernelUse(kernel, u) \/ \E p \in Procs : SpaceUse(p, mm[p], u))
BY DEF Uses, KernelUse, SpaceUse

\* The frames with a use by the kernel are the kernel's.
LEMMA UsedByKernel ==
    ASSUME NEW k
    PROVE  /\ \A u : KernelUse(k, u) => u[3] \in KernelFrames(k)
           /\ \A x \in KernelFrames(k) : \E u : KernelUse(k, u) /\ u[3] = x
<1>1. ASSUME NEW u, KernelUse(k, u) PROVE u[3] \in KernelFrames(k)
  BY <1>1 DEF KernelUse, KernelFrames, Range
<1>2. ASSUME NEW x \in KernelFrames(k) PROVE \E u : KernelUse(k, u) /\ u[3] = x
  <2>1. \/ \E n \in DOMAIN k.tables : x = k.tables[n]
        \/ \E q \in DOMAIN k.pte : x = k.pte[q]
    BY <1>2 DEF KernelFrames, Range
  <2>2. ASSUME NEW n \in DOMAIN k.tables, x = k.tables[n] PROVE \E u : KernelUse(k, u) /\ u[3] = x
    <3>1. PICK u : u = <<0, n, k.tables[n]>>
      OBVIOUS
    <3> QED BY <2>2, <3>1 DEF KernelUse
  <2>3. ASSUME NEW q \in DOMAIN k.pte, x = k.pte[q] PROVE \E u : KernelUse(k, u) /\ u[3] = x
    <3>1. PICK u : u = <<0, <<0, q>>, k.pte[q]>>
      OBVIOUS
    <3> QED BY <2>3, <3>1 DEF KernelUse
  <2> QED BY <2>1, <2>2, <2>3
<1> QED BY <1>1, <1>2

\* The frames with a use by a process are those of its address space.
LEMMA UsedBySpace ==
    ASSUME NEW p, NEW m
    PROVE  /\ \A u : SpaceUse(p, m, u) => u[3] \in FramesOf(m)
           /\ \A x \in FramesOf(m) : \E u : SpaceUse(p, m, u) /\ u[3] = x
<1>1. ASSUME NEW u, SpaceUse(p, m, u) PROVE u[3] \in FramesOf(m)
  BY <1>1 DEF SpaceUse, FramesOf, Range
<1>2. ASSUME NEW x \in FramesOf(m) PROVE \E u : SpaceUse(p, m, u) /\ u[3] = x
  <2>1. /\ m # NoMM
        /\ \/ x = m.pml4
           \/ \E n \in DOMAIN m.tables : x = m.tables[n]
           \/ \E q \in DOMAIN m.pte : x = m.pte[q]
    BY <1>2 DEF FramesOf, Range
  <2>2. CASE x = m.pml4
    <3>1. PICK u : u = <<p, <<4, 0>>, m.pml4>>
      OBVIOUS
    <3> QED BY <2>1, <2>2, <3>1 DEF SpaceUse
  <2>3. ASSUME NEW n \in DOMAIN m.tables, x = m.tables[n]
        PROVE  \E u : SpaceUse(p, m, u) /\ u[3] = x
    <3>1. PICK u : u = <<p, n, m.tables[n]>>
      OBVIOUS
    <3> QED BY <2>1, <2>3, <3>1 DEF SpaceUse
  <2>4. ASSUME NEW q \in DOMAIN m.pte, x = m.pte[q]
        PROVE  \E u : SpaceUse(p, m, u) /\ u[3] = x
    <3>1. PICK u : u = <<p, <<0, q>>, m.pte[q]>>
      OBVIOUS
    <3> QED BY <2>1, <2>4, <3>1 DEF SpaceUse
  <2> QED BY <2>1, <2>2, <2>3, <2>4
<1> QED BY <1>1, <1>2

\* A frame tells its use.
LEMMA KernelUseOnce ==
    ASSUME NEW f, NEW k, Sound(f, k.tables, k.pte), NEW u, NEW v,
           KernelUse(k, u), KernelUse(k, v), u[3] = v[3]
    PROVE  u = v
BY DEF KernelUse, Sound

\* The same within an address space.
LEMMA SpaceUseOnce ==
    ASSUME NEW f, NEW m, SoundSpace(f, m), NEW p, NEW u, NEW v,
           SpaceUse(p, m, u), SpaceUse(p, m, v), u[3] = v[3]
    PROVE  u = v
<1>1. /\ Sound(f, m.tables, m.pte)
      /\ \A n \in DOMAIN m.tables : m.tables[n] # m.pml4
      /\ \A n \in DOMAIN m.pte : m.pte[n] # m.pml4
  BY DEF SoundSpace, Holds, Range
<1> QED BY <1>1 DEF SpaceUse, Sound

\* A frame has one use in the whole system.
LEMMA FrameOnce ==
    ASSUME ASInv, NEW u \in Uses, NEW v \in Uses, u[3] = v[3]
    PROVE  u = v
<1>1. Apart(free, mm, kernel)
  BY DEF ASInv
<1>2. \A x : x \in Uses => KernelUse(kernel, x) \/ \E p \in Procs : SpaceUse(p, mm[p], x)
  BY UseKinds
<1>3. CASE KernelUse(kernel, u) /\ KernelUse(kernel, v)
  BY <1>1, <1>3, KernelUseOnce DEF Apart
<1>4. ASSUME NEW p \in Procs, NEW x, NEW y, KernelUse(kernel, x), SpaceUse(p, mm[p], y)
      PROVE  x[3] # y[3]
  <2>1. x[3] \in KernelFrames(kernel)
    BY <1>4, UsedByKernel
  <2>2. y[3] \in FramesOf(mm[p])
    BY <1>4, UsedBySpace
  <2> QED BY <1>1, <2>1, <2>2 DEF Apart
<1>5. ASSUME NEW p \in Procs, NEW q \in Procs, SpaceUse(p, mm[p], u), SpaceUse(q, mm[q], v)
      PROVE  u = v
  <2>1. u[3] \in FramesOf(mm[p]) /\ v[3] \in FramesOf(mm[q])
    BY <1>5, UsedBySpace
  <2>2. p = q
    BY <1>1, <2>1 DEF Apart
  <2>3. mm[p] # NoMM
    BY <1>5 DEF SpaceUse
  <2>4. SoundSpace(free, mm[p])
    BY <1>1, <2>3 DEF Apart
  <2> QED BY <1>5, <2>2, <2>4, SpaceUseOnce
<1> QED BY <1>2, <1>3, <1>4, <1>5

\* What is in use.
LEMMA InUseFrames == InUse = KernelFrames(kernel) \cup (UNION {FramesOf(mm[p]) : p \in Procs})
<1>1. PICK S : S = UNION {FramesOf(mm[p]) : p \in Procs}
  OBVIOUS
<1>2. ASSUME NEW x \in InUse PROVE x \in KernelFrames(kernel) \cup S
  <2>1. PICK u \in Uses : x = u[3]
    BY <1>2 DEF InUse
  <2>2. KernelUse(kernel, u) \/ \E p \in Procs : SpaceUse(p, mm[p], u)
    BY <2>1, UseKinds
  <2>3. CASE KernelUse(kernel, u)
    BY <2>1, <2>3, UsedByKernel
  <2>4. ASSUME NEW p \in Procs, SpaceUse(p, mm[p], u) PROVE x \in S
    <3>1. x \in FramesOf(mm[p])
      BY <2>1, <2>4, UsedBySpace
    <3> QED BY <1>1, <3>1
  <2> QED BY <2>2, <2>3, <2>4
<1>3. ASSUME NEW x \in KernelFrames(kernel) PROVE x \in InUse
  <2>1. PICK u : KernelUse(kernel, u) /\ u[3] = x
    BY <1>3, UsedByKernel
  <2>2. u \in Uses
    BY <2>1, UseKinds
  <2> QED BY <2>1, <2>2 DEF InUse
<1>4. ASSUME NEW x \in S PROVE x \in InUse
  <2>1. PICK p \in Procs : x \in FramesOf(mm[p])
    BY <1>1, <1>4
  <2>2. PICK u : SpaceUse(p, mm[p], u) /\ u[3] = x
    BY <2>1, UsedBySpace
  <2>3. u \in Uses
    BY <2>2, UseKinds
  <2> QED BY <2>2, <2>3 DEF InUse
<1>5. InUse = KernelFrames(kernel) \cup S
  BY <1>2, <1>3, <1>4
<1> QED BY <1>1, <1>5

\* vmm_map_page, mm_map_range, mm_copy, mm_free and kstack_init: no frame has
\* two uses and none in use is free, for any program, any number of frames,
\* processes and calls, and wherever memory runs out.
THEOREM AddressSpaceFramesDisjoint == Spec => []FramesDisjoint
<1>1. ASInv => FramesDisjoint
  <2> SUFFICES ASSUME ASInv PROVE FramesDisjoint
    OBVIOUS
  <2>1. TypeOK /\ Apart(free, mm, kernel)
    BY DEF ASInv
  <2>2. KernelFrames(kernel) \subseteq Frames
    BY <2>1, MapsRange DEF TypeOK, KernelType, KernelFrames
  <2>3. \A p \in Procs : FramesOf(mm[p]) \subseteq Frames
    <3>1. ASSUME NEW p \in Procs PROVE FramesOf(mm[p]) \subseteq Frames
      <4>1. mm[p] \in Spaces \/ mm[p] = NoMM
        BY <2>1 DEF TypeOK, MMs
      <4>2. CASE mm[p] = NoMM
        BY <4>2 DEF FramesOf
      <4> QED BY <4>1, <4>2, SpaceInFrames
    <3> QED BY <3>1
  <2>4. KernelFrames(kernel) \cap free = {}
    BY <2>1, KernelApart DEF Apart
  <2>5. \A p \in Procs : FramesOf(mm[p]) \cap free = {}
    BY <2>1, ProcApart
  <2>6. InUse \cup free \subseteq Frames /\ InUse \cap free = {}
    BY <2>1, <2>2, <2>3, <2>4, <2>5, InUseFrames DEF TypeOK
  <2>7. IsFiniteSet(InUse)
    <3>1. PICK a, b : a = 1 /\ b = MaxFrames
      OBVIOUS
    <3>2. a \in Int /\ b \in Int /\ Frames = a .. b
      BY <3>1, AddressSpaceAssumption DEF AddressSpaceAssumption, Frames
    <3>3. IsFiniteSet(a .. b)
      BY <3>2, FS_Interval
    <3>4. PICK S, T : S = Frames /\ T = InUse
      OBVIOUS
    <3>5. IsFiniteSet(S) /\ T \in SUBSET S
      BY <2>6, <3>2, <3>3, <3>4
    <3>6. IsFiniteSet(T)
      BY <3>5, FS_Subset
    <3> QED BY <3>4, <3>6
  <2>8. Cardinality(InUse) = Cardinality(Uses)
    <3>1. PICK S, T : S = Uses /\ T = InUse
      OBVIOUS
    <3>2. PICK f : f = [u \in S |-> u[3]]
      OBVIOUS
    <3>3. f \in [S -> T]
      BY <3>1, <3>2 DEF InUse
    <3>4. \A u, v \in S : f[u] = f[v] => u = v
      BY <3>1, <3>2, FrameOnce
    <3>5. \A x \in T : \E u \in S : f[u] = x
      BY <3>1, <3>2 DEF InUse
    <3>6. f \in Injection(S, T)
      BY <3>3, <3>4 DEF Injection, IsInjective
    <3>7. f \in Surjection(S, T)
      BY <3>3, <3>5 DEF Surjection
    <3>8. IsFiniteSet(T)
      BY <2>7, <3>1
    <3>9. Cardinality(S) = Cardinality(T)
      BY <3>6, <3>7, <3>8, FS_Injection
    <3> QED BY <3>1, <3>9
  <2> QED BY <2>6, <2>8 DEF FramesDisjoint
<1> QED BY <1>1, AddressSpaceInvariant, PTL

\* mm_map_range: every mapped page lies in a vma, so fork copies it.
THEOREM AddressSpaceVmasCoverPages == Spec => []VmasCoverPages
<1>1. ASInv => VmasCoverPages
  BY DEF ASInv, Apart, Covered, VmasCoverPages
<1> QED BY <1>1, AddressSpaceInvariant, PTL

\* kstack_init and mm_alloc: every address space has the top entry under which
\* all kernel stacks are made, and the page below a stack is not mapped.
THEOREM AddressSpaceKernelStacksSound == Spec => []KernelStacksSound
<1>1. ASInv => KernelStacksSound
  BY DEF ASInv, Slots, StackArea, KernelStacksSound
<1> QED BY <1>1, AddressSpaceInvariant, PTL

\* Every step but the three known ones keeps all frames free or in use.
THEOREM AddressSpaceNoOtherLeak == Spec => NoOtherLeak
<1>1. free \cup InUse = Total(free, mm, kernel)
  BY InUseFrames DEF Total
<1>2. (free \cup InUse = Total(free, mm, kernel))'
  BY <1>1, PTL
<1>3. ASInv /\ [Next]_vars =>
        [~starved' /\ ~remapped' /\ ~orphaned' => free' \cup InUse' = free \cup InUse]_vars
  BY <1>1, <1>2, StepInv DEF Conserves
<1> QED BY <1>3, AddressSpaceInvariant, PTL DEF Spec, NoOtherLeak

\* mm_map_range's rollback, fork's clean-up and load_elf's lack of one: a call
\* that fails leaves every page of every process as it was, an execve, of any
\* program, perhaps with pages of the new one beside them.
THEOREM AddressSpaceFailureRestoresPages == Spec => FailureRestoresPages
<1>1. ASInv /\ [Next]_vars =>
        [(calls' # calls /\ ret'.value = -1 /\ ~remapped') =>
           \A p \in Procs : mm[p] # NoMM =>
               IF ret'.call = "execve"
               THEN \A q \in DOMAIN mm[p].pte : q \in DOMAIN mm'[p].pte /\ mm'[p].pte[q] = mm[p].pte[q]
               ELSE mm'[p].pte = mm[p].pte]_vars
  BY StepInv DEF Restores, Keeps
<1> QED BY <1>1, AddressSpaceInvariant, PTL DEF Spec, FailureRestoresPages
=============================================================================
